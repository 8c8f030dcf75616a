# A verification of Fargo II

Fargo II lets a TI-92 calculator run 68000 machine code. An assembler on the PC
(`a68k`) writes object files and a linker (`bin/flinker*.cc`) makes a file out
of them; a small kernel (`asm/kernel/kernel.asm`) hooks the calculator's
operating system, the TI-OS, and loads, relocates, runs and unloads such files
with the libraries they import. This directory holds TLA+ models of the assembler, the linker's core and
the kernel, TLC runs on small instances, and proofs checked by TLAPS. File names
below are relative to the repository's `src/` (`PROJECT.json` writes `src/`).

## The system

| Part | State | Operations | What makes it correct |
|---|---|---|---|
| assembler: files, macros, conditions (`a68k/Symtab.c`, `Adirect.c`, `Codegen.c`, `A68kmain.c`) | nested inputs, the secondary heap with names and frames, stored macros, the skip table of INCLUDE files | `LineParts`, `OpenIncl`, `SubArgs`, `GetArgs`; `INCLUDE`, `INCBIN`, `SET`, `MACRO`, `IF...`, `END` | both passes assemble the statements the source stands for; errors noticed in pass 1 are reported |
| assembler: passes and sections (`A68kmain.c`, `Codegen.c`, `Adirect.c`, `A68kmisc.c`) | symbol table, tables of open and shortened branches, sections, relocations, object file | pass 1 and pass 2 of branches, data, space, alignment, equates, sections, `XDEF`, `XREF`, `PUBLIC` | the passes agree on every address; operands and exported symbols mean what the source says |
| assembler: operands and instructions (`Symtab.c`, `Operands.c`, `Opcodes.c`, `Codegen.c`) | the two stacks of the expression parser, the operands' modes, operation word and extension words | `GetValue`, `CondCalc`, `CalcValue`, `GetOperand`, `GetObjectCode` | an accepted line is decoded by the processor as what was written; both passes give it the same size |
| object file reader (`bin/flinkerA68k.cc`, `flinkerObj.cc`) | sections, definitions and references of all files | `ReadA68k`, `ResolveReloc` | files that do not fit are refused; every name has one definition |
| loader (`kernel.asm`, `0_2_0.asm`) | in each module: the linkinfo handle, usage count, library handles, whether its addresses are relocated; result register `d7` | `exec`, `module_setup`, `find_library`, `check_imports`, `load_cleanup`, `module_reloc`, `module_unload` | a module is relocated once per load and undone once; libraries outlive importers; a failed load leaves nothing; failures are reported truthfully |
| hooks and `run_prgm` (`kernel.asm`) | `in_fargo`, `on_pressed`, `waiting`, `wait_timer`, `trap_0_count`, `prgm_handle`, `vidsave_handle` | `int_1_hook`, `int_6_hook`, `trap_0_hook`, `run_prgm` | the screen comes back; the hotkey starts the shell, and only outside programs |
| relocation tables (`flinker92p.cc`, `kernel.asm`) | the bytes of a table | `DumpReloc`, `DoNibbles`; `do_reloc`; the skip loop of `check_imports` | what the linker lists is what the kernel changes |
| link (`flinker92p.cc`, `flinkerObj.cc`, `lists.h`) | section addresses, operands, relocation lists, import nodes, libraries | placing, `ResolveReloc`, `DoFixups`, `Import92P::Func` and `Dump`; the kernel's `do_all_reloc` and `do_imports` | every operand ends up as the address it refers to; a bad reference stops the link |
| installation (`kernel.asm`, `flinker92b.cc`) | the TI-OS's vectors | `boot_init`, `install_fargo`, patching a backup file | not modelled |
| 0.1.x compatibility (`0_1_x.asm`) | the older format's library links | `load_link`, `load_reloc` | not modelled |
| grayscale libraries (`asm/lib`) | planes, saved vectors | on, off, interrupt | not modelled |
| shell, fterm and other programs (`asm/prgm`) | lists, cursor, flags | key handlers, parser, caret interrupt | not modelled |

How they interact:

- the assembler's line reader feeds statements to both passes; an instruction's
  operands are read by the expression parser; what pass 2 writes is an object
  file, which the linker's reader takes with others and `ResolveReloc` links:
  `A68kLink` puts assembler, reader and resolution into one behaviour;
- the linker writes the tables the loader reads (import, export, relocation,
  bss): `Flinker92P` and `RelocTable` put both ends into one behaviour;
- the hooks call `run_prgm`, which calls the loader's `exec`; a program may
  call `exec` again (the shell does), and may call the TI-OS, whose traps enter
  the hooks again;
- a program may leave by `ER_throw`: `exec` catches it, and for a PRGM throws on
  to the TI-OS, past everything `exec` and `run_prgm` would have done.

The behaviours that are hard to test: two passes that must agree although the
first knows less than the second, and although the second does not read all
that the first read; branches whose shortening moves labels that other values
were computed from; a parser with two stacks; recursion over a graph of shared
libraries with failures at any depth; nested programs; interrupts between any
two instructions of `run_prgm`; a throw through two layers; encodings with
limits at 16, 127, 128, 16383, 32768 and 65536. `PROJECT.json` lists every such
hazard with its line, and the properties that cover it.

## Modules

| Module | Models | EXTENDS / INSTANCE |
|---|---|---|
| `KernelLoader` | the loader | instantiates `LoadContract` |
| `LoadContract` | what loading promises | |
| `KernelHooks` | hooks and `run_prgm` | |
| `RelocTable` | encoder and decoders of a relocation table | |
| `Flinker92P` | the link and what the kernel makes of it | |
| `A68kPasses` | the assembler's two passes over statements, with sections, symbols and short branches | |
| `A68kLink` | the object file reader and the resolution of references | extends `A68kPasses` |
| `A68kExpr` | the expression parser | |
| `A68kOpcodes` | the table of instructions | |
| `A68kOperand` | the parser of operands | extends `A68kExpr`, `A68kOpcodes` |
| `M68000` | the formats of the processor (external) | |
| `A68kCode` | the code generator | extends `A68kOperand`, instantiates `M68000` |
| `A68kSource` | files, macros, conditional assembly and skipped INCLUDE files | |
| `MC...` | instances for TLC | the module they check |
| `KernelLoaderProofs`, `KernelHooksProofs`, `RelocTableProofs`, `Flinker92PProofs`, `A68kLinkProofs`, `A68kExprProofs`, `A68kCodeProofs`, `A68kSourceProofs` | theorems | the module they are about |

Definitions keep the names of the source. A definition preceded by a comment
`variant:` is a plausible mistake in the definition after it;
nothing uses it in the specification. `PROJECT.json` pairs each with the
property that must notice it.

### KernelLoader

The loader is recursive assembly code, so the model has an explicit call
`stack`; a frame is a routine, its module, the place in the routine and the
index of the import it has reached. One action runs a routine from one call to
the next: `SetupRecurses` is the path of `find_lib_loop` to `bsr module_setup`,
`SetupLibDone` what follows its return. `files` holds the headers and never
changes. `linked`, `usage`, `found` are the linkinfo block; `relocs` counts how
often a module's addresses have been changed. A failing `HeapAlloc` is the
alternative `SetupNoMemory`. `ProgramThrows` and `ThrowStop` unwind the stack as
`ER_catch` and `ER_throw` do; `QuitThrown` takes the branch that skips `unlk`,
after which the machine runs on a wrong frame and the model stops (`wild`).

`LoadContract` has three variables: what each module needs, how often it is
active, and what is ready. Starting a program and ending one are single steps
and a failed load is none. The refinement maps `ready` to the modules with a
linkinfo block whenever the kernel is quiet (idle, or a program has the
processor), and to what the active programs need while the loader works.

### KernelHooks

Each hook masks all interrupts, so it is one action, or a few that exclude each
other (`Int1Waits`, `HotkeySeen` and `OnAlone` are the ways through
`int_1_check`). `run_prgm` is user code, so each of its steps is an action and
interrupts fall in between; the first, `RunEnters`, is separate because the
hotkey can come between the trap's `rte` and `st.b in_fargo`. `runs` is the
stack of invocations. Screens are told apart by their owner only. `blocks` are
the saved screens in the heap. `stray` is a ghost: a program threw, or called a
ROM routine whose trap started another program; the code keeps few of its
promises then, and the properties that exempt those states say so.

### RelocTable

One behaviour writes a table, one iteration of a loop per step, and reads it
back. `Data` are bytes. `Offset` is pass 1, run alongside pass 2, which is how the
two can be compared. `nibbles` are the bytes at the end of `Data` that
`DoNibbles` may still pack; they are kept apart since pass 2 packs them in place.
`RelocByte`, `RelocWord`, `RelocNibbles`, `RelocPair`, `RelocEnd` are the
branches of `do_reloc`; `SkipFrom` is the loop in `check_imports`, a function
because it has no other effect than its result.

### Flinker92P

The input is what the object files say: sections, definitions, and references in
the order `ResolveReloc` meets them. A step places a section, resolves a
reference with all its offsets, writes an entry of the import table, or performs
one part of the kernel's relocation. `operand` follows each longword that holds
a reference from the object file to the running program. Relocation tables are
sets of addresses here, because `RelocTable` shows what their bytes do. Their
length is left open: `FileTooLarge` may happen to any file, and `Write` only to
one whose sections fit. So is the place where they begin: `Write` chooses one of
`TablePlaces` behind the sections for each of `pointer`, the offsets the kernel takes from the
file. The kernel adds an offset as a sign-extended word (`kernel.asm:545`, `550`,
`596`), so `Found` holds of a table that begins within 32K; for another
`module_setup`, `DoReloc`, `DoBss` or `ImportLib` would read
before the file, which is `ReadsAstray`: the model stops there (`astray`), as what is
read is not the file's. `Linked` says that a program runs with every operand right, and
that a file goes astray only if one of its tables begins beyond the first 32K.

### A68kPasses and A68kLink

A source is a sequence of statements with a label, an operation and an operand
`arg - sub + n`. `Assemble` runs `LineParts`, the statement and the label of a line as
one step each, in pass 1 and in pass 2; shortening a branch (`ScanBranch`,
`ScanEnd`) goes through `FwdBranch` and `FwdBranchFix` as the code does, after the
label that was waited for. `sym`, `hunks`, `rels`, `data` and `file` are the symbol
table, the sections, the relocations and contents of the current section and
the object file; a relocation is a record and not its bytes. `A68kLink` reads
that file and others, a hunk at a time (`ReadData`, `ReadReloc`, `ReadExt`, ...), with
the tests of `ReadA68k` for hunks out of place, and adds up what `ResolveReloc`
adds to each operand. `ReferencesResolve` compares that with the meaning of the
source, which is defined over the labels' places and knows no passes.

### A68kExpr, A68kOperand, A68kOpcodes, A68kCode

A line is a mnemonic, a size and two operands, and an operand is a sequence of
tokens. `A68kExpr` is `GetValue` with its two stacks, one token or one operation of
`CondCalc` a step. `A68kOperand` is `GetOperand`: the mode is found by the tokens
(`In` and its neighbours), values come from `GetValue`, and the conversions to
shorter modes follow. `A68kCode` has the conversions and checks of `GetObjectCode`
and the emission of the operation word and the extension words; `MnemTab` of
`A68kOpcodes` is the table of `Opcodes.c`. `M68000` decodes what was emitted, from
the processor's formats; it is the only definition in the project that is not
read from the sources, and is marked external. `MeansWhatItSays` asks that the
decoded operation and operands are those of the line, `SamePlace` that both
passes give the line the same size, unless a value of it crosses the limit of a
short form between the passes (`CrossesLimit`); the ghost `given` keeps each pass's value of an
operand and whether pass 1 knew it, for a value defined further down is no excuse. A
`Null` mode leaves high bits in the operation word that the model leaves out,
only on lines already in error. For expressions the reference is `Says`, a
definition by splitting at the last operator of least precedence. Texts are as the
scan for operators leaves them (`Scanned`): tokens have characters, and a text
without operators is one token, as `GetValue` takes it for a term. `Readable` asks this
of the part of an operand that reaches `GetValue`.

### A68kSource

A line is a record; a name is its text and the number that replaced `\@`.
`InF` is the chain of inputs with the innermost first; a frame with `UPtr = 0` is
a file and its `Pos` the place to come back to, one with `UPtr > 0` a macro read from
`heap`. `In` is the open file: closed and reopened at an INCLUDE, left open through
a macro in memory. `NextFNS` is the end of the names on the secondary heap.
`LineParts` takes a statement, passes over lines of a condition that is false,
or leaves an input; `GetObjectCode` has an action for each directive;
`MacroBody` stores a macro; `Label1` and `Label2` are what the main loops do after
it, with the end of the pass. `StartPass` rewinds the file that is open (`Rewind`,
`A68kmain.c:565`), which is an INCLUDE or macro file if `END` stood there; the ghost
`rewound` remembers which. `Incl` holds the two tables that let pass 2 skip
INCLUDE files without code, and `SkipInclude` uses them. `noticed` and `log` are
ghosts: the errors and statements of pass 1. `MCA68kSource` defines what a source
stands for by replacing calls and INCLUDEs with text (`Expand`), without files,
frames or passes; `AsWritten` compares pass 1 with it, `SameStatements` pass 2 with
pass 1. `SameStatements` and `ErrorsReported` are said of sources whose pass 2 begins in the main
file (`FromMain`), `AsWritten` and `Ends` of all.

## The runs

| Run | Configuration | Result | Shows |
|---|---|---|---|
| `loader` | `MCKernelLoader.cfg` | holds | loading, counting, relocating and undoing are consistent; the loader implements `LoadContract`; the recursion ends |
| `hooks` | `MCKernelHooks.cfg` | holds | screen, `in_fargo`, hotkey and TI-BASIC start under every interleaving |
| `hooks_poll_race` | `HooksPollRace.cfg` | `HotkeyStartsShell` fails | see finding 1 |
| `reloc_table` | `MCRelocTable.cfg` | holds | a table is read as it was written, has the size reserved for it and is skipped to its end |
| `reloc_table_gap` | `RelocTableGap.cfg` | `AllListedRelocated` fails | see finding 2 |
| `linker` | `MCFlinker92P.cfg` | holds | accepted files run with every operand right, unless a table begins beyond 32K; tables are readable; bad references are refused |
| `linker_twice` | `FlinkerTwice.cfg` | `Linked` fails | see finding 3 |
| `assembler` | `MCA68kLink.cfg` | holds | from source to linked program: the passes agree, every operand and every exported symbol is what the source says, unfit object files are refused |
| `assembler_stale_equate` | `A68kStaleEquate.cfg` | `ReferencesResolve` fails | see finding 4 |
| `operands` | `MCA68kCode.cfg` | holds | accepted instructions are decoded as written and keep their size, unless a value crosses the limit of a short form when labels move; the expression parser accepts, refuses and computes what a definition without stacks does |
| `bit_of_place` | `A68kBitOfPlace.cfg` | `BackwardReferenceReached` fails | see finding 5 |
| `source` | `MCA68kSource.cfg` | holds | pass 1 assembles what the source stands for, pass 2 the same statements without reading all of it; errors are reported; every assembly ends |

Bounds, and why they are enough:

- **Loader.** 144 file systems of two programs and three libraries: `p` imports
  `a` and `b`, or `a` twice; `a` and `b` share `c`, and `a` may also import `b`;
  `q` shares `b`, or imports a program as a library, or has unpacked tables; `b`
  may name a library that does not exist or a symbol out of range; `c` may lack
  the symbol, not be a library, or set a reserved flag. Three nested `exec` calls
  (`MaxExecs`) are one more than it takes for a library to be shared by an outer
  and an inner program while a third load fails. One abandoned program
  (`MaxThrows`) is enough to leave counts behind that later loads meet. The
  symbol limits of the pseudolibraries are cut to 2. Import graphs are acyclic.
- **Hooks.** Two TI-BASIC programs, one with the Fargo signature; a wait of 3
  ticks instead of 100; two nested runs (`MaxNest`), the least with which
  `vidsave_handle` is overwritten. The violation run needs only one.
- **RelocTable.** Small distances come in runs of 0 to 19 (`MaxBefore`) before one
  distance at or near a limit (15, 16, 126, 127, 128, 255, 16509, 16511, 16526,
  32000 words) and 0 to 5 (`MaxAfter`) after it. A full group is 9 nibbles, so 19
  gives two groups and a leftover of one; the lists have every remainder the
  packing can meet.
- **Flinker92P.** Five sections (code, bss, fork, data, bss) and three references
  out of two of them, two of them to any symbol, section or import, the third to
  an import or an undefined symbol; symbol numbers 0, 127, 128, 300 of a library
  and 6, 134, 8190 of `tios`, with differences on both sides of the one-byte limit
  of the import table; sizes at and around 64K. `LongMod` is 2^24 instead of 2^32,
  since only sums that wrap and sums that do not are told apart. Tables begin at
fifteen places (`MCTablePlaces`): close behind the sections of a small file, and on
both sides of 32K and of 64K for the files at the limits, so that each table is found in some and
not in others. A library's export table is not of the file, and is found
always (`ExportAt`).
- **A68kLink.** Three families of sources: two forward branches, overlapping or
  nested, around 118 to 126 bytes of space, so that each is short, long, or short
  only after the other has become so, with labels, references and alignment
  inside and after them; backward branches and equates at 124 to 128 bytes; two
  sections with symbols exported, imported, declared public or not at all.
  Each with and without `-g`. Four names are the most a source uses. Object files
  that do not come from the assembler are of each kind `ReadA68k` refuses, and
  one that fits, once and twice.
- **A68kCode.** Every mnemonic with pairs of six operands of different classes, and
  one mnemonic of each set of mode bits with each of 34 operands beside each of the
  six, in the sizes it has.
  Values are at the limits of the conversions (8 and below for quick forms, 200
  beyond a signed byte, 70000 beyond a word); labels at 40000 are out of reach
  of an absolute short address and in reach of the program counter; `back` and
  `fwd` move by 2 and 4 bytes between the passes. On line 20 (`LineCount`) other labels move and bring
  values across a limit: a difference from 10 to 8 and one from 128 to 126, a displacement from
  2 to 0, a distance from -32770 to -32768, an address from 32768 to 32766, and a
  small data displacement from 65536 to 65532. Expressions are all sequences
  of up to four tokens out of three names, a number, both parentheses and four
  operators, without two names in a row (refused in one step), and every pair of
  binary operators on 0 and 2. Integers are unbounded in the model and small in
  the run.
- **A68kSource.** Main files that call, include and skip in every order of five
  groups of lines, with 30 INCLUDE files; and main files with errors before and
  behind a macro and an INCLUDE, with an `END` in the macro or in the
  INCLUDE file, there at once, in a condition, or where only pass 2 meets it. A file with `END` includes no others: the place to
  come back to is a byte offset, which lines of two files do not share. The heap holds at most 36
  cells with frames of 4 (`Heap2Size`, `SizeInF`), enough for the recursion `r` to
  end and little enough for `q` and the file that includes itself to overflow; the
  skip tables have room for 7 entries and fixups together (`INCSKSIZ`), which some
  sources fill and some do not. `MaxLines` bounds the line count; no source
  reaches it, or `Ends` would fail.

Where a run's configuration turns the deadlock check off the program really
stops: the assembler at the end of a source, the code generator after its line.

Fairness. The loader is one thread of code that nothing blocks, so `KernelStep`
and `ThrowStep` are weakly fair; programs are not, and may run for ever. In
`KernelHooks` the steps of `run_prgm` are weakly fair, and so is the end of a
program (`ProgramEnds` belongs to `RunStep`), which `WaitEnds` and
`BasicProgramStarts` need, as `run_prgm` waits for its program; `TrapCheckBreak` is
weakly fair because TI-BASIC polls the break key for as long as a program runs;
`Int1Waits` is strongly fair: the timer interrupt is periodic, and although it
does nothing while `in_fargo` is set, it cannot miss every moment in between.
Key presses, throws and the user's choices have none. `A68kSource` is a sequential
program, so its `Next` is weakly fair: it goes on while it can, which is all that
`Ends` needs. No liveness is claimed of the linker, the passes or the code generator,
whose every step consumes input.

## Findings

1. A break-key poll between the hotkey and the idle trap overwrites the zero
   handle that stands for the shell (`kernel.asm:745`).
2. A distance of exactly 127 + 16383 words is written as the escape word
   (`flinker92p.cc:398`), and the address after it is not relocated.
3. Import nodes are created per reference record and equal ones skipped when
   sorted (`flinker92p.cc:222`, `lists.h:108`): of two records that import the same
   symbol the second's references are not relocated.
4. An equate of a label inside a branch that is shortened later keeps the
   label's old place, and nothing is reported (`A68kmain.c:490`).
5. `BTST Dn,label` with a label behind is made relative to the program counter as
   if an immediate word preceded the distance (`Codegen.c:125`): the processor
   reads two bytes before the label, at 40006 for a label at 40008.

Met while modelling, and not shown by a run of their own. The inputs of the passing
runs stay clear of most; those marked (*) are in them, and the properties named
except the states they lead to:

- *Kernel.* `module_setup` puts `EXEC_FARGO_TOO_OLD` into `d0`, not into its result
  register `d7` (`kernel.asm:208`), so `exec` returns what the caller had there,
  where `kernel.h:11` documents code 2. (*) A PRGM that throws is never unloaded
  (`kernel.asm:128`), and counts as running for the properties of the loader; (*) an APPL
  that throws takes `exec` to `exec_quit_thrown` past
  `unlk` (`kernel.asm:125`), where the model stops; (*) after a throw, or a program started by a trap out of another,
  `in_fargo` and the saved screen are wrong (`kernel.asm:778`, `800`): `ScreenRestored` and
  `InFargoWhileRunning` except what follows. (*) A hotkey between the trap's `rte` and
  `st.b in_fargo` (`kernel.asm:762`) is taken, and no property says it is not.
  (*) Offsets of tables beyond 32K are read as negative displacements
  (`kernel.asm:545`, `550`, `596`): flinker accepts such files, the run `linker` has them, and
  `Linked` says of them only that they and no others go astray. A bss of
  exactly 64K is written as zero, bss sizes are added in 16 bits. Turning gray7lib
  on twice saves its own handler, and leaving a program with it on unloads the
  library under the interrupt.
- *Linker.* Absolute definitions are relocated. `ReadA68k` accepts a file that ends
  inside a section.
- *Branches and equates.* An equate of a label further down is wrong or refused
  depending on its form. `FwdBranch` and `FwdBranchFix` have 64 and 128 places and
  neither is checked (`Codegen.c:281`). A branch of distance zero is a phase
  error. `Bcc` to another section becomes a 16-bit absolute reference. With `-g` an
  undefined branch target is not made external.
- *Sections and counts.* A symbol declared `XREF`, then `XDEF`, then defined is not
  exported, as `XDEF` leaves an external symbol alone (`Adirect.c:215`). An empty
  section, also one with only a label on the line of a declaration, is overwritten in the object file by
  the next one (`Adirect.c:805`) but keeps its number, so the references of later
  sections name a section one too high and flinker reads past its table: for such
  a source `ReferencesResolve` is false. `DS` of a difference of labels, with a
  branch over them that is shortened later, reserves another size in pass 2 and
  everything behind it is a phase error (`PassesAgree` is false). A negative count
  of `DS` moves the location counter back (`Adirect.c:157`, no check).
- *Instructions.* (*) Nothing keeps the passes together when a value that pass 1
  knows crosses the limit of a short form as labels move (`Codegen.c:144`,
  `Operands.c:383`, `A68kmain.c:503`): `move.l #lab2-lab1,d0` around a branch that is
  shortened later has 128 in pass 1 and 126 in pass 2, and takes 6 bytes and then 2. Labels
  behind it get a phase error (`A68kmain.c:650`). `SamePlace` excepts such lines. `MOVEM` of an immediate mask to memory other than predecrement
  reverses the mask; `MOVEM` of a single register becomes `MOVE`. `SR`,
  `CCR` and `USP` pass as operands of instructions that have no such form.
  Immediate values of `ADDQ`, `SUBQ` and shifts may name a section, which is then not
  relocated; values of other immediates are not checked for range. `DBcc` takes
  an operand that is not a label. A reference forward to data with NEAR loses its
  section. Sizes that an instruction does not have (memory shifts, `MULU`) are
  not refused everywhere. Small data takes any other section for the data section.
- *Sources.* (*) After an `END` in an INCLUDE or macro file pass 2 rewinds that
  file and reads it instead of the main file (`A68kmain.c:565`; `startpass`
  reopens nothing), unless a header file that is not skipped leads back to the main file by
  its name: other statements are assembled and errors of the main file are not
  reported. `SameStatements` and `ErrorsReported` except such sources (`FromMain`). An `END` in a macro that has
  included a file, or met INCBIN or an operation that is not known, leaves no file open, and pass 2 reads a closed
  one for ever (`Symtab.c:309` does not test for -1): `Ends` is false of it, and
  it is not in the run. A skipped INCLUDE restores neither `LabLine` nor the line that
  defined a SET symbol (`Adirect.c:378`): a local label right after it is not found
  in pass 2 and main uses a null pointer (`A68kmain.c:638`), and a symbol first SET
  in it is a forward reference when SET again. A symbol or macro defined twice in
  a skipped file is not reported. An IF on a symbol defined further down, or SET
  further down, may choose differently in the two passes; so may a call of a
  macro that is defined again later. The numbers of `\@` in a macro file and in a
  macro can be equal. A line `MACRO` right after the call of an empty macro is
  dropped. `MACRO` without `ENDM` at the end of a skippable file, and `ENDM` right
  after a definition in a macro file, are not recognised. `NARG` in `SET` and `EQU`
  is called undefined.

## What is proved

Every theorem holds for all values of the constants under the named assumptions
of its module, which TLC evaluates on each run's instance.

- `KernelLoaderProofs`. `TypeCorrect` is inductive as it stands.
  `RelocatedOnceAlways`: no module is relocated twice, and a relocated one has a
  block and a positive count, for any import graph (cycles included), any
  failures, any nesting. `RelocatedOnce` is not inductive: a count is raised
  before the relocation is made, and lowered before it is undone. The invariant
  `RelocInv` adds the shape of the stack (`StackOrder`), what a frame of
  `module_reloc` or `module_unload` past its count says of its module
  (`RelocFrames`), that nothing frees a block under such a frame (`FreeFrames`),
  that a module has at most one such frame (`OneRelocFrame`), and that a counted
  module without one is relocated (`CountedRelocated`). The proof has a lemma for
  each way a step changes the stack and one for each action that touches the heap.
- `KernelLoaderProofs`, second part. The other safety properties of the loader's
  run, and its refinement. None is inductive: the loader is a recursion, and what one of its routines may
  rely on was settled by others. The invariant `LoaderInv` has four parts.
  `StackShape`: each frame has called the one above it, so the recursion follows
  the import lists. `CountInv`: the usage count of a module, corrected by the one
  call of `module_reloc` or `module_unload` that has just been made for it, is the
  number of `exec` calls, abandoned programs and imports that hold it; an import
  holds its library from the call that counts it to the call that gives it up,
  which for a module half relocated or half unloaded depends on the place in its
  list. `WorkInv`: what each routine knows of its modules, among it that a module
  which is set up and not counted has its libraries set up unless the load has
  failed (`Complete`), and that the loader will come back to every such module:
  it is owed by a frame, or found by a module that is (`Reach`, stated with sets
  closed under the lists found, so that no induction is needed). From `LoaderInv`:
  `LinkinfoPresentAlways`; `RunningProgramsReadyAlways`, with `Ready`: what the
  running and the abandoned programs need is closed under imports, and no routine
  touches it; `UsageCountsReferencesAlways`; `FailureExplainedAlways`, with
  `CodeInv`: `module_setup` works on modules the program needs only, and the code
  in `d7` is one that explains the failure while exec waits for it. These hold for
  any import graph. `LibsOutliveImportersAlways` and `ContractKept` (the refinement
  of `LoadContract`) assume `AcyclicImports` of the files: of two libraries that
  import each other the first is counted, and so passed over by the other, before
  it is relocated, and when they are unloaded their counts never reach zero
  (`LoadContract` would have them go). All file systems of the run are acyclic.
  Their invariant adds `Fresh`, that a module being relocated is not imported by
  one that has been. `ContractKept` takes each step of the loader to a step of
  the contract: `ExecRuns` to a start, `ProgramReturns` to an end (the unloading
  itself is not visible), all others to stutters.
- `KernelHooksProofs`. `ScreenRestoredAlways` and `InFargoAlways`, from
  `HooksInv`: until something strays there is at most one invocation, `in_fargo`
  follows its place, and at each place one knows which block holds the saved
  screen. `run_prgm` has no other protection for `vidsave_handle` than this.
  `HooksTyped`: the saved screen is always in a block that was free, and, by
  `TimerInv`, a wait for the hotkey never counts past its end.
  `HotkeyStaysOutsideAlways`, an action property, from both.
- `RelocTableProofs`. `PassesAgreeAlways`: what pass 1 counts is what pass 2
  writes, for any list of addresses; `WriterInv` types the writer's state, and the
  work is in the length of a packed group. The rest is about one table from its
  first byte written to its last byte read. `ReadStep` is what `do_reloc` does with
  the next code of a table, and a `Path` is a sequence of marks (a byte, an address,
  nibbles left) each a read step from the one before. The writer's invariant,
  `Written`, says that a path leads through the bytes written, and that the
  nibbles still collected lead from its end to where the linker is in the list,
  meeting the listed addresses on the way and no others; it must hold both for a
  group that is packed later and for one that is written as bytes. The reader's
  says that `do_reloc` is at a mark of a path that ends at the byte 0, and has
  changed what lies behind it. Thus `OnlyListedAlways` and `AllListedAlways`, that
  the kernel relocates what the linker listed, under `GapFree`: no distance of
  16383 + 127 words from one address to the next, which is the second finding
  and nothing more (run `reloc_table_gap` refutes them without it, all lists of
  the passing run have it). `RelocTyped` and `SkipStopsAlways` need no such
  hypothesis: the loop of `check_imports` satisfies an equation, taken from its
  recursive function, that every path to the end satisfies too.
- `Flinker92PProofs`. `BadFilesRejectedAlways`: `LinkInv` says that a bad
  reference already passed has set `Error`, and that the sections placed hold one
  fork at most. `TablesReadableAlways`: by `Layout` sections of a kind lie one
  behind the other, so that two operands do not overlap wherever they are
  (`PlacesApart`), and by `Claims` an address in a table is of a reference that
  has been passed and is in no other table. It assumes of object files, as the
  assembler writes them, that an operand is on an even offset of its section, holds
  one reference, and does not overlap the next (`OperandsAssumption`).
  `LinkedAlways`, with no bound on the size of a file and for any places of its
  tables: a file that goes astray has a table beyond 32K, for `Found` is what each read
  asks; and by `Operated` every operand is its addend plus what its reference
  means in the file once `ResolveReloc` has passed it (`Base`), plus the base
  address or the export once the kernel has come to it (`Shift`), modulo 2^32;
  `Settled` and `Nodes` say in which table, or which node of the import list, a
  reference passed is. Between Dump and `do_imports` stands the import table:
  `TableInv` assigns to the places between its entries marks, the number of a
  library and the symbol that was last, and each entry leads from a mark to the
  next. The writer is at the last mark, the reader at the mark its `a2` points to,
  and `Counted` undoes `Delta`, byte or word, up to symbol 8190 (`MAXSYM`: the
  kernel scales the number by four in a signed word). Two hypotheses on the files, true of all
  files of the passing run: `ImportedOnce`, no symbol has two references, without
  which the third finding refutes the theorem (run `linker_twice`); and
  `BssCounted`, there are no references to a bss whose size the file gives as
  zero (one of exactly 64K, see the findings, or an empty one). `LinkTyped` adds
  the ranges of numbers, tables and operands.
- `A68kLinkProofs`. `LinkedOnce`: whatever object files are read, in whatever
  order, each reference by name of a linked program has the only definition of
  that name as its target, or nobody defines it and it is imported. The invariant
  says that the definitions read so far have different names (`OneDefinition`: a
  second one sets `error` and is not entered), and that the fixups of a finished
  link are those of the references (`Resolved`).
- `A68kExprProofs`. `StacksAgree`: for every operand and every symbol table the
  parser's "Parser bug?" exits are never taken. The invariant counts the entries
  of the operator stack that wait for a term and the open parentheses among
  them: the first number is one less than the terms there are after a term, and
  equal to it before one; the second is `parncnt`. A count is given by a function
  along the stack, which a push extends and a pop shortens (`CountedPush`,
  `CountedPop`), so no induction over the stack is needed; `AgreeTop` turns it into
  what the top of the stack says.
  `SyntaxIsChecked` and `ValueIsMeant`: for operands of any length the parser accepts
  exactly what the definition without stacks gives a form, and computes its value
  and its section. Neither is inductive, since they speak of a parser that is done. The
  invariant `ReadInv` adds to the counts what each entry of the two stacks stands
  for. The entries of the operator stack are tokens of the operand, in their order
  (`Layout`); below a binary operator lies the value of the whole span since the
  entry before (`Good`: a term or terms with balanced parentheses, whose value is
  what `Says` gives it), and that span has only operators that bind at least as tightly
  (`Least`); below a sign lies the zero or the ones that it is calculated with.
  What has been read since the last entry depends on where the parser is
  (`Reads`). So a calculation joins two neighbouring spans at the place where `Says`
  splits them, and at the end one span is left, the operand. A refused
  operand breaks off at a token after which none of the definition's forms can go
  on. The step of each of `GetValue`'s branches has a lemma. `Says` and `EndsTerm` are
  recursive functions; that they satisfy their equations on every operand is
  proved from the least span that would not. After an error of another kind (an
  undefined symbol, two external names) no value is claimed, but the syntax is.
  `TokensAssumption` says of operands that they are `Scanned`.
- `A68kCodeProofs`. `OperandsRead`: the three properties hold of each expression
  of each operand that the code generator reads, in both passes. `CodeInv` says
  that the parser is at rest whenever `GetObjectCode` is not waiting for it, and
  the work is that the part of an operand given to `GetValue` (after `#`, before
  the last parenthesis, without a size) is `Scanned`, which `LinesAssumption` requires
  of the lines (`ExpressionScanned`).
- `A68kSourceProofs`. `TablesApartAlways`: the table of skippable files never meets
  that of their fixups, for any sizes and any order of INCLUDE, SET and errors.
  The invariant `Apart` adds that the fixups of the file being read are the last
  ones, so that dropping the file gives them back. `HeapApartAlways`: names never
  reach frames on the secondary heap, also in endless recursion. It needs of each
  open input that the end of names it remembers leaves room for the frames
  below it (`Nested`). Both are conjuncts of `TypeOK` in the run.

Only model-checked: types, `PassesAgree`, `ReferencesResolve` and
`DefinitionsExported` of `A68kLink`, and `CodeTypeOK`, `MeansWhatItSays` and
`SamePlace` of `A68kCode` and the properties of `MCA68kSource`: that the
assembler's passes agree and that its output means what the source says.
Those of `A68kLink` are not true of every source: a negative `DS` refutes `TypeOK`, an
equate inside a shortened branch `ReferencesResolve`, and `XREF` followed by `XDEF` of a
symbol defined below, which is then not exported (`Adirect.c:215`),
`DefinitionsExported`; a theorem would have to exclude each such source by a
hypothesis. `CodeTypeOK` bounds the operation word, which is put together from its bits: `FromBits`
is a fold, and what a fold computes needs induction over its data. `MeansWhatItSays` compares the
code of all mnemonics with the decoder of `M68000`, a finite matter that the run covers
mnemonic by mnemonic. `SamePlace` excepts values that cross a limit, so its proof would compare
the conversions of both passes mode by mode, for labels that move as `A68kPasses` has them; and
`MCA68kSource` compares with `Expanded`, a RECURSIVE operator. Liveness
under fairness (`LoaderComesBack`, `WaitEnds`, `BasicProgramStarts`, `Ends`) and
anything about `ENABLED` is beyond the proof system. So are the library's
induction theorems, which take an operator that the provers do not
instantiate. Where an argument needs induction over numbers, as for the skip loop,
the least of the import nodes and the spans of an operand, the proofs use that a
set of numbers that is not empty has a least element (`LeastExists`, `LeastNumber`),
which the theorem on well-founded relations gives for a set.

## Not modelled, and why

- In the loader: sizes (the `add.w` of the bss size), the upper half of `d7`
  (`0_2_0.asm:25` sets a word), heap compaction moving blocks between calls (the
  code does not re-read every handle after a call that may move blocks), the bytes of a relocation (one step; `RelocTable`).
- In the runs of `RelocTable`: duplicate or overlapping addresses and odd ones,
  which `TablesReadable` of `Flinker92P` excludes.
- In `Flinker92P`: exports, comments, file header, checksum, the lengths that decide
  where a table begins (the place is chosen), what the kernel does with bytes read
  before the file, and absolute definitions.
- In the assembler: the characters of a line (fields, tabs, quotes, the digits of a
  number), the hash tables, the listing with `LIST` and `NOLIST`, `EQUR` and `REG`
  as directives (their symbols are in `A68kExpr`), `\0`, `ORG`, `DCB`, named
  sections with flags, S-records, and symbols of more than 32 bits. `A68kPasses`
  has statements that stand for classes of instructions and `A68kCode` one line
  at a time; `A68kSource` knows sizes only as 0 and 1. What one of them computes is
  an input of the next: addresses and symbol values of `A68kCode` are constants,
  chosen as `A68kPasses` can produce them.
- Between assembler and linker: `Flinker92P` starts from sections, definitions and
  references, `A68kLink` ends with them.
- The kernel's installation, the 0.1.x loader, the grayscale libraries, the shell and
  fterm: reachable by the same means, see the plan. `flib` and `hexlib` have no
  state.
- The linker's other output formats use the same `ResolveReloc`. Option parsing and
  the file utilities: input and output. The ROM address tables: data.

## Plan

Done: `KernelLoader` with `LoadContract`, `KernelHooks`, `RelocTable`, `Flinker92P`,
`A68kPasses` with `A68kLink`, `A68kExpr` to `A68kCode`, and `A68kSource`, each
with theorems. Next, in this order:

1. the grayscale libraries (`Gray`): on, off, exit and the interrupt, composed with
   the loader's unloading and the throw path; runs with two on/off calls and one
   interrupt source;
2. exports (`Export92P::Func`) added to `Flinker92P`, so that a library linked by
   one behaviour is imported by another, and the installation with `flinker92b.cc`;
3. the shell, composed with `run_prgm` and a throwing program: its own flag against
   being started twice, and its list of programs;
4. fterm's escape parser and caret, and the 0.1.x loader.

Theorems next: `DefinitionsExported` and `ReferencesResolve` for sources without the
forms named above, which follow the object file from its records to the link;
`PassesAgree`, whose invariant must relate the tables of open branches to the
labels between them; `SamePlace`, first for labels that keep their place.
