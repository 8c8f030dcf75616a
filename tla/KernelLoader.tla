---------------------------- MODULE KernelLoader ----------------------------
(***************************************************************************)
(* The module loader of the Fargo kernel (asm/kernel/kernel.asm, with the  *)
(* hooks asm/kernel/0_2_0.asm adds for executables whose tables are not    *)
(* packed): exec, module_setup, find_library, check_imports, load_cleanup, *)
(* module_reloc and module_unload.                                         *)
(*                                                                         *)
(* Loading is recursive 68000 code, so the model carries the call stack:   *)
(* a frame is a routine, the module it works on, where in the routine it   *)
(* is, and which import it has reached.  A step runs one routine from one  *)
(* of its calls to the next.                                               *)
(***************************************************************************)
EXTENDS Integers, Sequences, FiniteSets, SequencesExt

CONSTANTS
    Modules,      \* the executables in the calculator's memory
    Worlds,       \* the possible contents of their file headers
    CallerD7,     \* what register d7 holds when exec is called
    Compat020,    \* whether 0_2_0.asm is linked into the kernel
    MaxExecs,     \* bound: exec calls nested in each other
    MaxThrows     \* bound: programs abandoned by a throw before the last throw

(***************************************************************************)
(* A file header.  An import names a library, or one of the kernel's two   *)
(* pseudolibraries, or a name no file has, and sym is the highest symbol   *)
(* number used from it.  Kind "old" is a Fargo 0.1.x program, "other"      *)
(* anything without the Fargo signature.                                   *)
(***************************************************************************)
Pseudolibs == {"tios", "kernel"}
Absent     == "absent"
Import     == [lib : Modules \cup Pseudolibs \cup {Absent}, sym : Nat]
File       == [kind : {"PRGM", "APPL", "DLL", "old", "other"},
               exports : Nat, reserved : BOOLEAN, packed : BOOLEAN,
               imports : Seq(Import)]

EXEC_OK             == 0
EXEC_NO_MEM         == 1
EXEC_FARGO_TOO_OLD  == 2
EXEC_LIB_NOT_FOUND  == 3
EXEC_LIB_RANGE_ERR  == 4
EXEC_NOT_EXEC       == 5
EXEC_TIOS_ERROR     == 6
EXEC_INCOMPAT_ROM   == 8
EXEC_INCOMPATIBLE   == 7
EXEC_UNKNOWN_FORMAT == 9

(***************************************************************************)
(* Both callers in the repository leave a memory handle in d7, which is    *)
(* never zero and, being a handle, not one of exec's result codes.         *)
(***************************************************************************)
ASSUME WorldsAssumption == Worlds \subseteq [Modules -> File]
ASSUME NamesAssumption  == Modules \cap (Pseudolibs \cup {Absent}) = {}
ASSUME CallerAssumption == CallerD7 \in Nat \ (0..9)
ASSUME BoundsAssumption == /\ Compat020 \in BOOLEAN
                           /\ MaxExecs \in Nat
                           /\ MaxThrows \in Nat

VARIABLES
    files,      \* the headers of the files, fixed
    stack,      \* the frames of exec and of the routines it has called
    linked,     \* linked[m]: the linkinfo handle at 12(m) is not zero
    usage,      \* the usage count, first word of the linkinfo block
    found,      \* how many library handles the linkinfo block holds
    relocs,     \* how many times m's addresses have had their base added
    d7,         \* the loader's result register
    d0,         \* the result of the exec that returned last
    abandoned,  \* the programs whose exec call was thrown away
    wild        \* the 68000 no longer runs the code modelled here

vars == <<files, stack, linked, usage, found, relocs, d7, d0, abandoned, wild>>
heap == <<linked, usage, found, relocs>>

-----------------------------------------------------------------------------
(* Frames *)

Routines == {"exec", "setup", "cleanup", "reloc", "unload"}
Places   == {"setup", "cleanup", "reloc", "run", "unload", "caught",
             "enter", "find", "lib", "libs", "finish"}
Frame    == [op : Routines, mod : Modules, pc : Places, idx : Nat]

Call(op, m)       == [op |-> op, mod |-> m, pc |-> "enter", idx |-> 0]
ExecFrame(m)      == [op |-> "exec", mod |-> m, pc |-> "setup", idx |-> 0]
Top               == Last(stack)
At(op, pc)        == /\ ~wild
                     /\ stack # <<>>
                     /\ Top.op = op
                     /\ Top.pc = pc
Resume(pc, i)     == [op |-> Top.op, mod |-> Top.mod, pc |-> pc, idx |-> i]
Return            == stack' = Front(stack)
Goto(pc, i)       == stack' = Append(Front(stack), Resume(pc, i))
GoCall(pc, i, op, m) ==
    stack' = Append(Append(Front(stack), Resume(pc, i)), Call(op, m))

Idle      == stack = <<>> /\ ~wild
InProgram == At("exec", "run")
\* exec can be called: nothing runs, or a program does
Quiet     == Idle \/ InProgram
Execs     == {i \in DOMAIN stack : stack[i].op = "exec"}

-----------------------------------------------------------------------------
(* What the header of a file says *)

Imports(m)   == files[m].imports
Lib(m, i)    == Imports(m)[i].lib
Readable(m)  == files[m].packed \/ Compat020

\* find_library: a pseudolibrary, or a file of subtype DLL with that name
Found(lib)   == lib \in Pseudolibs \/ (lib \in Modules /\ files[lib].kind = "DLL")

TIOS_EXPORTS   == 2      \* _tios_count, cut down: the model needs only a limit
KERNEL_EXPORTS == 1
ExportsOf(lib) == CASE lib = "tios"   -> TIOS_EXPORTS
                    [] lib = "kernel" -> KERNEL_EXPORTS
                    [] OTHER          -> files[lib].exports

\* check_imports: symbol numbers start at 1, the last valid one is the count
InRange(m, i) == Imports(m)[i].sym <= ExportsOf(Lib(m, i))

\* the error exec finds in the header itself, before any loading
HeaderError(m) ==
    CASE files[m].kind = "other" -> EXEC_UNKNOWN_FORMAT
      [] files[m].kind = "old"   -> EXEC_INCOMPATIBLE
      [] files[m].kind = "DLL"   -> EXEC_NOT_EXEC
      [] OTHER -> IF files[m].exports = 0 THEN EXEC_NOT_EXEC ELSE EXEC_OK

-----------------------------------------------------------------------------
Init ==
    /\ files \in Worlds
    /\ stack = <<>>
    /\ linked = [m \in Modules |-> FALSE]
    /\ usage = [m \in Modules |-> 0]
    /\ found = [m \in Modules |-> 0]
    /\ relocs = [m \in Modules |-> 0]
    /\ d7 = CallerD7
    /\ d0 = EXEC_OK
    /\ abandoned = <<>>
    /\ wild = FALSE

-----------------------------------------------------------------------------
(* exec: called by run_prgm when nothing runs, or by a running program *)

ExecRefused(m) ==
    /\ Quiet
    /\ HeaderError(m) # EXEC_OK
    /\ d0' = HeaderError(m)
    /\ UNCHANGED <<files, stack, heap, d7, abandoned, wild>>

ExecLoads(m) ==
    /\ Quiet
    /\ Cardinality(Execs) < MaxExecs
    /\ HeaderError(m) = EXEC_OK
    /\ stack' = Append(Append(stack, ExecFrame(m)), Call("setup", m))
    /\ d0' = EXEC_NOT_EXEC
    /\ d7' = CallerD7
    /\ UNCHANGED <<files, heap, abandoned, wild>>

\* module_load, once module_setup has returned
LoadRelocates ==
    /\ At("exec", "setup")
    /\ d7 = EXEC_OK
    /\ GoCall("reloc", 0, "reloc", Top.mod)
    /\ UNCHANGED <<files, heap, d7, d0, abandoned, wild>>

\* variant: the failed load is not undone
LoadOnlyFails ==
    /\ At("exec", "setup")
    /\ d7 # EXEC_OK
    /\ Goto("cleanup", 0)
    /\ UNCHANGED <<files, heap, d7, d0, abandoned, wild>>

LoadCleansUp ==
    /\ At("exec", "setup")
    /\ d7 # EXEC_OK
    /\ GoCall("cleanup", 0, "cleanup", Top.mod)
    /\ UNCHANGED <<files, heap, d7, d0, abandoned, wild>>

ExecFails ==
    /\ At("exec", "cleanup")
    /\ Return
    /\ d0' = d7
    /\ UNCHANGED <<files, heap, d7, abandoned, wild>>

\* ER_catch saves the state and the program is called
ExecRuns ==
    /\ At("exec", "reloc")
    /\ Goto("run", 0)
    /\ UNCHANGED <<files, heap, d7, d0, abandoned, wild>>

ProgramReturns ==
    /\ InProgram
    /\ GoCall("unload", 0, "unload", Top.mod)
    /\ d7' = EXEC_OK
    /\ UNCHANGED <<files, heap, d0, abandoned, wild>>

ExecReturns ==
    /\ At("exec", "unload")
    /\ Return
    /\ d0' = d7
    /\ UNCHANGED <<files, heap, d7, abandoned, wild>>

(***************************************************************************)
(* The program, or a ROM routine it called, throws: ER_catch returns a     *)
(* second time in the innermost exec.                                      *)
(***************************************************************************)
ProgramThrows ==
    /\ InProgram
    /\ Len(abandoned) < MaxThrows
    /\ Goto("caught", 0)
    /\ d7' = EXEC_TIOS_ERROR
    /\ UNCHANGED <<files, heap, d0, abandoned, wild>>

(***************************************************************************)
(* exec of a PRGM shows the error and throws ER_STOP, which the enclosing  *)
(* exec catches in its turn; without one the throw ends in the TI-OS, and  *)
(* the loader's stack with it.                                             *)
(***************************************************************************)
ThrowStop ==
    /\ At("exec", "caught")
    /\ files[Top.mod].kind = "PRGM"
    /\ abandoned' = Append(abandoned, Top.mod)
    /\ LET outer == Front(stack)
       IN  stack' = IF outer = <<>> THEN <<>>
                    ELSE Append(Front(outer), [Last(outer) EXCEPT !.pc = "caught"])
    /\ d7' = EXEC_TIOS_ERROR
    /\ UNCHANGED <<files, heap, d0, wild>>

(***************************************************************************)
(* exec of an APPL goes to exec_quit_thrown, past the unlk.  ER_catch has  *)
(* restored a7 to the bottom of the error frame, so the handle is read     *)
(* from that frame and the rts returns into it: from here on the 68000     *)
(* executes whatever the stack held.                                       *)
(***************************************************************************)
QuitThrown ==
    /\ At("exec", "caught")
    /\ files[Top.mod].kind = "APPL"
    /\ wild' = TRUE
    /\ UNCHANGED <<files, stack, heap, d7, d0, abandoned>>

-----------------------------------------------------------------------------
(* module_setup, and module_setup_compat for tables that are not packed *)

SetupFails(code) ==
    /\ d7' = code
    /\ Return
    /\ UNCHANGED <<files, heap, d0, abandoned, wild>>

SetupAlreadyDone ==
    /\ At("setup", "enter")
    /\ linked[Top.mod]
    /\ SetupFails(EXEC_OK)

\* the error code goes to d0, while the result is returned in d7
SetupTooOld ==
    /\ At("setup", "enter")
    /\ ~linked[Top.mod]
    /\ files[Top.mod].reserved
    /\ SetupFails(d7)

SetupIncompatible ==
    /\ At("setup", "enter")
    /\ ~linked[Top.mod]
    /\ ~files[Top.mod].reserved
    /\ ~Readable(Top.mod)
    /\ SetupFails(EXEC_INCOMPATIBLE)

Allocates ==
    /\ At("setup", "enter")
    /\ ~linked[Top.mod]
    /\ ~files[Top.mod].reserved
    /\ Readable(Top.mod)

SetupNoMemory ==
    /\ Allocates
    /\ SetupFails(EXEC_NO_MEM)

\* HeapAlloc succeeds and init_linkinfo clears the count and the handle list
SetupAllocates ==
    /\ Allocates
    /\ linked' = [linked EXCEPT ![Top.mod] = TRUE]
    /\ usage' = [usage EXCEPT ![Top.mod] = 0]
    /\ found' = [found EXCEPT ![Top.mod] = 0]
    /\ IF Imports(Top.mod) = <<>>
       THEN Return /\ d7' = EXEC_OK
       ELSE Goto("find", 1) /\ d7' = EXEC_LIB_NOT_FOUND
    /\ UNCHANGED <<files, relocs, d0, abandoned, wild>>

\* variant: the code is not set again for the next library
SetupLibMisreported ==
    /\ At("setup", "find")
    /\ ~Found(Lib(Top.mod, Top.idx))
    /\ SetupFails(EXEC_LIB_RANGE_ERR)

SetupLibMissing ==
    /\ At("setup", "find")
    /\ ~Found(Lib(Top.mod, Top.idx))
    /\ SetupFails(d7)

\* next_lib_loop: skip to the next library name, or stop at the last one
NextLib ==
    IF Top.idx = Len(Imports(Top.mod))
    THEN Return /\ d7' = EXEC_OK
    ELSE Goto("find", Top.idx + 1) /\ d7' = EXEC_LIB_NOT_FOUND

SetupRangeError ==
    /\ At("setup", "find")
    /\ Found(Lib(Top.mod, Top.idx))
    /\ ~InRange(Top.mod, Top.idx)
    /\ found' = [found EXCEPT ![Top.mod] = Top.idx]
    /\ d7' = EXEC_LIB_RANGE_ERR
    /\ Return
    /\ UNCHANGED <<files, linked, usage, relocs, d0, abandoned, wild>>

FindsLib ==
    /\ At("setup", "find")
    /\ Found(Lib(Top.mod, Top.idx))
    /\ InRange(Top.mod, Top.idx)
    /\ found' = [found EXCEPT ![Top.mod] = Top.idx]
    /\ UNCHANGED <<files, linked, usage, relocs, d0, abandoned, wild>>

SetupPseudolib ==
    /\ FindsLib
    /\ Lib(Top.mod, Top.idx) \in Pseudolibs
    /\ NextLib

SetupRecurses ==
    /\ FindsLib
    /\ Lib(Top.mod, Top.idx) \in Modules
    /\ d7' = EXEC_LIB_RANGE_ERR
    /\ GoCall("lib", Top.idx, "setup", Lib(Top.mod, Top.idx))

SetupLibDone ==
    /\ At("setup", "lib")
    /\ IF d7 = EXEC_OK THEN NextLib ELSE Return /\ UNCHANGED d7
    /\ UNCHANGED <<files, heap, d0, abandoned, wild>>

-----------------------------------------------------------------------------
(* load_cleanup *)

CleanupNothing ==
    /\ At("cleanup", "enter")
    /\ ~linked[Top.mod] \/ usage[Top.mod] # 0
    /\ Return
    /\ UNCHANGED <<files, heap, d7, d0, abandoned, wild>>

\* variant: libraries another program uses are not spared
CleanupTakesAll ==
    /\ At("cleanup", "enter")
    /\ linked[Top.mod]
    /\ Goto("libs", 1)
    /\ UNCHANGED <<files, heap, d7, d0, abandoned, wild>>

CleanupStarts ==
    /\ At("cleanup", "enter")
    /\ linked[Top.mod]
    /\ usage[Top.mod] = 0
    /\ Goto("libs", 1)
    /\ UNCHANGED <<files, heap, d7, d0, abandoned, wild>>

\* variant: the pointer into the handle list is not advanced
CleanupSticks ==
    /\ At("cleanup", "libs")
    /\ Top.idx <= found[Top.mod]
    /\ IF Lib(Top.mod, Top.idx) \in Modules
       THEN GoCall("libs", Top.idx, "cleanup", Lib(Top.mod, Top.idx))
       ELSE Goto("libs", Top.idx + 1)
    /\ UNCHANGED <<files, heap, d7, d0, abandoned, wild>>

\* the handle list ends at its length or at the first handle not found
CleanupLib ==
    /\ At("cleanup", "libs")
    /\ Top.idx <= found[Top.mod]
    /\ IF Lib(Top.mod, Top.idx) \in Modules
       THEN GoCall("libs", Top.idx + 1, "cleanup", Lib(Top.mod, Top.idx))
       ELSE Goto("libs", Top.idx + 1)
    /\ UNCHANGED <<files, heap, d7, d0, abandoned, wild>>

\* 12(m) is cleared, then HeapFree: the block's contents are gone
FreeLinkinfo ==
    /\ linked' = [linked EXCEPT ![Top.mod] = FALSE]
    /\ found' = [found EXCEPT ![Top.mod] = 0]
    /\ Return
    /\ UNCHANGED <<files, usage, relocs, d7, d0, abandoned, wild>>

CleanupFrees ==
    /\ At("cleanup", "libs")
    /\ Top.idx > found[Top.mod]
    /\ FreeLinkinfo

-----------------------------------------------------------------------------
(* module_reloc and module_unload: both dereference the linkinfo handle,   *)
(* so a step is defined only where there is one.                           *)

\* variant: a module already relocated is not counted again
RelocUncounted ==
    /\ At("reloc", "enter")
    /\ linked[Top.mod]
    /\ usage[Top.mod] # 0
    /\ Return
    /\ UNCHANGED <<files, heap, d7, d0, abandoned, wild>>

RelocShared ==
    /\ At("reloc", "enter")
    /\ linked[Top.mod]
    /\ usage[Top.mod] # 0
    /\ usage' = [usage EXCEPT ![Top.mod] = @ + 1]
    /\ Return
    /\ UNCHANGED <<files, linked, found, relocs, d7, d0, abandoned, wild>>

\* variant: the old count is not tested
RelocAgain ==
    /\ At("reloc", "enter")
    /\ linked[Top.mod]
    /\ usage' = [usage EXCEPT ![Top.mod] = @ + 1]
    /\ Goto("libs", 1)
    /\ UNCHANGED <<files, linked, found, relocs, d7, d0, abandoned, wild>>

\* variant: the module is relocated before its libraries
RelocBeforeLibs ==
    /\ At("reloc", "enter")
    /\ linked[Top.mod]
    /\ usage[Top.mod] = 0
    /\ usage' = [usage EXCEPT ![Top.mod] = 1]
    /\ relocs' = [relocs EXCEPT ![Top.mod] = @ + 1]
    /\ Goto("libs", 1)
    /\ UNCHANGED <<files, linked, found, d7, d0, abandoned, wild>>

RelocFirst ==
    /\ At("reloc", "enter")
    /\ linked[Top.mod]
    /\ usage[Top.mod] = 0
    /\ usage' = [usage EXCEPT ![Top.mod] = 1]
    /\ Goto("libs", 1)
    /\ UNCHANGED <<files, linked, found, relocs, d7, d0, abandoned, wild>>

\* recurse_libs with module_reloc or module_unload as the callback
RecurseLib(op) ==
    /\ At(op, "libs")
    /\ Top.idx <= Len(Imports(Top.mod))
    /\ IF Lib(Top.mod, Top.idx) \in Modules
       THEN GoCall("libs", Top.idx + 1, op, Lib(Top.mod, Top.idx))
       ELSE Goto("libs", Top.idx + 1)
    /\ UNCHANGED <<files, heap, d7, d0, abandoned, wild>>

\* do_all_reloc and do_imports, adding
RelocAdds ==
    /\ At("reloc", "libs")
    /\ Top.idx > Len(Imports(Top.mod))
    /\ relocs' = [relocs EXCEPT ![Top.mod] = @ + 1]
    /\ Return
    /\ UNCHANGED <<files, linked, usage, found, d7, d0, abandoned, wild>>

UnloadShared ==
    /\ At("unload", "enter")
    /\ linked[Top.mod]
    /\ usage[Top.mod] # 1
    /\ usage' = [usage EXCEPT ![Top.mod] = @ - 1]
    /\ Return
    /\ UNCHANGED <<files, linked, found, relocs, d7, d0, abandoned, wild>>

\* variant: the count left over is not tested
UnloadAtOnce ==
    /\ At("unload", "enter")
    /\ linked[Top.mod]
    /\ usage' = [usage EXCEPT ![Top.mod] = @ - 1]
    /\ relocs' = [relocs EXCEPT ![Top.mod] = @ - 1]
    /\ Goto("libs", 1)
    /\ UNCHANGED <<files, linked, found, d7, d0, abandoned, wild>>

\* do_imports and do_all_reloc, subtracting, before the libraries are left
UnloadLast ==
    /\ At("unload", "enter")
    /\ linked[Top.mod]
    /\ usage[Top.mod] = 1
    /\ usage' = [usage EXCEPT ![Top.mod] = 0]
    /\ relocs' = [relocs EXCEPT ![Top.mod] = @ - 1]
    /\ Goto("libs", 1)
    /\ UNCHANGED <<files, linked, found, d7, d0, abandoned, wild>>

UnloadFrees ==
    /\ At("unload", "libs")
    /\ Top.idx > Len(Imports(Top.mod))
    /\ FreeLinkinfo

-----------------------------------------------------------------------------
ExecSteps ==
    LoadRelocates \/ LoadCleansUp \/ ExecFails \/ ExecRuns \/ ExecReturns
SetupSteps ==
    \/ SetupAlreadyDone \/ SetupTooOld \/ SetupIncompatible \/ SetupNoMemory
    \/ SetupAllocates \/ SetupLibMissing \/ SetupRangeError \/ SetupPseudolib
    \/ SetupRecurses \/ SetupLibDone
CleanupSteps == CleanupNothing \/ CleanupStarts \/ CleanupLib \/ CleanupFrees
RelocSteps   == RelocShared \/ RelocFirst \/ RecurseLib("reloc") \/ RelocAdds
UnloadSteps  == UnloadShared \/ UnloadLast \/ RecurseLib("unload") \/ UnloadFrees

\* what the kernel does by itself, and what the user or a program decides
KernelStep  == ExecSteps \/ SetupSteps \/ CleanupSteps \/ RelocSteps \/ UnloadSteps
ProgramStep == \/ \E m \in Modules : ExecRefused(m) \/ ExecLoads(m)
               \/ ProgramReturns \/ ProgramThrows
ThrowStep   == ThrowStop \/ QuitThrown
Halted      == wild /\ UNCHANGED vars

Next == KernelStep \/ ProgramStep \/ ThrowStep \/ Halted

Spec     == Init /\ [][Next]_vars
FairSpec == Spec /\ WF_vars(KernelStep) /\ WF_vars(ThrowStep)

-----------------------------------------------------------------------------
(* Properties *)

\* INCOMPAT_ROM is left to the 0.1.x loader, which this kernel does not have
Results == (0..9 \ {EXEC_INCOMPAT_ROM}) \cup {CallerD7}

TypeOK ==
    /\ files \in Worlds
    /\ stack \in Seq(Frame)
    /\ linked \in [Modules -> BOOLEAN]
    /\ usage \in [Modules -> Int]
    /\ found \in [Modules -> Nat]
    /\ relocs \in [Modules -> Int]
    /\ d7 \in Results
    /\ d0 \in Results
    /\ abandoned \in Seq(Modules)
    /\ wild \in BOOLEAN

LibsOf(m) == {Lib(m, i) : i \in DOMAIN Imports(m)} \cap Modules

\* m and everything it imports, directly or through a library
Needs(m) ==
    {n \in Modules : \A S \in SUBSET Modules :
        (m \in S /\ \A k \in S : LibsOf(k) \subseteq S) => n \in S}

\* the exec calls that hold a reference on their program
Started   == {i \in Execs : stack[i].pc \in {"run", "caught"}}
Active(m) == Cardinality({i \in Started : stack[i].mod = m})
                 + Cardinality({i \in DOMAIN abandoned : abandoned[i] = m})
InUse     == UNION {Needs(m) : m \in {k \in Modules : Active(k) > 0}}

(***************************************************************************)
(* Relocation adds an address in place and unloading subtracts it, so a    *)
(* module whose usage count let one of them happen twice would be silently *)
(* corrupted.  Whatever the loads, failures and nesting, a module is       *)
(* relocated at most once, and only while it has a linkinfo block and a    *)
(* usage count (module_reloc, module_unload).                              *)
(***************************************************************************)
RelocatedOnce ==
    \A m \in Modules :
        /\ relocs[m] \in {0, 1}
        /\ relocs[m] = 1 => linked[m] /\ usage[m] > 0

(***************************************************************************)
(* module_reloc and module_unload dereference the handle at 12(a0) without *)
(* testing it: they must never reach a module whose block was not          *)
(* allocated, or was freed by another load or unload.                      *)
(***************************************************************************)
LinkinfoPresent ==
    (At("reloc", "enter") \/ At("unload", "enter")) => linked[Top.mod]

(***************************************************************************)
(* While a program runs, every module it needs stays relocated, in every   *)
(* intermediate state of the loads, failed loads and unloads of the        *)
(* programs it executes (exec calls nested in exec).                       *)
(***************************************************************************)
RunningProgramsReady ==
    \A i \in Started :
        \A m \in Needs(stack[i].mod) : linked[m] /\ relocs[m] = 1

(***************************************************************************)
(* A relocated module holds addresses inside the libraries it imports.     *)
(* They are relocated before it and outlive it: module_reloc recurses      *)
(* first, module_unload last.                                              *)
(***************************************************************************)
LibsOutliveImporters ==
    \A m \in Modules : relocs[m] = 1 =>
        \A lib \in LibsOf(m) : linked[lib] /\ relocs[lib] = 1

(***************************************************************************)
(* When no load is under way the usage count of a module is the number of  *)
(* exec calls holding it and of imports of it by modules in memory.        *)
(***************************************************************************)
UsageCountsReferences ==
    Quiet => \A m \in Modules : linked[m] =>
        usage[m] = Active(m)
            + Cardinality(UNION {{<<n, i>> : i \in {j \in DOMAIN Imports(n) : Lib(n, j) = m}}
                                 : n \in {k \in Modules : linked[k]}})

(***************************************************************************)
(* A load that fails reports a failure that is really there: code 3 only   *)
(* when some needed module names a library that cannot be found, code 4    *)
(* only when some import is out of range, code 7 only for tables this      *)
(* kernel cannot read, code 1 otherwise.  (Modules with reserved flags are *)
(* left out: those fail with whatever the caller left in d7.)              *)
(***************************************************************************)
Explains(code, m) ==
    CASE code = EXEC_LIB_NOT_FOUND ->
            \E n \in Needs(m) : \E i \in DOMAIN Imports(n) : ~Found(Lib(n, i))
      [] code = EXEC_LIB_RANGE_ERR ->
            \E n \in Needs(m) : \E i \in DOMAIN Imports(n) :
                Found(Lib(n, i)) /\ ~InRange(n, i)
      [] code = EXEC_INCOMPATIBLE -> \E n \in Needs(m) : ~Readable(n)
      [] OTHER -> code = EXEC_NO_MEM

FailureExplained ==
    [][ExecFails /\ (\A n \in Needs(Top.mod) : ~files[n].reserved)
        => Explains(d0', Top.mod)]_vars

(***************************************************************************)
(* The recursion of the loader ends: again and again the kernel is idle,   *)
(* or a program has the processor, or an APPL's throw has lost it.         *)
(***************************************************************************)
LoaderComesBack == []<>(Quiet \/ wild)

-----------------------------------------------------------------------------
(***************************************************************************)
(* What exec promises, LoadContract: between exec's calls a module is in   *)
(* memory and relocated exactly when a program in use needs it, and a load *)
(* that fails changes nothing.  While the loader works, what it has done   *)
(* so far is not visible to the contract.                                  *)
(***************************************************************************)
Contract == INSTANCE LoadContract WITH
    needs  <- [m \in Modules |-> Needs(m)],
    active <- [m \in Modules |-> Active(m)],
    ready  <- IF Quiet THEN {m \in Modules : linked[m]} ELSE InUse

ImplementsContract == Contract!Spec
=============================================================================
