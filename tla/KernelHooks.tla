---------------------------- MODULE KernelHooks ----------------------------
(***************************************************************************)
(* How the Fargo kernel gets the processor (asm/kernel/kernel.asm): the    *)
(* hooks on auto-interrupt 6 (the ON key), auto-interrupt 1 (the timer,    *)
(* where the hotkey is looked for) and trap 0 (where the TI-OS idles and   *)
(* where TI-BASIC polls the break key), and run_prgm, which saves the      *)
(* screen, executes a program and restores the screen.                     *)
(*                                                                         *)
(* A hook masks every interrupt first, so each is one step.  run_prgm is   *)
(* ordinary user code: interrupts fall between any two of its steps.       *)
(* Executing a program (KernelLoader) is one step here, with any outcome.  *)
(***************************************************************************)
EXTENDS Integers, Sequences, SequencesExt

CONSTANTS
    Programs,      \* the programs TI-BASIC can be asked to run
    FargoSigned,   \* those with the Fargo signature; the others are TI-BASIC
    Shell,         \* the handle of "shell" in the main folder
    None,          \* handle zero
    WaitTicks,     \* how long the hotkey waits for the TI-OS to be idle (100)
    MaxNest        \* bound: runs of run_prgm inside each other

CHECKS == 3        \* polls of the break key before a program is started

ASSUME ProgramsAssumption == FargoSigned \subseteq Programs /\ None \notin Programs
ASSUME ShellAssumption    == Shell \notin Programs \cup {None}
ASSUME BoundsAssumption   == WaitTicks \in Nat \ {0} /\ MaxNest \in Nat \ {0}

VARIABLES
    shift,           \* the shift bit of the keyboard's state
    hotcode,         \* the key code there is that of shift-ON ($0448)
    shell,           \* Shell, or None when no file has that name
    basic,           \* the TI-BASIC program the TI-OS is running, or None
    lcd,             \* whose image is on the screen
    blocks,          \* the memory blocks that hold a saved screen
    runs,            \* the invocations of run_prgm, innermost last
    in_fargo,
    on_pressed,
    waiting,
    wait_timer,
    trap_0_count,
    prgm_handle,
    vidsave_handle,
    stray            \* ghost: a program has quit by a throw, or has called a
                     \* ROM routine whose trap started another program

keyboard == <<shift, hotcode, shell>>
flags    == <<in_fargo, on_pressed, waiting, wait_timer, trap_0_count>>
screen   == <<lcd, blocks, vidsave_handle>>
vars     == <<shift, hotcode, shell, basic, lcd, blocks, runs, in_fargo, on_pressed,
              waiting, wait_timer, trap_0_count, prgm_handle, vidsave_handle, stray>>

-----------------------------------------------------------------------------
(* An invocation of run_prgm: where it is, and the handle it keeps in d7.   *)
(* by tells which hook started it; no code reads it.                       *)
RunPlaces == {"enter", "choose", "save", "exec", "program", "restore", "exit"}
Run       == [pc : RunPlaces, d7 : Programs \cup {Shell, None}, by : {"hotkey", "basic"}]
NewRun(hook) == [pc |-> "enter", d7 |-> None, by |-> hook]

Top        == Last(runs)
RunAt(pc)  == runs # <<>> /\ Top.pc = pc
Moved(pc)  == Append(Front(runs), [pc |-> pc, d7 |-> Top.d7, by |-> Top.by])

\* the TI-OS itself has the processor, or a program that calls it has
InTIOS   == runs = <<>> \/ (RunAt("program") /\ Len(runs) < MaxNest)

\* a screen belongs to the TI-OS or to the program of the n-th invocation;
\* -1 is memory that was given back to the heap
TIOS_IMAGE == 0
GARBAGE    == -1
Images     == GARBAGE..MaxNest
Blocks     == 1..MaxNest

Init ==
    /\ shift = FALSE /\ hotcode = FALSE
    /\ basic = None
    /\ lcd = TIOS_IMAGE
    /\ blocks = [b \in Blocks |-> GARBAGE]
    /\ runs = <<>>
    /\ in_fargo = FALSE /\ on_pressed = FALSE /\ waiting = FALSE
    /\ wait_timer = 0 /\ trap_0_count = 0
    /\ prgm_handle = None
    /\ vidsave_handle = 0
    /\ shell \in {Shell, None}
    /\ stray = FALSE

-----------------------------------------------------------------------------
(* The keyboard and the TI-OS *)

Keys ==
    /\ \E s, h \in BOOLEAN : shift' = s /\ hotcode' = h
    /\ UNCHANGED <<shell, basic, screen, runs, flags, prgm_handle, stray>>

StartBasic ==
    /\ runs = <<>>
    /\ basic = None
    /\ \E p \in Programs : basic' = p
    /\ UNCHANGED <<keyboard, screen, runs, flags, prgm_handle, stray>>

EndBasic ==
    /\ runs = <<>>
    /\ basic # None
    /\ basic' = None
    /\ UNCHANGED <<keyboard, screen, runs, flags, prgm_handle, stray>>

-----------------------------------------------------------------------------
(* int_6_hook *)

OnKey ==
    /\ on_pressed' = TRUE
    /\ UNCHANGED <<keyboard, basic, screen, runs, in_fargo, waiting, wait_timer,
                   trap_0_count, prgm_handle, stray>>

-----------------------------------------------------------------------------
(* int_1_hook and int_1_check: nothing happens while a program runs *)

\* check_trap: one more tick; after the last one the hotkey is forgotten
Tick(t) ==
    /\ wait_timer' = t + 1
    /\ waiting' = (t + 1 < WaitTicks)

\* variant: the timer starts again with every tick
Int1WaitsAgain ==
    /\ ~in_fargo
    /\ waiting
    /\ Tick(0)
    /\ UNCHANGED <<keyboard, basic, screen, runs, in_fargo, on_pressed,
                   trap_0_count, prgm_handle, stray>>

Int1Waits ==
    /\ ~in_fargo
    /\ waiting
    /\ Tick(wait_timer)
    /\ UNCHANGED <<keyboard, basic, screen, runs, in_fargo, on_pressed,
                   trap_0_count, prgm_handle, stray>>

\* check_hotkey
HotkeyDown == hotcode \/ (on_pressed /\ shift)

\* variant: a program that is running is not protected from the hotkey
HotkeyAnywhere ==
    /\ ~waiting
    /\ HotkeyDown
    /\ on_pressed' = (hotcode /\ on_pressed)
    /\ shift' = FALSE
    /\ prgm_handle' = None
    /\ Tick(0)
    /\ UNCHANGED <<hotcode, shell, basic, screen, runs, in_fargo, trap_0_count, stray>>

\* shift_on
HotkeySeen ==
    /\ ~in_fargo
    /\ ~waiting
    /\ HotkeyDown
    /\ on_pressed' = (hotcode /\ on_pressed)
    /\ shift' = FALSE
    /\ prgm_handle' = None
    /\ Tick(0)
    /\ UNCHANGED <<hotcode, shell, basic, screen, runs, in_fargo, trap_0_count, stray>>

OnAlone ==
    /\ ~in_fargo
    /\ ~waiting
    /\ on_pressed
    /\ ~HotkeyDown
    /\ on_pressed' = FALSE
    /\ UNCHANGED <<keyboard, basic, screen, runs, in_fargo, waiting, wait_timer,
                   trap_0_count, prgm_handle, stray>>

-----------------------------------------------------------------------------
(* trap_0_hook: do_run_prgm makes the trap return to run_prgm *)

StartRun(hook) ==
    /\ runs' = Append(runs, NewRun(hook))
    /\ stray' = (stray \/ runs # <<>>)

TrapIdle ==
    /\ InTIOS
    /\ waiting
    /\ waiting' = FALSE
    /\ StartRun("hotkey")
    /\ UNCHANGED <<keyboard, basic, screen, in_fargo, on_pressed, wait_timer,
                   trap_0_count, prgm_handle>>

\* variant: one poll more before the program is started
PollsOnceMore ==
    /\ InTIOS
    /\ basic # None
    /\ prgm_handle' = basic
    /\ IF basic \notin FargoSigned
       THEN UNCHANGED <<runs, trap_0_count, stray>>
       ELSE IF trap_0_count = CHECKS
            THEN trap_0_count' = 0 /\ StartRun("basic")
            ELSE trap_0_count' = trap_0_count + 1 /\ UNCHANGED <<runs, stray>>
    /\ UNCHANGED <<keyboard, basic, screen, in_fargo, on_pressed, waiting, wait_timer>>

\* variant: the count is lost between two polls
PollsForgotten ==
    /\ InTIOS
    /\ basic # None
    /\ prgm_handle' = basic
    /\ IF basic \notin FargoSigned
       THEN UNCHANGED <<runs, trap_0_count, stray>>
       ELSE IF trap_0_count + 1 = CHECKS
            THEN trap_0_count' = 0 /\ StartRun("basic")
            ELSE trap_0_count' = 0 /\ UNCHANGED <<runs, stray>>
    /\ UNCHANGED <<keyboard, basic, screen, in_fargo, on_pressed, waiting, wait_timer>>

TrapCheckBreak ==
    /\ InTIOS
    /\ basic # None
    /\ prgm_handle' = basic
    /\ IF basic \notin FargoSigned
       THEN UNCHANGED <<runs, trap_0_count, stray>>
       ELSE IF trap_0_count + 1 = CHECKS
            THEN trap_0_count' = 0 /\ StartRun("basic")
            ELSE trap_0_count' = trap_0_count + 1 /\ UNCHANGED <<runs, stray>>
    /\ UNCHANGED <<keyboard, basic, screen, in_fargo, on_pressed, waiting, wait_timer>>

-----------------------------------------------------------------------------
(* run_prgm *)

RunEnters ==
    /\ RunAt("enter")
    /\ in_fargo' = TRUE
    /\ runs' = Moved("choose")
    /\ UNCHANGED <<keyboard, basic, screen, on_pressed, waiting, wait_timer,
                   trap_0_count, prgm_handle, stray>>

RunChooses ==
    /\ RunAt("choose")
    /\ LET handle == IF prgm_handle # None THEN prgm_handle ELSE shell
       IN  runs' = Append(Front(runs),
                          [pc |-> IF handle = None THEN "exit" ELSE "save",
                           d7 |-> handle, by |-> Top.by])
    /\ UNCHANGED <<keyboard, basic, screen, flags, prgm_handle, stray>>

Free == {b \in Blocks : blocks[b] = GARBAGE}

RunSaves ==
    /\ RunAt("save")
    /\ Free # {}
    /\ vidsave_handle' = CHOOSE b \in Free : \A k \in Free : b <= k
    /\ blocks' = [blocks EXCEPT ![vidsave_handle'] = lcd]
    /\ runs' = Moved("exec")
    /\ UNCHANGED <<keyboard, basic, lcd, flags, prgm_handle, stray>>

\* HeapAlloc failed
RunNoMemory ==
    /\ RunAt("save")
    /\ vidsave_handle' = 0
    /\ runs' = Moved("exit")
    /\ UNCHANGED <<keyboard, basic, lcd, blocks, flags, prgm_handle, stray>>

\* exec starts the program, which draws, or returns an error at once
ExecStarts ==
    /\ RunAt("exec")
    /\ Top.d7 \in FargoSigned \cup {Shell}
    /\ lcd' = Len(runs)
    /\ runs' = Moved("program")
    /\ UNCHANGED <<keyboard, basic, blocks, vidsave_handle, flags, prgm_handle, stray>>

\* variant: the screen is not restored when the program could not be loaded
ExecRefusesOnly ==
    /\ RunAt("exec")
    /\ runs' = Moved("exit")
    /\ UNCHANGED <<keyboard, basic, screen, flags, prgm_handle, stray>>

ExecRefuses ==
    /\ RunAt("exec")
    /\ runs' = Moved("restore")
    /\ UNCHANGED <<keyboard, basic, screen, flags, prgm_handle, stray>>

ProgramEnds ==
    /\ RunAt("program")
    /\ runs' = Moved("restore")
    /\ UNCHANGED <<keyboard, basic, screen, flags, prgm_handle, stray>>

\* exec of a PRGM throws ER_STOP in its turn, until the TI-OS catches it and
\* gives up its TI-BASIC program
ProgramThrows ==
    /\ RunAt("program")
    /\ runs' = <<>>
    /\ basic' = None
    /\ stray' = TRUE
    /\ UNCHANGED <<keyboard, screen, flags, prgm_handle>>

RunRestores ==
    /\ RunAt("restore")
    /\ lcd' = IF vidsave_handle = 0 THEN GARBAGE ELSE blocks[vidsave_handle]
    /\ blocks' = [b \in Blocks |-> IF b = vidsave_handle THEN GARBAGE ELSE blocks[b]]
    /\ runs' = Moved("exit")
    /\ UNCHANGED <<keyboard, basic, vidsave_handle, flags, prgm_handle, stray>>

\* variant: the flag is left set
RunLeaves ==
    /\ RunAt("exit")
    /\ runs' = Front(runs)
    /\ UNCHANGED <<keyboard, basic, screen, flags, prgm_handle, stray>>

\* fargo_exit
RunExits ==
    /\ RunAt("exit")
    /\ in_fargo' = FALSE
    /\ runs' = Front(runs)
    /\ UNCHANGED <<keyboard, basic, screen, on_pressed, waiting, wait_timer,
                   trap_0_count, prgm_handle, stray>>

-----------------------------------------------------------------------------
RunStep == \/ RunEnters \/ RunChooses \/ RunSaves \/ RunNoMemory \/ ExecStarts
           \/ ExecRefuses \/ ProgramEnds \/ RunRestores \/ RunExits

Next == \/ Keys \/ StartBasic \/ EndBasic
        \/ OnKey \/ Int1Waits \/ HotkeySeen \/ OnAlone
        \/ TrapIdle \/ TrapCheckBreak
        \/ RunStep \/ ProgramThrows

Spec == Init /\ [][Next]_vars

(***************************************************************************)
(* The processor goes on, programs end, and TI-BASIC keeps polling the     *)
(* break key.  The timer interrupt is periodic, so it cannot miss the      *)
(* moments outside programs for ever: strong fairness.                     *)
(***************************************************************************)
FairSpec == Spec /\ WF_vars(RunStep) /\ WF_vars(TrapCheckBreak) /\ SF_vars(Int1Waits)

-----------------------------------------------------------------------------
(* Properties *)

TypeOK ==
    /\ shift \in BOOLEAN /\ hotcode \in BOOLEAN
    /\ shell \in {Shell, None}
    /\ basic \in Programs \cup {None}
    /\ lcd \in Images
    /\ blocks \in [Blocks -> Images]
    /\ runs \in Seq(Run) /\ Len(runs) <= MaxNest
    /\ in_fargo \in BOOLEAN /\ on_pressed \in BOOLEAN /\ waiting \in BOOLEAN
    /\ wait_timer \in 0..WaitTicks
    /\ trap_0_count \in 0..(CHECKS - 1)
    /\ prgm_handle \in Programs \cup {None}
    /\ vidsave_handle \in Blocks \cup {0}
    /\ stray \in BOOLEAN

(***************************************************************************)
(* Whatever happened in between -- no shell, no memory, a refused file, a  *)
(* program that drew everywhere, interrupts at any point -- the TI-OS gets *)
(* its own screen back and no saved screen stays in the heap (run_prgm's   *)
(* two copies of LCD_MEM).                                                 *)
(***************************************************************************)
ScreenRestored ==
    ~stray /\ runs = <<>> =>
        lcd = TIOS_IMAGE /\ \A b \in Blocks : blocks[b] = GARBAGE

(***************************************************************************)
(* in_fargo is what keeps the timer hook out of programs: it is set from   *)
(* the first instruction of run_prgm to its last on every path through it, *)
(* and at no other time.                                                   *)
(***************************************************************************)
InFargoWhileRunning ==
    ~stray => (in_fargo <=> runs # <<>> /\ Top.pc # "enter")

(***************************************************************************)
(* While run_prgm is choosing, loading or running a program, no key press  *)
(* takes away the handle it reads, or asks for another program (the test   *)
(* in int_1_hook against the accesses of run_prgm).                        *)
(***************************************************************************)
HotkeyStaysOutside ==
    [][~stray' /\ runs # <<>> /\ Top.pc # "enter" =>
        (prgm_handle' = None => prgm_handle = None) /\ (waiting' => waiting)]_vars

(***************************************************************************)
(* The hotkey is either answered or forgotten: a wait never lasts (the     *)
(* timer counts only outside programs, so this needs the programs to end). *)
(***************************************************************************)
WaitEnds == waiting ~> (~waiting \/ stray)

(***************************************************************************)
(* A program with the Fargo signature that TI-BASIC is running is started  *)
(* by the polls of the break key, whatever polls of other programs are     *)
(* already counted, if TI-BASIC does not leave it first (trap_0_count).    *)
(***************************************************************************)
BasicProgramStarts ==
    basic \in FargoSigned ~> (runs # <<>> \/ basic = None \/ stray)

(***************************************************************************)
(* Fargo.txt, 1.4: shift-ON launches the shell.  Stated of a program that  *)
(* the hotkey's wait has started: it is the shell.                         *)
(***************************************************************************)
HotkeyStartsShell ==
    \A i \in DOMAIN runs :
        runs[i].by = "hotkey" /\ runs[i].d7 # None => runs[i].d7 = Shell
=============================================================================
