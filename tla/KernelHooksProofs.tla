------------------------- MODULE KernelHooksProofs -------------------------
(***************************************************************************)
(* Proofs about KernelHooks, for any programs, any length of the hotkey's  *)
(* wait and any nesting bound: run_prgm gives the screen back on every     *)
(* path, in_fargo is set exactly while it runs, and keeps the hotkey from  *)
(* what it uses.                                                           *)
(***************************************************************************)
EXTENDS KernelHooks, SequenceTheorems, WellFoundedInduction, TLAPS

-----------------------------------------------------------------------------
(* The inductive invariant.  As long as nothing has strayed at most one     *)
(* run_prgm is active, and what is on the screen and in the heap follows    *)
(* from where it is.                                                        *)
Idle == runs = <<>>
One  == \E p \in RunPlaces : \E h, w : runs = <<[pc |-> p, d7 |-> h, by |-> w]>>

\* the screen is the TI-OS's and no saved copy is in the heap
Clean == lcd = TIOS_IMAGE /\ \A b \in Blocks : blocks[b] = GARBAGE

\* vidsave_handle names the only saved copy, and it is the TI-OS's screen
Saved ==
    /\ vidsave_handle \in Blocks
    /\ blocks[vidsave_handle] = TIOS_IMAGE
    /\ \A b \in Blocks : b # vidsave_handle => blocks[b] = GARBAGE

RunsInv   == Idle \/ One
FlagInv   == in_fargo <=> ~Idle /\ Top.pc # "enter"
ScreenInv ==
    /\ Idle => Clean
    /\ ~Idle /\ Top.pc \in {"enter", "choose", "save", "exit"} => Clean
    /\ ~Idle /\ Top.pc \in {"exec", "program", "restore"} => Saved
    /\ ~Idle /\ Top.pc = "exec" => lcd = TIOS_IMAGE

HooksInv ==
    /\ DOMAIN blocks = Blocks
    /\ 0 \notin Blocks
    /\ stray \in BOOLEAN
    /\ in_fargo \in BOOLEAN
    /\ ~stray => RunsInv /\ FlagInv /\ ScreenInv

-----------------------------------------------------------------------------
(* One invocation on the stack: what its last element and the rest are. *)
LEMMA OnlyRun ==
    ASSUME NEW s, NEW r, s = <<r>>
    PROVE  /\ Last(s) = r
           /\ Front(s) = <<>>
           /\ s # <<>>
           /\ \A x : Append(Front(s), x) = <<x>>
  <1>1. Len(s) = 1 /\ s[1] = r /\ s # <<>>
    OBVIOUS
  <1>2. Last(s) = r
    BY <1>1 DEF Last
  <1>3. Front(s) = <<>>
    BY <1>1 DEF Front
  <1>4. \A x : Append(<<>>, x) = <<x>>
    OBVIOUS
  <1>5. QED
    BY <1>1, <1>2, <1>3, <1>4

(* run_prgm goes on at another place. *)
LEMMA MovesOn ==
    ASSUME RunsInv, runs # <<>>, NEW p \in RunPlaces, NEW h,
           runs' = Append(Front(runs), [pc |-> p, d7 |-> h, by |-> Top.by])
    PROVE  /\ runs' # <<>>
           /\ Top' = [pc |-> p, d7 |-> h, by |-> Top.by]
           /\ Top'.pc = p
           /\ RunsInv'
  <1>1. PICK r : runs = <<r>>
    BY DEF RunsInv, Idle, One
  <1>2. runs' = <<[pc |-> p, d7 |-> h, by |-> Top.by]>>
    BY <1>1, OnlyRun
  <1>3. Last(runs') = [pc |-> p, d7 |-> h, by |-> Top.by] /\ runs' # <<>>
    BY <1>2, OnlyRun
  <1>4. Top' = [pc |-> p, d7 |-> h, by |-> Top.by]
    BY <1>3 DEF Top
  <1>5. QED
    BY <1>2, <1>3, <1>4 DEF RunsInv, One

(* What neither changes run_prgm's place nor the screen keeps everything. *)
LEMMA Elsewhere ==
    ASSUME HooksInv, UNCHANGED <<screen, runs, in_fargo, stray>>
    PROVE  HooksInv'
  <1>1. Top' = Top
    BY DEF Top
  <1>2. QED
    BY <1>1 DEF HooksInv, RunsInv, FlagInv, ScreenInv, Idle, One, Clean, Saved, screen

(* A hook starts run_prgm; the first is the only one that has not strayed. *)
LEMMA Starts ==
    ASSUME HooksInv, NEW hook, StartRun(hook), UNCHANGED <<screen, in_fargo>>
    PROVE  HooksInv'
  <1>1. stray' \in BOOLEAN /\ DOMAIN blocks' = Blocks /\ in_fargo' \in BOOLEAN
    BY DEF HooksInv, StartRun, screen
  <1>2. ASSUME ~stray'
        PROVE  RunsInv' /\ FlagInv' /\ ScreenInv'
    <2>1. ~stray /\ runs = <<>>
      BY <1>2 DEF StartRun, HooksInv
    <2>2. runs' = <<NewRun(hook)>>
      BY <2>1 DEF StartRun
    <2>3. Last(runs') = NewRun(hook) /\ runs' # <<>>
      BY <2>2, OnlyRun
    <2>4. Top' = NewRun(hook)
      BY <2>3 DEF Top
    <2>5. Top'.pc = "enter"
      BY <2>4 DEF NewRun
    <2>6. RunsInv'
      BY <2>2 DEF RunsInv, One, NewRun, RunPlaces
    <2>7. ~in_fargo /\ Clean
      BY <2>1 DEF HooksInv, FlagInv, ScreenInv, Idle
    <2>8. FlagInv'
      BY <2>3, <2>5, <2>7 DEF FlagInv, Idle
    <2>9. ScreenInv'
      BY <2>3, <2>5, <2>7 DEF ScreenInv, Idle, Clean, screen
    <2>10. QED
      BY <2>6, <2>8, <2>9
  <1>3. QED
    BY <1>1, <1>2 DEF HooksInv

-----------------------------------------------------------------------------
LEMMA InitHooks == Init => HooksInv
  <1> SUFFICES ASSUME Init PROVE HooksInv
    OBVIOUS
  <1>1. DOMAIN blocks = Blocks /\ 0 \notin Blocks /\ stray \in BOOLEAN /\ in_fargo \in BOOLEAN
    <2>1. 0 \notin Blocks
      BY DEF Blocks
    <2>2. DOMAIN blocks = Blocks
      BY DEF Init
    <2>3. stray \in BOOLEAN /\ in_fargo \in BOOLEAN
      BY DEF Init
    <2>4. QED
      BY <2>1, <2>2, <2>3
  <1>2. runs = <<>> /\ ~in_fargo /\ Clean
    BY DEF Init, Clean
  <1>3. QED
    BY <1>1, <1>2 DEF HooksInv, RunsInv, FlagInv, ScreenInv, Idle

(* Steps of run_prgm between its first and its last that leave in_fargo     *)
(* alone: what is left to show is the screen.                               *)
LEMMA RunGoesOn ==
    ASSUME HooksInv, runs # <<>>, Top.pc # "enter",
           NEW p \in RunPlaces, p # "enter", NEW h,
           runs' = Append(Front(runs), [pc |-> p, d7 |-> h, by |-> Top.by]),
           UNCHANGED <<in_fargo, stray>>,
           DOMAIN blocks' = Blocks,
           ~stray => CASE p \in {"save", "exit"}          -> Clean'
                       [] p \in {"program", "restore"}    -> Saved'
                       [] p = "exec"                      -> Saved' /\ lcd' = TIOS_IMAGE
                       [] OTHER                           -> FALSE
    PROVE  HooksInv'
  <1>1. ASSUME ~stray
        PROVE  RunsInv' /\ FlagInv' /\ ScreenInv'
    <2>1. RunsInv /\ FlagInv
      BY <1>1 DEF HooksInv
    <2>2. runs' # <<>> /\ Top'.pc = p /\ RunsInv'
      BY <2>1, MovesOn
    <2>3. FlagInv'
      BY <2>1, <2>2 DEF FlagInv, Idle
    <2>4. ScreenInv'
      BY <1>1, <2>2 DEF ScreenInv, Idle
    <2>5. QED
      BY <2>2, <2>3, <2>4
  <1>2. QED
    BY <1>1 DEF HooksInv

LEMMA StepHooks == HooksInv /\ [Next]_vars => HooksInv'
  <1> SUFFICES ASSUME HooksInv, [Next]_vars PROVE HooksInv'
    OBVIOUS
  <1>1. CASE Keys \/ StartBasic \/ EndBasic
    BY <1>1, Elsewhere DEF Keys, StartBasic, EndBasic, flags
  <1>2. CASE OnKey \/ Int1Waits \/ HotkeySeen \/ OnAlone
    BY <1>2, Elsewhere DEF OnKey, Int1Waits, HotkeySeen, OnAlone
  <1>3. CASE TrapIdle
    BY <1>3, Starts DEF TrapIdle
  <1>4. CASE TrapCheckBreak
    <2>1. CASE StartRun("basic")
      BY <1>4, <2>1, Starts DEF TrapCheckBreak
    <2>2. CASE UNCHANGED <<runs, stray>>
      BY <1>4, <2>2, Elsewhere DEF TrapCheckBreak
    <2>3. QED
      BY <1>4, <2>1, <2>2 DEF TrapCheckBreak
  <1>5. CASE RunEnters
    <2>1. runs # <<>> /\ Top.pc = "enter" /\ in_fargo' = TRUE
      BY <1>5 DEF RunEnters, RunAt
    <2>2. UNCHANGED <<screen, stray>> /\ DOMAIN blocks' = Blocks
      BY <1>5 DEF RunEnters, screen, HooksInv
    <2>3. ASSUME ~stray
          PROVE  RunsInv' /\ FlagInv' /\ ScreenInv'
      <3>1. RunsInv /\ Clean
        BY <2>1, <2>3 DEF HooksInv, ScreenInv, Idle
      <3>2. "choose" \in RunPlaces
        BY DEF RunPlaces
      <3>3. runs' # <<>> /\ Top'.pc = "choose" /\ RunsInv'
        BY <1>5, <2>1, <3>1, <3>2, MovesOn DEF RunEnters, Moved
      <3>4. FlagInv'
        BY <2>1, <3>3 DEF FlagInv, Idle
      <3>5. ScreenInv'
        BY <2>2, <3>1, <3>3 DEF ScreenInv, Clean, Idle, screen
      <3>6. QED
        BY <3>3, <3>4, <3>5
    <2>4. QED
      BY <2>1, <2>2, <2>3 DEF HooksInv
  <1>6. CASE RunChooses
    <2>1. runs # <<>> /\ Top.pc = "choose" /\ UNCHANGED <<screen, in_fargo, stray>>
      BY <1>6 DEF RunChooses, RunAt, flags
    <2>a. \E p \in {"exit", "save"} : \E h :
            runs' = Append(Front(runs), [pc |-> p, d7 |-> h, by |-> Top.by])
      BY <1>6 DEF RunChooses
    <2>b. PICK p \in {"exit", "save"} : \E h :
            runs' = Append(Front(runs), [pc |-> p, d7 |-> h, by |-> Top.by])
      BY <2>a
    <2>2. PICK h : runs' = Append(Front(runs), [pc |-> p, d7 |-> h, by |-> Top.by])
      BY <2>b
    <2>3. ~stray => Clean'
      BY <2>1 DEF HooksInv, ScreenInv, Idle, Clean, screen
    <2>4. DOMAIN blocks' = Blocks
      BY <2>1 DEF HooksInv, screen
    <2>5. p \in RunPlaces /\ p # "enter"
      BY DEF RunPlaces
    <2>6. QED
      BY <2>1, <2>2, <2>3, <2>4, <2>5, RunGoesOn
  <1>7. CASE RunSaves
    <2>1. runs # <<>> /\ Top.pc = "save" /\ UNCHANGED <<lcd, in_fargo, stray>> /\ Free # {}
      BY <1>7 DEF RunSaves, RunAt, flags
    <2>2. runs' = Append(Front(runs), [pc |-> "exec", d7 |-> Top.d7, by |-> Top.by])
      BY <1>7 DEF RunSaves, Moved
    <2>3. blocks' = [blocks EXCEPT ![vidsave_handle'] = lcd]
      BY <1>7 DEF RunSaves
    <2>4. DOMAIN blocks' = Blocks
      BY <2>3 DEF HooksInv
    <2>5. ~stray => Saved' /\ lcd' = TIOS_IMAGE
      <3> SUFFICES ASSUME ~stray PROVE Saved' /\ lcd' = TIOS_IMAGE
        OBVIOUS
      <3>1. Clean
        BY <2>1 DEF HooksInv, ScreenInv, Idle
      <3>2. vidsave_handle' \in Blocks
        <4>1. Free = Blocks
          BY <3>1 DEF Free, Clean
        <4>2. MaxNest \in Nat \ {0}
          BY BoundsAssumption
        <4>3. 1 \in Blocks /\ \A k \in Blocks : 1 <= k
          BY <4>2 DEF Blocks
        <4>4. QED
          BY <1>7, <4>1, <4>3 DEF RunSaves
      <3>3. QED
        BY <2>1, <2>3, <3>1, <3>2 DEF Saved, Clean, HooksInv
    <2>6. "exec" \in RunPlaces /\ "exec" # "enter"
      BY DEF RunPlaces
    <2>7. QED
      BY <2>1, <2>2, <2>4, <2>5, <2>6, RunGoesOn
  <1>8. CASE RunNoMemory
    <2>1. /\ runs # <<>> /\ Top.pc = "save"
          /\ UNCHANGED <<lcd, blocks, in_fargo, stray>>
          /\ runs' = Append(Front(runs), [pc |-> "exit", d7 |-> Top.d7, by |-> Top.by])
      BY <1>8 DEF RunNoMemory, RunAt, Moved, flags
    <2>2. ~stray => Clean'
      BY <2>1 DEF HooksInv, ScreenInv, Idle, Clean
    <2>3. DOMAIN blocks' = Blocks
      BY <2>1 DEF HooksInv
    <2>4. "exit" \in RunPlaces /\ "exit" # "enter"
      BY DEF RunPlaces
    <2>5. QED
      BY <2>1, <2>2, <2>3, <2>4, RunGoesOn
  <1>9. CASE ExecStarts
    <2>1. /\ runs # <<>> /\ Top.pc = "exec"
          /\ UNCHANGED <<vidsave_handle, blocks, in_fargo, stray>>
          /\ runs' = Append(Front(runs), [pc |-> "program", d7 |-> Top.d7, by |-> Top.by])
      BY <1>9 DEF ExecStarts, RunAt, Moved, flags
    <2>2. ~stray => Saved'
      BY <2>1 DEF HooksInv, ScreenInv, Idle, Saved
    <2>3. DOMAIN blocks' = Blocks
      BY <2>1 DEF HooksInv
    <2>4. "program" \in RunPlaces /\ "program" # "enter"
      BY DEF RunPlaces
    <2>5. QED
      BY <2>1, <2>2, <2>3, <2>4, RunGoesOn
  <1>10. CASE ExecRefuses \/ ProgramEnds
    <2>1. /\ runs # <<>> /\ Top.pc \in {"exec", "program"}
          /\ UNCHANGED <<vidsave_handle, blocks, in_fargo, stray>>
          /\ runs' = Append(Front(runs), [pc |-> "restore", d7 |-> Top.d7, by |-> Top.by])
      BY <1>10 DEF ExecRefuses, ProgramEnds, RunAt, Moved, flags, screen
    <2>2. ~stray => Saved'
      BY <2>1 DEF HooksInv, ScreenInv, Idle, Saved
    <2>3. DOMAIN blocks' = Blocks
      BY <2>1 DEF HooksInv
    <2>4. "restore" \in RunPlaces /\ "restore" # "enter"
      BY DEF RunPlaces
    <2>5. QED
      BY <2>1, <2>2, <2>3, <2>4, RunGoesOn
  <1>11. CASE RunRestores
    <2>1. /\ runs # <<>> /\ Top.pc = "restore"
          /\ UNCHANGED <<vidsave_handle, in_fargo, stray>>
          /\ lcd' = IF vidsave_handle = 0 THEN GARBAGE ELSE blocks[vidsave_handle]
          /\ blocks' = [b \in Blocks |-> IF b = vidsave_handle THEN GARBAGE ELSE blocks[b]]
          /\ runs' = Append(Front(runs), [pc |-> "exit", d7 |-> Top.d7, by |-> Top.by])
      BY <1>11 DEF RunRestores, RunAt, Moved, flags
    <2>2. ASSUME ~stray
          PROVE  Clean'
      <3>1. Saved /\ 0 \notin Blocks
        BY <2>1, <2>2 DEF HooksInv, ScreenInv, Idle
      <3>2. lcd' = TIOS_IMAGE
        BY <2>1, <3>1 DEF Saved
      <3>3. \A b \in Blocks : blocks'[b] = GARBAGE
        BY <2>1, <3>1 DEF Saved
      <3>4. QED
        BY <3>2, <3>3 DEF Clean
    <2>3. DOMAIN blocks' = Blocks
      BY <2>1
    <2>4. "exit" \in RunPlaces /\ "exit" # "enter"
      BY DEF RunPlaces
    <2>5. QED
      BY <2>1, <2>2, <2>3, <2>4, RunGoesOn
  <1>12. CASE RunExits
    <2>1. /\ runs # <<>> /\ Top.pc = "exit" /\ in_fargo' = FALSE
          /\ runs' = Front(runs) /\ UNCHANGED <<screen, stray>>
      BY <1>12 DEF RunExits, RunAt
    <2>2. ASSUME ~stray
          PROVE  RunsInv' /\ FlagInv' /\ ScreenInv'
      <3>1. Clean'
        BY <2>1, <2>2 DEF HooksInv, ScreenInv, Idle, Clean, screen
      <3>2. PICK r : runs = <<r>>
        BY <2>1, <2>2 DEF HooksInv, RunsInv, Idle, One
      <3>3. runs' = <<>>
        BY <2>1, <3>2, OnlyRun
      <3>4. QED
        BY <2>1, <3>1, <3>3 DEF RunsInv, FlagInv, ScreenInv, Idle
    <2>3. QED
      BY <2>1, <2>2 DEF HooksInv, screen
  <1>13. CASE ProgramThrows
    <2>1. stray' = TRUE /\ UNCHANGED <<screen, in_fargo>>
      BY <1>13 DEF ProgramThrows, flags
    <2>2. QED
      BY <2>1 DEF HooksInv, screen
  <1>14. CASE UNCHANGED vars
    BY <1>14, Elsewhere DEF vars, screen
  <1>15. QED
    BY <1>1, <1>2, <1>3, <1>4, <1>5, <1>6, <1>7, <1>8, <1>9, <1>10, <1>11,
       <1>12, <1>13, <1>14 DEF Next, RunStep

-----------------------------------------------------------------------------
(***************************************************************************)
(* run_prgm gives the TI-OS its screen back and frees its copy on every    *)
(* path, unless a program was left by a throw or ran inside another.       *)
(***************************************************************************)
THEOREM ScreenRestoredAlways == Spec => []ScreenRestored
  <1>1. HooksInv => ScreenRestored
    BY DEF HooksInv, ScreenInv, Clean, Idle, ScreenRestored
  <1>2. QED
    BY InitHooks, StepHooks, <1>1, PTL DEF Spec

(***************************************************************************)
(* The flag that keeps the timer hook out of programs is set exactly while *)
(* run_prgm runs, from after its first instruction.                        *)
(***************************************************************************)
THEOREM InFargoAlways == Spec => []InFargoWhileRunning
  <1>1. HooksInv => InFargoWhileRunning
    BY DEF HooksInv, FlagInv, Idle, InFargoWhileRunning
  <1>2. QED
    BY InitHooks, StepHooks, <1>1, PTL DEF Spec

-----------------------------------------------------------------------------
(* Types.  HeapAlloc gives the free block with the least number: it exists. *)
LEMMA LeastBlock ==
    ASSUME NEW S, S \subseteq Nat, S # {}
    PROVE  \E b \in S : \A k \in S : b <= k
  <1> DEFINE R == {ss \in Nat \X Nat : ss[1] < ss[2]}
  <1>1. IsWellFoundedOn(R, Nat)
    BY NatLessThanWellFounded DEF OpToRel
  <1>2. \A j, k \in Nat : j < k => <<j, k>> \in R
    OBVIOUS
  <1> HIDE DEF R
  <1>3. PICK b \in S : \A k \in S : <<k, b>> \notin R
    BY <1>1, WFMin
  <1>4. \A k \in S : ~(k < b)
    BY <1>2, <1>3
  <1>5. \A k \in S : b <= k
    BY <1>4
  <1>6. QED
    BY <1>5

\* The invocation on top, and what is left when it goes.
LEMMA TopRun ==
    ASSUME TypeOK, runs # <<>>
    PROVE  /\ Top \in Run
           /\ Front(runs) \in Seq(Run)
           /\ Len(runs) \in Nat \ {0}
           /\ Len(Front(runs)) = Len(runs) - 1
  <1>1. runs \in Seq(Run)
    BY DEF TypeOK
  <1>2. Len(runs) \in Nat \ {0}
    BY <1>1, EmptySeq
  <1>3. \A i \in 1..Len(runs) : runs[i] \in Run
    BY <1>1, ElementOfSeq
  <1> DEFINE n == Len(runs) - 1
  <1>4. n \in Nat /\ \A i \in 1..n : runs[i] \in Run
    BY <1>2, <1>3
  <1> HIDE DEF n
  <1>5. Top \in Run
    BY <1>2, <1>3 DEF Top, Last
  <1>6. /\ SubSeq(runs, 1, n) \in Seq(Run)
        /\ Len(SubSeq(runs, 1, n)) = IF 1 <= n THEN n - 1 + 1 ELSE 0
    BY <1>4, SubSeqProperties
  <1>7. Len(SubSeq(runs, 1, n)) = n
    BY <1>4, <1>6
  <1>8. Front(runs) = SubSeq(runs, 1, n)
    BY DEF Front, n
  <1>9. QED
    BY <1>2, <1>5, <1>6, <1>7, <1>8 DEF n

\* run_prgm at another place, with the handle it has chosen.
LEMMA MovedType ==
    ASSUME TypeOK, runs # <<>>, NEW p \in RunPlaces, NEW h \in Programs \cup {Shell, None},
           runs' = Append(Front(runs), [pc |-> p, d7 |-> h, by |-> Top.by])
    PROVE  runs' \in Seq(Run) /\ Len(runs') = Len(runs)
  <1>1. [pc |-> p, d7 |-> h, by |-> Top.by] \in Run
    BY TopRun DEF Run
  <1>2. QED
    BY <1>1, TopRun, AppendProperties

\* run_prgm at another place, with the handle it had.
LEMMA SamePlaceType ==
    ASSUME TypeOK, runs # <<>>, NEW p \in RunPlaces, runs' = Moved(p)
    PROVE  runs' \in Seq(Run) /\ Len(runs') = Len(runs)
  <1>1. Top.d7 \in Programs \cup {Shell, None}
    BY TopRun DEF Run
  <1>2. QED
    BY <1>1, MovedType DEF Moved

\* A hook starts run_prgm only while there is room for one more invocation.
LEMMA StartType ==
    ASSUME TypeOK, InTIOS, NEW hook \in {"hotkey", "basic"}, StartRun(hook)
    PROVE  runs' \in Seq(Run) /\ Len(runs') <= MaxNest /\ stray' \in BOOLEAN
  <1>1. NewRun(hook) \in Run
    BY DEF NewRun, Run, RunPlaces
  <1>2. runs \in Seq(Run) /\ Len(runs) \in Nat /\ Len(runs) < MaxNest
    <2>1. runs \in Seq(Run) /\ Len(runs) \in Nat
      BY LenProperties DEF TypeOK
    <2>2. CASE runs = <<>>
      <3>1. Len(runs) = 0
        BY <2>2, EmptySeq
      <3>2. QED
        BY <2>1, <3>1, BoundsAssumption
    <2>3. CASE runs # <<>>
      BY <2>1, <2>3 DEF InTIOS
    <2>4. QED
      BY <2>2, <2>3
  <1>3. runs' \in Seq(Run) /\ Len(runs') = Len(runs) + 1
    BY <1>1, <1>2, AppendProperties DEF StartRun
  <1>4. QED
    BY <1>2, <1>3, BoundsAssumption DEF StartRun, TypeOK

\* The wait has not come to its end as long as it lasts.
TimerInv == waiting => wait_timer < WaitTicks

\* A tick counts on, and ends the wait when it is the last.
LEMMA TickType ==
    ASSUME NEW t \in Nat, t < WaitTicks, Tick(t)
    PROVE  wait_timer' \in 0..WaitTicks /\ waiting' \in BOOLEAN /\ TimerInv'
  <1>1. wait_timer' = t + 1 /\ WaitTicks \in Nat
    BY BoundsAssumption DEF Tick
  <1>2. CASE t + 1 < WaitTicks
    <2>1. waiting' = TRUE
      BY <1>2, Zenon DEF Tick
    <2>2. wait_timer' \in 0..WaitTicks /\ wait_timer' < WaitTicks
      BY <1>1, <1>2
    <2>3. QED
      BY <2>1, <2>2 DEF TimerInv
  <1>3. CASE ~(t + 1 < WaitTicks)
    <2>1. (t + 1 < WaitTicks) \in BOOLEAN /\ waiting' = (t + 1 < WaitTicks)
      BY DEF Tick
    <2>2. waiting' \in BOOLEAN /\ ~waiting'
      BY <1>3, <2>1, Zenon
    <2>3. wait_timer' \in 0..WaitTicks
      BY <1>1
    <2>4. QED
      BY <2>2, <2>3 DEF TimerInv
  <1>4. QED
    BY <1>2, <1>3

\* The ranges hold at first,
LEMMA InitTypes == Init => TypeOK /\ TimerInv
  <1> SUFFICES ASSUME Init PROVE TypeOK /\ TimerInv
    OBVIOUS
  <1>1. 0 \in 0..WaitTicks /\ 0 \in Images /\ -1 \in Images /\ Len(<<>>) = 0 /\ 0 <= MaxNest
    BY BoundsAssumption, EmptySeq DEF Images, GARBAGE
  <1>2. TimerInv /\ runs \in Seq(Run) /\ Len(runs) <= MaxNest
    BY <1>1, EmptySeq DEF Init, TimerInv
  <1>3. /\ shift \in BOOLEAN /\ hotcode \in BOOLEAN /\ shell \in {Shell, None}
        /\ basic \in Programs \cup {None} /\ prgm_handle \in Programs \cup {None}
        /\ in_fargo \in BOOLEAN /\ on_pressed \in BOOLEAN /\ waiting \in BOOLEAN /\ stray \in BOOLEAN
    BY DEF Init
  <1>4. lcd \in Images /\ blocks \in [Blocks -> Images]
    BY <1>1 DEF Init, TIOS_IMAGE, GARBAGE
  <1>5. /\ wait_timer \in 0..WaitTicks /\ trap_0_count \in 0..(CHECKS - 1)
        /\ vidsave_handle \in Blocks \cup {0}
    BY <1>1 DEF Init, CHECKS
  <1>6. QED
    BY <1>2, <1>3, <1>4, <1>5 DEF TypeOK

\* and every step keeps them.
LEMMA StepTypes == TypeOK /\ TimerInv /\ [Next]_vars => TypeOK' /\ TimerInv'
  <1> SUFFICES ASSUME TypeOK, TimerInv, [Next]_vars PROVE TypeOK' /\ TimerInv'
    OBVIOUS
  <1>1. CASE Keys \/ StartBasic \/ EndBasic
    BY <1>1 DEF Keys, StartBasic, EndBasic, TypeOK, TimerInv, keyboard, screen, flags
  <1>2. CASE OnKey \/ OnAlone
    <2>1. on_pressed' \in BOOLEAN
      BY <1>2 DEF OnKey, OnAlone
    <2>2. UNCHANGED <<keyboard, basic, screen, runs, in_fargo, waiting, wait_timer,
                      trap_0_count, prgm_handle, stray>>
      BY <1>2 DEF OnKey, OnAlone
    <2>3. QED
      BY <2>1, <2>2 DEF TypeOK, TimerInv, keyboard, screen
  <1>3. CASE Int1Waits
    <2>1. wait_timer \in Nat /\ wait_timer < WaitTicks /\ Tick(wait_timer)
      BY <1>3 DEF Int1Waits, TypeOK, TimerInv
    <2>2. wait_timer' \in 0..WaitTicks /\ waiting' \in BOOLEAN /\ TimerInv'
      BY <2>1, TickType
    <2>3. QED
      BY <1>3, <2>2 DEF Int1Waits, TypeOK, keyboard, screen
  <1>4. CASE HotkeySeen
    <2>1. wait_timer' \in 0..WaitTicks /\ waiting' \in BOOLEAN /\ TimerInv'
      BY <1>4, TickType, BoundsAssumption DEF HotkeySeen
    <2>2. on_pressed' \in BOOLEAN
      BY <1>4 DEF HotkeySeen, TypeOK
    <2>3. QED
      BY <1>4, <2>1, <2>2 DEF HotkeySeen, TypeOK, screen
  <1>5. CASE TrapIdle
    <2>1. runs' \in Seq(Run) /\ Len(runs') <= MaxNest /\ stray' \in BOOLEAN
      BY <1>5, StartType DEF TrapIdle
    <2>2. QED
      BY <1>5, <2>1 DEF TrapIdle, TypeOK, TimerInv, keyboard, screen
  <1>6. CASE TrapCheckBreak
    <2>1. prgm_handle' \in Programs \cup {None}
      BY <1>6 DEF TrapCheckBreak, TypeOK
    <2>2. /\ runs' \in Seq(Run) /\ Len(runs') <= MaxNest /\ stray' \in BOOLEAN
          /\ trap_0_count' \in 0..(CHECKS - 1)
      <3>1. CASE UNCHANGED <<runs, trap_0_count, stray>>
        BY <3>1 DEF TypeOK
      <3>2. CASE trap_0_count + 1 = CHECKS /\ trap_0_count' = 0 /\ StartRun("basic")
        <4>1. InTIOS
          BY <1>6 DEF TrapCheckBreak
        <4>2. QED
          BY <3>2, <4>1, StartType DEF CHECKS
      <3>3. CASE trap_0_count + 1 # CHECKS /\ trap_0_count' = trap_0_count + 1 /\ UNCHANGED <<runs, stray>>
        BY <3>3 DEF TypeOK, CHECKS
      <3>4. QED
        BY <1>6, <3>1, <3>2, <3>3 DEF TrapCheckBreak
    <2>3. QED
      BY <1>6, <2>1, <2>2 DEF TrapCheckBreak, TypeOK, TimerInv, keyboard, screen
  <1>7. CASE RunEnters
    <2>1. runs' \in Seq(Run) /\ Len(runs') = Len(runs)
      BY <1>7, SamePlaceType DEF RunEnters, RunAt, RunPlaces
    <2>2. QED
      BY <1>7, <2>1 DEF RunEnters, TypeOK, TimerInv, keyboard, screen
  <1>8. CASE RunChooses
    <2>1. SUFFICES ASSUME NEW p \in RunPlaces, NEW h \in Programs \cup {Shell, None},
                          runs' = Append(Front(runs), [pc |-> p, d7 |-> h, by |-> Top.by])
                   PROVE  TypeOK' /\ TimerInv'
      <3> DEFINE h0 == IF prgm_handle # None THEN prgm_handle ELSE shell
                 p0 == IF h0 = None THEN "exit" ELSE "save"
      <3>1. h0 \in Programs \cup {Shell, None} /\ p0 \in RunPlaces
        BY DEF TypeOK, RunPlaces
      <3>2. runs' = Append(Front(runs), [pc |-> p0, d7 |-> h0, by |-> Top.by])
        BY <1>8 DEF RunChooses
      <3>3. QED
        BY <2>1, <3>1, <3>2
    <2>2. runs' \in Seq(Run) /\ Len(runs') = Len(runs)
      BY <1>8, <2>1, MovedType DEF RunChooses, RunAt
    <2>3. QED
      BY <1>8, <2>2 DEF RunChooses, TypeOK, TimerInv, keyboard, screen, flags
  <1>9. CASE RunSaves
    <2>1. runs' \in Seq(Run) /\ Len(runs') = Len(runs)
      BY <1>9, SamePlaceType DEF RunSaves, RunAt, RunPlaces
    <2>2. vidsave_handle' \in Blocks
      <3>1. Free \subseteq Blocks /\ Free \subseteq Nat /\ Free # {}
        BY <1>9, BoundsAssumption DEF RunSaves, Free, Blocks
      <3>2. \E b \in Free : \A k \in Free : b <= k
        BY <3>1, LeastBlock
      <3>3. QED
        BY <1>9, <3>1, <3>2 DEF RunSaves
    <2>3. blocks' \in [Blocks -> Images]
      BY <1>9 DEF RunSaves, TypeOK
    <2>4. QED
      BY <1>9, <2>1, <2>2, <2>3 DEF RunSaves, TypeOK, TimerInv, keyboard, flags
  <1>10. CASE RunNoMemory
    <2>1. runs' \in Seq(Run) /\ Len(runs') = Len(runs)
      BY <1>10, SamePlaceType DEF RunNoMemory, RunAt, RunPlaces
    <2>2. QED
      BY <1>10, <2>1 DEF RunNoMemory, TypeOK, TimerInv, keyboard, flags
  <1>11. CASE ExecStarts
    <2>1. runs' \in Seq(Run) /\ Len(runs') = Len(runs) /\ runs # <<>>
      BY <1>11, SamePlaceType DEF ExecStarts, RunAt, RunPlaces
    <2>2. lcd' \in Images
      <3>1. Len(runs) \in Nat /\ Len(runs) <= MaxNest /\ lcd' = Len(runs)
        BY <1>11, LenProperties DEF ExecStarts, TypeOK
      <3>2. QED
        BY <3>1, BoundsAssumption DEF Images, GARBAGE
    <2>3. QED
      BY <1>11, <2>1, <2>2 DEF ExecStarts, TypeOK, TimerInv, keyboard, flags
  <1>12. CASE ExecRefuses \/ ProgramEnds
    <2>1. runs' \in Seq(Run) /\ Len(runs') = Len(runs)
      BY <1>12, SamePlaceType DEF ExecRefuses, ProgramEnds, RunAt, RunPlaces
    <2>2. QED
      BY <1>12, <2>1 DEF ExecRefuses, ProgramEnds, TypeOK, TimerInv, keyboard, flags, screen
  <1>13. CASE RunRestores
    <2>1. runs' \in Seq(Run) /\ Len(runs') = Len(runs)
      BY <1>13, SamePlaceType DEF RunRestores, RunAt, RunPlaces
    <2>2. GARBAGE \in Images
      BY BoundsAssumption DEF Images, GARBAGE
    <2>3. lcd' \in Images /\ blocks' \in [Blocks -> Images]
      BY <1>13, <2>2 DEF RunRestores, TypeOK
    <2>4. QED
      BY <1>13, <2>1, <2>3 DEF RunRestores, TypeOK, TimerInv, keyboard, flags
  <1>14. CASE RunExits
    <2>1. runs' \in Seq(Run) /\ Len(runs') = Len(runs) - 1 /\ Len(runs) \in Nat
      BY <1>14, TopRun DEF RunExits, RunAt
    <2>2. Len(runs') <= MaxNest
      BY <2>1, BoundsAssumption DEF TypeOK
    <2>3. QED
      BY <1>14, <2>1, <2>2 DEF RunExits, TypeOK, TimerInv, keyboard, screen
  <1>15. CASE ProgramThrows
    <2>1. runs' \in Seq(Run) /\ Len(runs') <= MaxNest
      BY <1>15, EmptySeq, BoundsAssumption DEF ProgramThrows
    <2>2. QED
      BY <1>15, <2>1 DEF ProgramThrows, TypeOK, TimerInv, keyboard, screen, flags
  <1>16. CASE UNCHANGED vars
    BY <1>16 DEF vars, TypeOK, TimerInv
  <1>17. QED
    BY <1>1, <1>2, <1>3, <1>4, <1>5, <1>6, <1>7, <1>8, <1>9, <1>10, <1>11,
       <1>12, <1>13, <1>14, <1>15, <1>16 DEF Next, RunStep

(***************************************************************************)
(* The variables keep their ranges: the hotkey's wait never counts past    *)
(* its end, and a saved screen is in a block that was free.                *)
(***************************************************************************)
THEOREM HooksTyped == Spec => []TypeOK
  <1>1. QED
    BY InitTypes, StepTypes, PTL DEF Spec

(***************************************************************************)
(* Once run_prgm is past its first instruction no interrupt takes away the *)
(* handle it is to run or starts another wait: in_fargo is set.            *)
(***************************************************************************)
THEOREM HotkeyStaysOutsideAlways == Spec => HotkeyStaysOutside
  <1>1. ASSUME HooksInv, TypeOK, [Next]_vars
        PROVE  [~stray' /\ runs # <<>> /\ Top.pc # "enter" =>
                  (prgm_handle' = None => prgm_handle = None) /\ (waiting' => waiting)]_vars
    <2>1. SUFFICES ASSUME Next, ~stray', runs # <<>>, Top.pc # "enter"
                   PROVE  (prgm_handle' = None => prgm_handle = None) /\ (waiting' => waiting)
      BY <1>1
    <2>2. stray => stray'
      BY <2>1 DEF Next, RunStep, Keys, StartBasic, EndBasic, OnKey, Int1Waits, HotkeySeen,
         OnAlone, TrapIdle, TrapCheckBreak, StartRun, RunEnters, RunChooses, RunSaves,
         RunNoMemory, ExecStarts, ExecRefuses, ProgramEnds, RunRestores, RunExits, ProgramThrows
    <2>3. in_fargo
      BY <1>1, <2>1, <2>2 DEF HooksInv, FlagInv, Idle
    <2>4. ~Int1Waits /\ ~HotkeySeen
      BY <2>3 DEF Int1Waits, HotkeySeen
    <2>5. CASE TrapCheckBreak
      <3>1. prgm_handle' = basic /\ basic # None /\ waiting' = waiting
        BY <2>5 DEF TrapCheckBreak
      <3>2. QED
        BY <3>1
    <2>6. CASE TrapIdle
      BY <2>6 DEF TrapIdle
    <2>7. CASE Keys \/ StartBasic \/ EndBasic \/ OnKey \/ OnAlone \/ RunStep \/ ProgramThrows
      BY <2>7 DEF RunStep, Keys, StartBasic, EndBasic, OnKey, OnAlone, RunEnters, RunChooses,
         RunSaves, RunNoMemory, ExecStarts, ExecRefuses, ProgramEnds, RunRestores, RunExits,
         ProgramThrows, flags
    <2>8. QED
      BY <2>1, <2>4, <2>5, <2>6, <2>7 DEF Next
  <1>2. QED
    BY InitHooks, StepHooks, InitTypes, StepTypes, <1>1, PTL DEF Spec, HotkeyStaysOutside
=============================================================================
