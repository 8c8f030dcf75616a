------------------------- MODULE KernelLoaderProofs -------------------------
(***************************************************************************)
(* Proofs about KernelLoader, for any modules, file headers and bounds:    *)
(* type correctness; that a module is relocated at most once and only      *)
(* while its linkinfo block exists; that every step keeps the shape of the *)
(* stack and the usage counts.                                             *)
(*                                                                         *)
(* Then the safety of the loader: the invariant of its routines, and from  *)
(* it that a block is there when it is followed, that what a running       *)
(* program needs stays ready, that the usage counts are the references,    *)
(* that a failed load tells why, and, if no libraries import each other in *)
(* a circle, that the libraries outlive their importers and the loader     *)
(* implements LoadContract.                                                *)
(***************************************************************************)
EXTENDS KernelLoader, FiniteSetTheorems, SequenceTheorems, TLAPS

-----------------------------------------------------------------------------
(* What a step does to the stack *)

\* Returning drops the top frame and leaves the others alone.
LEMMA FrontFrames ==
    ASSUME NEW S, NEW s \in Seq(S), s # <<>>
    PROVE  /\ Front(s) \in Seq(S)
           /\ Len(s) \in Nat \ {0}
           /\ Len(Front(s)) = Len(s) - 1
           /\ \A i \in 1..(Len(s) - 1) : Front(s)[i] = s[i]
           /\ Last(s) = s[Len(s)]
           /\ Last(s) \in S
  <1>1. Len(s) \in Nat \ {0}
    BY EmptySeq
  <1>2. \A i \in 1..Len(s) : s[i] \in S
    BY ElementOfSeq
  <1> DEFINE n == Len(s) - 1
  <1>3. n \in Nat /\ \A i \in 1..n : s[i] \in S
    BY <1>1, <1>2
  <1> HIDE DEF n
  <1>4. /\ SubSeq(s, 1, n) \in Seq(S)
        /\ Len(SubSeq(s, 1, n)) = IF 1 <= n THEN n - 1 + 1 ELSE 0
        /\ \A i \in 1..(n - 1 + 1) : SubSeq(s, 1, n)[i] = s[1 + i - 1]
    BY <1>3, SubSeqProperties
  <1>5. /\ Len(SubSeq(s, 1, n)) = n
        /\ \A i \in 1..n : SubSeq(s, 1, n)[i] = s[i]
    BY <1>3, <1>4
  <1>6. Front(s) = SubSeq(s, 1, n)
    BY DEF Front, n
  <1>7. Last(s) = s[Len(s)] /\ Last(s) \in S
    BY <1>1, <1>2 DEF Last
  <1>8. QED
    BY <1>1, <1>4, <1>5, <1>6, <1>7 DEF n

\* Moving on within a routine replaces the top frame only.
LEMMA ResumedFrames ==
    ASSUME NEW S, NEW s \in Seq(S), s # <<>>, NEW f \in S
    PROVE  /\ Append(Front(s), f) \in Seq(S)
           /\ Len(Append(Front(s), f)) = Len(s)
           /\ \A i \in 1..(Len(s) - 1) : Append(Front(s), f)[i] = s[i]
           /\ Append(Front(s), f)[Len(s)] = f
  <1>1. Front(s) \in Seq(S) /\ Len(Front(s)) = Len(s) - 1 /\ Len(s) \in Nat \ {0}
    BY FrontFrames
  <1>2. \A i \in 1..(Len(s) - 1) : Front(s)[i] = s[i]
    BY FrontFrames
  <1>3. QED
    BY <1>1, <1>2, AppendProperties

\* A call replaces the top frame by where it will resume and adds a frame.
LEMMA CalledFrames ==
    ASSUME NEW S, NEW s \in Seq(S), NEW g \in S
    PROVE  /\ Append(s, g) \in Seq(S)
           /\ Len(Append(s, g)) = Len(s) + 1
           /\ \A i \in 1..Len(s) : Append(s, g)[i] = s[i]
           /\ Append(s, g)[Len(s) + 1] = g
  BY AppendProperties

\* The top frame has a frame's type.
LEMMA TopFrame ==
    ASSUME TypeOK, stack # <<>>
    PROVE  /\ Len(stack) \in Nat \ {0}
           /\ Top = stack[Len(stack)]
           /\ Top \in Frame
  BY FrontFrames DEF TypeOK, Top

\* Every frame's module is a module.
LEMMA FrameMods ==
    ASSUME TypeOK
    PROVE  \A i \in 1..Len(stack) : stack[i].mod \in Modules
  <1>1. \A i \in 1..Len(stack) : stack[i] \in Frame
    BY ElementOfSeq DEF TypeOK
  <1>2. QED
    BY <1>1 DEF Frame

\* The stack after a routine returns.
LEMMA ReturnStack ==
    ASSUME TypeOK, stack # <<>>, Return
    PROVE  /\ stack' \in Seq(Frame)
           /\ Len(stack') = Len(stack) - 1
           /\ \A i \in 1..(Len(stack) - 1) : stack'[i] = stack[i]
  BY FrontFrames DEF TypeOK, Return

\* The stack after a routine moves on.
LEMMA GotoStack ==
    ASSUME TypeOK, stack # <<>>, NEW pc \in Places, NEW k \in Nat, Goto(pc, k)
    PROVE  /\ stack' \in Seq(Frame)
           /\ Len(stack') = Len(stack)
           /\ \A i \in 1..(Len(stack) - 1) : stack'[i] = stack[i]
           /\ stack'[Len(stack)] = [op |-> Top.op, mod |-> Top.mod, pc |-> pc, idx |-> k]
  <1>1. Resume(pc, k) = [op |-> Top.op, mod |-> Top.mod, pc |-> pc, idx |-> k]
    BY DEF Resume
  <1>2. Resume(pc, k) \in Frame
    BY <1>1, TopFrame DEF Frame
  <1>3. QED
    BY <1>1, <1>2, ResumedFrames DEF TypeOK, Goto

\* The stack after a routine calls another.
LEMMA GoCallStack ==
    ASSUME TypeOK, stack # <<>>, NEW pc \in Places, NEW k \in Nat,
           NEW op \in Routines, NEW m \in Modules, GoCall(pc, k, op, m)
    PROVE  /\ stack' \in Seq(Frame)
           /\ Len(stack') = Len(stack) + 1
           /\ \A i \in 1..(Len(stack) - 1) : stack'[i] = stack[i]
           /\ stack'[Len(stack)] = [op |-> Top.op, mod |-> Top.mod, pc |-> pc, idx |-> k]
           /\ stack'[Len(stack) + 1] = [op |-> op, mod |-> m, pc |-> "enter", idx |-> 0]
  <1> DEFINE t == Append(Front(stack), Resume(pc, k))
  <1>1. Resume(pc, k) = [op |-> Top.op, mod |-> Top.mod, pc |-> pc, idx |-> k]
    BY DEF Resume
  <1>2. Resume(pc, k) \in Frame
    BY <1>1, TopFrame DEF Frame
  <1>3. /\ t \in Seq(Frame)
        /\ Len(t) = Len(stack)
        /\ \A i \in 1..(Len(stack) - 1) : t[i] = stack[i]
        /\ t[Len(stack)] = Resume(pc, k)
    BY <1>2, ResumedFrames DEF TypeOK
  <1>4. Call(op, m) \in Frame
    BY DEF Call, Frame, Places
  <1> HIDE DEF t
  <1>5. /\ Append(t, Call(op, m)) \in Seq(Frame)
        /\ Len(Append(t, Call(op, m))) = Len(t) + 1
        /\ \A i \in 1..Len(t) : Append(t, Call(op, m))[i] = t[i]
        /\ Append(t, Call(op, m))[Len(t) + 1] = Call(op, m)
    BY <1>3, <1>4, CalledFrames
  <1>6. stack' = Append(t, Call(op, m))
    BY DEF GoCall, t
  <1>7. Len(stack) \in Nat \ {0}
    BY TopFrame
  <1>8. QED
    BY <1>1, <1>3, <1>5, <1>6, <1>7 DEF Call

\* The stack after a program is executed.
LEMMA ExecStack ==
    ASSUME TypeOK, NEW m \in Modules, ExecLoads(m)
    PROVE  /\ stack' \in Seq(Frame)
           /\ Len(stack') = Len(stack) + 2
           /\ \A i \in 1..Len(stack) : stack'[i] = stack[i]
           /\ stack'[Len(stack) + 1] = ExecFrame(m)
           /\ stack'[Len(stack) + 2] = Call("setup", m)
  <1> DEFINE t == Append(stack, ExecFrame(m))
  <1>1. ExecFrame(m) \in Frame /\ Call("setup", m) \in Frame
    BY DEF Call, ExecFrame, Frame, Places, Routines
  <1>2. stack \in Seq(Frame) /\ Len(stack) \in Nat
    BY LenProperties DEF TypeOK
  <1>3. /\ t \in Seq(Frame)
        /\ Len(t) = Len(stack) + 1
        /\ \A i \in 1..Len(stack) : t[i] = stack[i]
        /\ t[Len(stack) + 1] = ExecFrame(m)
    BY <1>1, <1>2, CalledFrames
  <1> HIDE DEF t
  <1>4. /\ Append(t, Call("setup", m)) \in Seq(Frame)
        /\ Len(Append(t, Call("setup", m))) = Len(t) + 1
        /\ \A i \in 1..Len(t) : Append(t, Call("setup", m))[i] = t[i]
        /\ Append(t, Call("setup", m))[Len(t) + 1] = Call("setup", m)
    BY <1>1, <1>3, CalledFrames
  <1>5. stack' = Append(t, Call("setup", m))
    BY DEF ExecLoads, t
  <1>6. QED
    BY <1>2, <1>3, <1>4, <1>5

-----------------------------------------------------------------------------
(***************************************************************************)
(* Type correctness.                                                       *)
(***************************************************************************)

LEMMA InitType == Init => TypeOK
  <1>1. <<>> \in Seq(Frame) /\ <<>> \in Seq(Modules)
    BY EmptySeq
  <1>2. CallerD7 \in Results /\ EXEC_OK \in Results
    BY DEF Results, EXEC_OK, EXEC_INCOMPAT_ROM
  <1>3. ASSUME Init
        PROVE  /\ files \in Worlds /\ stack \in Seq(Frame)
               /\ d7 \in Results /\ d0 \in Results
               /\ abandoned \in Seq(Modules) /\ wild \in BOOLEAN
    BY <1>1, <1>2, <1>3 DEF Init
  <1>4. ASSUME Init
        PROVE  /\ linked \in [Modules -> BOOLEAN] /\ usage \in [Modules -> Int]
               /\ found \in [Modules -> Nat] /\ relocs \in [Modules -> Int]
    BY <1>4 DEF Init
  <1>5. QED
    BY <1>3, <1>4 DEF TypeOK

\* Every step of the kernel, of a program or of a throw keeps the types.
LEMMA NextType ==
    ASSUME TypeOK, [Next]_vars
    PROVE  TypeOK'
  <1> USE DEF heap, At, EXEC_OK, EXEC_NO_MEM, EXEC_LIB_NOT_FOUND, EXEC_LIB_RANGE_ERR, EXEC_TIOS_ERROR, EXEC_INCOMPATIBLE, EXEC_NOT_EXEC, EXEC_INCOMPAT_ROM
  <1>0. stack # <<>> => Top \in Frame /\ Top.mod \in Modules /\ Top.idx \in Nat
    BY TopFrame DEF Frame
  <1>1. CASE LoadRelocates
    <2>1. stack' \in Seq(Frame)
      BY <1>0, <1>1, GoCallStack DEF LoadRelocates, Places, Routines
    <2>2. QED
      BY <1>0, <1>1, <2>1 DEF LoadRelocates, TypeOK
  <1>2. CASE LoadCleansUp
    <2>1. stack' \in Seq(Frame)
      BY <1>0, <1>2, GoCallStack DEF LoadCleansUp, Places, Routines
    <2>2. QED
      BY <1>0, <1>2, <2>1 DEF LoadCleansUp, TypeOK
  <1>3. CASE ExecFails
    <2>1. stack' \in Seq(Frame)
      BY <1>0, <1>3, ReturnStack DEF ExecFails
    <2>2. QED
      BY <1>0, <1>3, <2>1 DEF ExecFails, TypeOK
  <1>4. CASE ExecRuns
    <2>1. stack' \in Seq(Frame)
      BY <1>0, <1>4, GotoStack DEF ExecRuns, Places, Routines
    <2>2. QED
      BY <1>0, <1>4, <2>1 DEF ExecRuns, TypeOK
  <1>5. CASE ProgramReturns
    <2>1. stack' \in Seq(Frame)
      BY <1>0, <1>5, GoCallStack DEF ProgramReturns, InProgram, Places, Routines
    <2>2. QED
      BY <1>0, <1>5, <2>1 DEF ProgramReturns, InProgram, Results, TypeOK
  <1>6. CASE ExecReturns
    <2>1. stack' \in Seq(Frame)
      BY <1>0, <1>6, ReturnStack DEF ExecReturns
    <2>2. QED
      BY <1>0, <1>6, <2>1 DEF ExecReturns, TypeOK
  <1>7. CASE ProgramThrows
    <2>1. stack' \in Seq(Frame)
      BY <1>0, <1>7, GotoStack DEF ProgramThrows, InProgram, Places, Routines
    <2>2. QED
      BY <1>0, <1>7, <2>1 DEF ProgramThrows, InProgram, Results, TypeOK
  <1>8. CASE SetupAlreadyDone
    <2>1. stack' \in Seq(Frame)
      BY <1>0, <1>8, ReturnStack DEF SetupAlreadyDone, SetupFails
    <2>2. QED
      BY <1>0, <1>8, <2>1 DEF SetupAlreadyDone, SetupFails, Results, TypeOK
  <1>9. CASE SetupTooOld
    <2>1. stack' \in Seq(Frame)
      BY <1>0, <1>9, ReturnStack DEF SetupTooOld, SetupFails
    <2>2. QED
      BY <1>0, <1>9, <2>1 DEF SetupTooOld, SetupFails, TypeOK
  <1>10. CASE SetupIncompatible
    <2>1. stack' \in Seq(Frame)
      BY <1>0, <1>10, ReturnStack DEF SetupIncompatible, SetupFails
    <2>2. QED
      BY <1>0, <1>10, <2>1 DEF SetupIncompatible, SetupFails, Results, TypeOK
  <1>11. CASE SetupNoMemory
    <2>1. stack' \in Seq(Frame)
      BY <1>0, <1>11, ReturnStack DEF SetupNoMemory, Allocates, SetupFails
    <2>2. QED
      BY <1>0, <1>11, <2>1 DEF SetupNoMemory, Allocates, SetupFails, Results, TypeOK
  <1>12. CASE SetupLibMissing
    <2>1. stack' \in Seq(Frame)
      BY <1>0, <1>12, ReturnStack DEF SetupLibMissing, SetupFails
    <2>2. QED
      BY <1>0, <1>12, <2>1 DEF SetupLibMissing, SetupFails, TypeOK
  <1>13. CASE SetupRangeError
    <2>1. stack' \in Seq(Frame)
      BY <1>0, <1>13, ReturnStack DEF SetupRangeError
    <2>2. QED
      BY <1>0, <1>13, <2>1 DEF SetupRangeError, Results, TypeOK
  <1>14. CASE SetupRecurses
    <2>1. stack' \in Seq(Frame)
      BY <1>0, <1>14, GoCallStack DEF SetupRecurses, FindsLib, Places, Routines
    <2>2. QED
      BY <1>0, <1>14, <2>1 DEF SetupRecurses, FindsLib, Results, TypeOK
  <1>15. CASE CleanupNothing
    <2>1. stack' \in Seq(Frame)
      BY <1>0, <1>15, ReturnStack DEF CleanupNothing
    <2>2. QED
      BY <1>0, <1>15, <2>1 DEF CleanupNothing, TypeOK
  <1>16. CASE CleanupStarts
    <2>1. stack' \in Seq(Frame)
      BY <1>0, <1>16, GotoStack DEF CleanupStarts, Places, Routines
    <2>2. QED
      BY <1>0, <1>16, <2>1 DEF CleanupStarts, TypeOK
  <1>17. CASE CleanupFrees
    <2>1. stack' \in Seq(Frame)
      BY <1>0, <1>17, ReturnStack DEF CleanupFrees, FreeLinkinfo
    <2>2. QED
      BY <1>0, <1>17, <2>1 DEF CleanupFrees, FreeLinkinfo, TypeOK
  <1>18. CASE RelocShared
    <2>1. stack' \in Seq(Frame)
      BY <1>0, <1>18, ReturnStack DEF RelocShared
    <2>2. QED
      BY <1>0, <1>18, <2>1 DEF RelocShared, TypeOK
  <1>19. CASE RelocFirst
    <2>1. stack' \in Seq(Frame)
      BY <1>0, <1>19, GotoStack DEF RelocFirst, Places, Routines
    <2>2. QED
      BY <1>0, <1>19, <2>1 DEF RelocFirst, TypeOK
  <1>20. CASE RelocAdds
    <2>1. stack' \in Seq(Frame)
      BY <1>0, <1>20, ReturnStack DEF RelocAdds
    <2>2. QED
      BY <1>0, <1>20, <2>1 DEF RelocAdds, TypeOK
  <1>21. CASE UnloadShared
    <2>1. stack' \in Seq(Frame)
      BY <1>0, <1>21, ReturnStack DEF UnloadShared
    <2>2. QED
      BY <1>0, <1>21, <2>1 DEF UnloadShared, TypeOK
  <1>22. CASE UnloadLast
    <2>1. stack' \in Seq(Frame)
      BY <1>0, <1>22, GotoStack DEF UnloadLast, Places, Routines
    <2>2. QED
      BY <1>0, <1>22, <2>1 DEF UnloadLast, TypeOK
  <1>23. CASE UnloadFrees
    <2>1. stack' \in Seq(Frame)
      BY <1>0, <1>23, ReturnStack DEF UnloadFrees, FreeLinkinfo
    <2>2. QED
      BY <1>0, <1>23, <2>1 DEF UnloadFrees, FreeLinkinfo, TypeOK
  <1>24. CASE \E m \in Modules : ExecRefused(m)
    BY <1>24 DEF ExecRefused, HeaderError, Results, EXEC_UNKNOWN_FORMAT, TypeOK
  <1>25. CASE \E m \in Modules : ExecLoads(m)
    <2>1. PICK m \in Modules : ExecLoads(m)
      BY <1>25
    <2>2. stack' \in Seq(Frame)
      BY <2>1, ExecStack
    <2>3. QED
      BY <2>1, <2>2 DEF ExecLoads, Results, TypeOK
  <1>26. CASE ThrowStop
    <2>1. stack \in Seq(Frame) /\ stack # <<>> /\ Top \in Frame
      BY <1>26, <1>0 DEF ThrowStop, TypeOK
    <2>2. Front(stack) \in Seq(Frame)
      BY <2>1, FrontFrames
    <2>3. ASSUME Front(stack) # <<>>
          PROVE  stack' \in Seq(Frame)
      <3>1. Last(Front(stack)) \in Frame
        BY <2>2, <2>3, FrontFrames
      <3>2. [Last(Front(stack)) EXCEPT !.pc = "caught"] \in Frame
        BY <3>1 DEF Frame, Places
      <3>3. QED
        BY <1>26, <2>2, <2>3, <3>2, ResumedFrames DEF ThrowStop
    <2>4. stack' \in Seq(Frame)
      BY <1>26, <2>3, EmptySeq DEF ThrowStop
    <2>5. abandoned' \in Seq(Modules)
      BY <1>26, <1>0, <2>1, AppendProperties DEF ThrowStop, TypeOK
    <2>6. QED
      BY <1>26, <2>4, <2>5 DEF ThrowStop, Results, TypeOK
  <1>27. CASE QuitThrown
    BY <1>27 DEF QuitThrown, TypeOK
  <1>28. CASE SetupAllocates
    <2>1. stack' \in Seq(Frame)
      BY <1>28, ReturnStack, GotoStack DEF SetupAllocates, Allocates, Places
    <2>2. d7' \in Results
      BY <1>28 DEF SetupAllocates, Results
    <2>3. QED
      BY <1>28, <1>0, <2>1, <2>2 DEF SetupAllocates, Allocates, TypeOK
  <1>29. CASE SetupPseudolib
    <2>0. Top.idx + 1 \in Nat /\ "find" \in Places
      BY <1>29, <1>0 DEF SetupPseudolib, FindsLib, Places
    <2>1. Return \/ Goto("find", Top.idx + 1)
      BY <1>29 DEF SetupPseudolib, FindsLib, NextLib
    <2>2. stack' \in Seq(Frame)
      BY <1>29, <2>1, <2>0, ReturnStack, GotoStack DEF SetupPseudolib, FindsLib
    <2>3. d7' \in {EXEC_OK, EXEC_LIB_NOT_FOUND, d7}
      BY <1>29 DEF SetupPseudolib, FindsLib, NextLib
    <2>4. d7' \in Results
      BY <2>3 DEF Results, TypeOK
    <2>5. QED
      BY <1>29, <1>0, <2>2, <2>4 DEF SetupPseudolib, FindsLib, TypeOK
  <1>30. CASE SetupLibDone
    <2>0. Top.idx + 1 \in Nat /\ "find" \in Places
      BY <1>30, <1>0 DEF SetupLibDone, Places
    <2>1. Return \/ Goto("find", Top.idx + 1)
      BY <1>30 DEF SetupLibDone, NextLib
    <2>2. stack' \in Seq(Frame)
      BY <1>30, <2>1, <2>0, ReturnStack, GotoStack DEF SetupLibDone
    <2>3. d7' \in {EXEC_OK, EXEC_LIB_NOT_FOUND, d7}
      BY <1>30 DEF SetupLibDone, NextLib
    <2>4. d7' \in Results
      BY <2>3 DEF Results, TypeOK
    <2>5. QED
      BY <1>30, <1>0, <2>2, <2>4 DEF SetupLibDone, TypeOK
  <1>31. CASE CleanupLib
    <2>0. Top.idx + 1 \in Nat /\ "libs" \in Places /\ "cleanup" \in Routines
      BY <1>31, <1>0 DEF CleanupLib, Places, Routines
    <2>1. CASE Lib(Top.mod, Top.idx) \in Modules
      BY <1>31, <2>0, <2>1, GoCallStack DEF CleanupLib, TypeOK
    <2>2. CASE Lib(Top.mod, Top.idx) \notin Modules
      BY <1>31, <2>0, <2>2, GotoStack DEF CleanupLib, TypeOK
    <2>3. QED
      BY <2>1, <2>2
  <1>32. CASE RecurseLib("reloc")
    <2>0. Top.idx + 1 \in Nat /\ "libs" \in Places /\ "reloc" \in Routines
      BY <1>32, <1>0 DEF RecurseLib, Places, Routines
    <2>1. CASE Lib(Top.mod, Top.idx) \in Modules
      BY <1>32, <2>0, <2>1, GoCallStack DEF RecurseLib, TypeOK
    <2>2. CASE Lib(Top.mod, Top.idx) \notin Modules
      BY <1>32, <2>0, <2>2, GotoStack DEF RecurseLib, TypeOK
    <2>3. QED
      BY <2>1, <2>2
  <1>33. CASE RecurseLib("unload")
    <2>0. Top.idx + 1 \in Nat /\ "libs" \in Places /\ "unload" \in Routines
      BY <1>33, <1>0 DEF RecurseLib, Places, Routines
    <2>1. CASE Lib(Top.mod, Top.idx) \in Modules
      BY <1>33, <2>0, <2>1, GoCallStack DEF RecurseLib, TypeOK
    <2>2. CASE Lib(Top.mod, Top.idx) \notin Modules
      BY <1>33, <2>0, <2>2, GotoStack DEF RecurseLib, TypeOK
    <2>3. QED
      BY <2>1, <2>2
  <1>34. CASE UNCHANGED vars
    BY <1>34 DEF vars, TypeOK
  <1>35. QED
    BY <1>1, <1>2, <1>3, <1>4, <1>5, <1>6, <1>7, <1>8, <1>9, <1>10, <1>11, <1>12, <1>13, <1>14, <1>15, <1>16, <1>17, <1>18, <1>19, <1>20, <1>21, <1>22, <1>23, <1>24, <1>25, <1>26, <1>27, <1>28, <1>29, <1>30, <1>31, <1>32, <1>33, <1>34
       DEF Next, KernelStep, ProgramStep, ThrowStep, Halted, ExecSteps, SetupSteps,
           CleanupSteps, RelocSteps, UnloadSteps

(***************************************************************************)
(* All variables keep their types: the result registers hold only result   *)
(* codes or the caller's d7, every frame is one of the routines' frames.   *)
(***************************************************************************)
THEOREM TypeCorrect == Spec => []TypeOK
  <1>1. Init => TypeOK
    BY InitType
  <1>2. TypeOK /\ [Next]_vars => TypeOK'
    BY NextType
  <1>3. QED
    BY <1>1, <1>2, PTL DEF Spec
-----------------------------------------------------------------------------
(***************************************************************************)
(* A module is relocated at most once.  RelocatedOnce is not inductive: it *)
(* has to say as well why a module that is counted but not yet relocated   *)
(* has its relocation under way on the stack, why there is only one, and   *)
(* why nothing unloads while something is being relocated.                 *)
(***************************************************************************)

\* exec calls one routine at a time: above a frame of module_reloc there are
\* only frames of module_reloc, and likewise for the other routines.
StackOrder ==
    \A i, j \in 1..Len(stack) :
        i < j /\ stack[i].op # "exec" => stack[j].op = stack[i].op

\* Frame i has passed the test of the usage count and works on its module.
Works(i, op) == stack[i].op = op /\ stack[i].pc = "libs"

\* A relocation under way is for a module counted, and not yet relocated.
RelocFrames ==
    \A i \in 1..Len(stack) : Works(i, "reloc") =>
        /\ linked[stack[i].mod]
        /\ usage[stack[i].mod] > 0
        /\ relocs[stack[i].mod] = 0

\* What is being unloaded or cleaned up is not counted any more.
FreeFrames ==
    \A i \in 1..Len(stack) : Works(i, "unload") \/ Works(i, "cleanup") =>
        usage[stack[i].mod] <= 0

\* No module has two relocations under way.
OneRelocFrame ==
    \A i, j \in 1..Len(stack) :
        Works(i, "reloc") /\ Works(j, "reloc") /\ stack[i].mod = stack[j].mod => i = j

\* A module that is counted is relocated, or has its relocation under way.
CountedRelocated ==
    \A m \in Modules : usage[m] > 0 =>
        \/ relocs[m] = 1
        \/ \E i \in 1..Len(stack) : Works(i, "reloc") /\ stack[i].mod = m

RelocInv == /\ StackOrder /\ RelocFrames /\ FreeFrames /\ OneRelocFrame
            /\ CountedRelocated /\ RelocatedOnce

LEMMA InitReloc == Init => RelocInv
  BY EmptySeq DEF Init, RelocInv, StackOrder, RelocFrames, FreeFrames, OneRelocFrame,
                  CountedRelocated, RelocatedOnce

\* The frames under a routine's frame are exec's or that routine's.
LEMMA FramesBelow ==
    ASSUME TypeOK, StackOrder, stack # <<>>
    PROVE  \A i \in 1..Len(stack) : stack[i].op \in {"exec", Top.op}
  BY TopFrame DEF StackOrder

(***************************************************************************)
(* A step that leaves counts and relocations alone keeps the invariant if  *)
(* it starts no work on a module and drops no relocation under way.        *)
(***************************************************************************)
LEMMA SameWork ==
    ASSUME TypeOK, RelocInv, UNCHANGED <<linked, usage, relocs>>,
           StackOrder', stack' \in Seq(Frame),
           \A op \in {"reloc", "unload", "cleanup"} : \A i \in 1..Len(stack') :
               Works(i, op)' => /\ i \in 1..Len(stack)
                                /\ Works(i, op)
                                /\ stack'[i].mod = stack[i].mod,
           \A i \in 1..Len(stack) : Works(i, "reloc") =>
               /\ i \in 1..Len(stack')
               /\ Works(i, "reloc")'
               /\ stack'[i].mod = stack[i].mod
    PROVE  RelocInv'
  <1>1. RelocFrames'
    BY DEF RelocInv, RelocFrames
  <1>2. FreeFrames'
    BY DEF RelocInv, FreeFrames
  <1>3. OneRelocFrame'
    BY DEF RelocInv, OneRelocFrame
  <1>4. CountedRelocated'
    BY DEF RelocInv, CountedRelocated
  <1>5. RelocatedOnce'
    BY DEF RelocInv, RelocatedOnce
  <1>6. QED
    BY <1>1, <1>2, <1>3, <1>4, <1>5 DEF RelocInv

\* Returning, from anything but a relocation under way.
LEMMA ReturnKeeps ==
    ASSUME TypeOK, RelocInv, stack # <<>>, Return, UNCHANGED <<linked, usage, relocs>>,
           Top.op # "reloc" \/ Top.pc # "libs"
    PROVE  RelocInv'
  <1>1. /\ stack' \in Seq(Frame)
        /\ Len(stack') = Len(stack) - 1
        /\ \A i \in 1..(Len(stack) - 1) : stack'[i] = stack[i]
    BY ReturnStack
  <1>2. Len(stack) \in Nat \ {0} /\ Top = stack[Len(stack)]
    BY TopFrame
  <1>3. StackOrder'
    BY <1>1, <1>2 DEF RelocInv, StackOrder
  <1>4. QED
    BY <1>1, <1>2, <1>3, SameWork DEF Works

\* Moving on, within the work on a module or outside it.
LEMMA GotoKeeps ==
    ASSUME TypeOK, RelocInv, stack # <<>>, UNCHANGED <<linked, usage, relocs>>,
           NEW pc \in Places, NEW k \in Nat, Goto(pc, k), pc = "libs" <=> Top.pc = "libs"
    PROVE  RelocInv'
  <1>1. /\ stack' \in Seq(Frame)
        /\ Len(stack') = Len(stack)
        /\ \A i \in 1..(Len(stack) - 1) : stack'[i] = stack[i]
        /\ stack'[Len(stack)] = [op |-> Top.op, mod |-> Top.mod, pc |-> pc, idx |-> k]
    BY GotoStack
  <1>2. Len(stack) \in Nat \ {0} /\ Top = stack[Len(stack)]
    BY TopFrame
  <1>3. \A i \in 1..Len(stack) :
            /\ stack'[i].op = stack[i].op
            /\ stack'[i].mod = stack[i].mod
            /\ (stack'[i].pc = "libs") <=> (stack[i].pc = "libs")
    BY <1>1, <1>2
  <1>4. StackOrder'
    BY <1>1, <1>2, <1>3 DEF RelocInv, StackOrder
  <1>5. QED
    BY <1>1, <1>2, <1>3, <1>4, SameWork DEF Works

\* Calling a routine, from exec or from the same routine.
LEMMA GoCallKeeps ==
    ASSUME TypeOK, RelocInv, stack # <<>>, UNCHANGED <<linked, usage, relocs>>,
           NEW pc \in Places, NEW k \in Nat, NEW op \in Routines, NEW m \in Modules,
           GoCall(pc, k, op, m), pc = "libs" <=> Top.pc = "libs", Top.op \in {"exec", op}
    PROVE  RelocInv'
  <1>1. /\ stack' \in Seq(Frame)
        /\ Len(stack') = Len(stack) + 1
        /\ \A i \in 1..(Len(stack) - 1) : stack'[i] = stack[i]
        /\ stack'[Len(stack)] = [op |-> Top.op, mod |-> Top.mod, pc |-> pc, idx |-> k]
        /\ stack'[Len(stack) + 1] = [op |-> op, mod |-> m, pc |-> "enter", idx |-> 0]
    BY GoCallStack
  <1>2. Len(stack) \in Nat \ {0} /\ Top = stack[Len(stack)]
    BY TopFrame
  <1>3. \A i \in 1..Len(stack) :
            /\ stack'[i].op = stack[i].op
            /\ stack'[i].mod = stack[i].mod
            /\ (stack'[i].pc = "libs") <=> (stack[i].pc = "libs")
    BY <1>1, <1>2
  <1>4. stack'[Len(stack) + 1].op = op /\ stack'[Len(stack) + 1].pc # "libs"
    BY <1>1
  <1>5. \A i \in 1..Len(stack) : stack[i].op \in {"exec", op}
    BY FramesBelow DEF RelocInv
  <1>6. StackOrder'
    BY <1>1, <1>2, <1>3, <1>4, <1>5 DEF RelocInv, StackOrder
  <1>7. \A i \in 1..Len(stack') : i \in 1..Len(stack) \/ i = Len(stack) + 1
    BY <1>1, <1>2
  <1>8. QED
    BY <1>1, <1>2, <1>3, <1>4, <1>6, <1>7, SameWork DEF Works

-----------------------------------------------------------------------------
(* The steps that allocate, count, relocate, undo and free *)

\* A module without linkinfo block gets one, with a count of zero: it is not
\* relocated, and while module_setup runs nothing is being worked on.
LEMMA AllocateKeeps ==
    ASSUME TypeOK, RelocInv, SetupAllocates
    PROVE  RelocInv'
  <1> DEFINE m == Top.mod
  <1>1. /\ stack # <<>> /\ Top.op = "setup" /\ Top.pc = "enter" /\ m \in Modules
        /\ ~linked[m]
        /\ Top.idx \in Nat
    BY TopFrame DEF SetupAllocates, Allocates, At, Frame
  <1>2. /\ linked' = [linked EXCEPT ![m] = TRUE]
        /\ usage' = [usage EXCEPT ![m] = 0]
        /\ relocs' = relocs
    BY DEF SetupAllocates
  <1>3. Return \/ Goto("find", 1)
    BY DEF SetupAllocates
  <1>4. Len(stack) \in Nat \ {0} /\ Top = stack[Len(stack)]
    BY <1>1, TopFrame
  <1>5. \A i \in 1..Len(stack) : stack[i].op \in {"exec", "setup"}
    BY <1>1, FramesBelow DEF RelocInv
  <1>6. /\ Len(stack') \in {Len(stack), Len(stack) - 1}
        /\ \A i \in 1..Len(stack') : stack'[i].op = stack[i].op
    <2>1. CASE Return
      BY <2>1, <1>1, <1>4, ReturnStack
    <2>2. CASE Goto("find", 1)
      <3>1. "find" \in Places /\ 1 \in Nat
        BY DEF Places
      <3>2. /\ Len(stack') = Len(stack)
            /\ \A i \in 1..(Len(stack) - 1) : stack'[i] = stack[i]
            /\ stack'[Len(stack)] = [op |-> Top.op, mod |-> Top.mod, pc |-> "find", idx |-> 1]
        BY <2>2, <3>1, <1>1, GotoStack
      <3>3. stack'[Len(stack)].op = stack[Len(stack)].op
        BY <3>2, <1>4
      <3>4. QED
        BY <3>2, <3>3, <1>4
    <2>3. QED
      BY <1>3, <2>1, <2>2
  <1>7. \A i \in 1..Len(stack') : stack'[i].op \in {"exec", "setup"}
    BY <1>4, <1>5, <1>6
  <1>8. StackOrder'
    BY <1>4, <1>6 DEF RelocInv, StackOrder
  <1>9. RelocFrames' /\ FreeFrames' /\ OneRelocFrame'
    BY <1>7 DEF RelocFrames, FreeFrames, OneRelocFrame, Works
  <1>10. RelocatedOnce'
    BY <1>1, <1>2 DEF RelocInv, RelocatedOnce, TypeOK
  <1>11. CountedRelocated'
    <2>1. \A k \in Modules : usage'[k] = IF k = m THEN 0 ELSE usage[k]
      BY <1>1, <1>2 DEF TypeOK
    <2>2. \A k \in Modules : usage[k] > 0 => relocs[k] = 1
      BY <1>5 DEF RelocInv, CountedRelocated, Works
    <2>3. QED
      BY <1>2, <2>1, <2>2 DEF CountedRelocated
  <1>12. QED
    BY <1>8, <1>9, <1>10, <1>11 DEF RelocInv

\* load_cleanup works only on modules that are not counted.
LEMMA CleanupStartKeeps ==
    ASSUME TypeOK, RelocInv, CleanupStarts
    PROVE  RelocInv'
  <1>1. /\ stack # <<>> /\ Top.op = "cleanup" /\ usage[Top.mod] = 0
        /\ UNCHANGED <<linked, usage, relocs>> /\ Goto("libs", 1)
    BY DEF CleanupStarts, At, heap
  <1>2. Len(stack) \in Nat \ {0} /\ Top = stack[Len(stack)]
    BY <1>1, TopFrame
  <1>3. /\ Len(stack') = Len(stack)
        /\ \A i \in 1..(Len(stack) - 1) : stack'[i] = stack[i]
        /\ stack'[Len(stack)] = [op |-> Top.op, mod |-> Top.mod, pc |-> "libs", idx |-> 1]
    BY <1>1, GotoStack DEF Places
  <1>4. /\ stack'[Len(stack)].op = "cleanup"
        /\ stack'[Len(stack)].mod = Top.mod
    BY <1>1, <1>3
  <1>5. \A i \in 1..Len(stack) : stack[i].op \in {"exec", "cleanup"}
    BY <1>1, FramesBelow DEF RelocInv
  <1>6. \A i \in 1..Len(stack') : stack'[i].op \in {"exec", "cleanup"}
    BY <1>2, <1>3, <1>4, <1>5
  <1>7. StackOrder'
    BY <1>1, <1>2, <1>3, <1>4 DEF RelocInv, StackOrder
  <1>8. RelocFrames' /\ OneRelocFrame'
    BY <1>6 DEF RelocFrames, OneRelocFrame, Works
  <1>9. FreeFrames'
    BY <1>1, <1>2, <1>3, <1>4 DEF RelocInv, FreeFrames, Works
  <1>10. CountedRelocated' /\ RelocatedOnce'
    BY <1>1, <1>5 DEF RelocInv, CountedRelocated, RelocatedOnce, Works
  <1>11. QED
    BY <1>7, <1>8, <1>9, <1>10 DEF RelocInv

\* Only a block whose module is not counted, and so not relocated, is freed.
LEMMA FreeKeeps ==
    ASSUME TypeOK, RelocInv, stack # <<>>, FreeLinkinfo,
           Top.op \in {"cleanup", "unload"}, Top.pc = "libs"
    PROVE  RelocInv'
  <1> DEFINE m == Top.mod
  <1>1. /\ Len(stack) \in Nat \ {0} /\ Top = stack[Len(stack)]
        /\ m \in Modules
    BY TopFrame DEF Frame
  <1>2. /\ linked' = [linked EXCEPT ![m] = FALSE]
        /\ UNCHANGED <<usage, relocs>>
        /\ Return
    BY DEF FreeLinkinfo
  <1>3. /\ Len(stack') = Len(stack) - 1
        /\ \A i \in 1..(Len(stack) - 1) : stack'[i] = stack[i]
    BY <1>2, ReturnStack
  <1>4. \A i \in 1..Len(stack) : stack[i].op # "reloc"
    BY FramesBelow DEF RelocInv
  <1>5. usage[m] <= 0
    BY <1>1 DEF RelocInv, FreeFrames, Works
  <1>6. relocs[m] = 0
    BY <1>1, <1>5 DEF RelocInv, RelocatedOnce, TypeOK
  <1>7. StackOrder'
    BY <1>1, <1>3 DEF RelocInv, StackOrder
  <1>8. RelocFrames' /\ OneRelocFrame'
    BY <1>1, <1>3, <1>4 DEF RelocFrames, OneRelocFrame, Works
  <1>9. FreeFrames'
    BY <1>1, <1>2, <1>3 DEF RelocInv, FreeFrames, Works
  <1>10. RelocatedOnce'
    BY <1>1, <1>2, <1>6 DEF RelocInv, RelocatedOnce, TypeOK
  <1>11. CountedRelocated'
    BY <1>2, <1>4 DEF RelocInv, CountedRelocated, Works
  <1>12. QED
    BY <1>7, <1>8, <1>9, <1>10, <1>11 DEF RelocInv

\* A module in use is counted once more; no relocation of it starts.
LEMMA RelocSharedKeeps ==
    ASSUME TypeOK, RelocInv, RelocShared
    PROVE  RelocInv'
  <1> DEFINE m == Top.mod
  <1>1. /\ stack # <<>> /\ Top.op = "reloc" /\ Top.pc = "enter" /\ usage[m] # 0
        /\ usage' = [usage EXCEPT ![m] = @ + 1]
        /\ UNCHANGED <<linked, relocs>> /\ Return
    BY DEF RelocShared, At
  <1>2. Len(stack) \in Nat \ {0} /\ Top = stack[Len(stack)] /\ m \in Modules
    BY <1>1, TopFrame DEF Frame
  <1>3. /\ Len(stack') = Len(stack) - 1
        /\ \A i \in 1..(Len(stack) - 1) : stack'[i] = stack[i]
    BY <1>1, ReturnStack
  <1>4. \A i \in 1..Len(stack) : stack[i].op \in {"exec", "reloc"}
    BY <1>1, FramesBelow DEF RelocInv
  <1>5. \A k \in Modules : usage[k] \in Int /\ usage'[k] \in Int
            /\ (usage[k] > 0 <=> usage'[k] > 0)
    BY <1>1, <1>2 DEF TypeOK
  <1>6. \A i \in 1..Len(stack) : stack[i].mod \in Modules
    BY FrameMods
  <1>7. StackOrder'
    BY <1>2, <1>3 DEF RelocInv, StackOrder
  <1>8. RelocFrames'
    BY <1>1, <1>2, <1>3, <1>5, <1>6 DEF RelocInv, RelocFrames, Works
  <1>9. FreeFrames'
    BY <1>2, <1>3, <1>4 DEF FreeFrames, Works
  <1>10. OneRelocFrame'
    BY <1>2, <1>3 DEF RelocInv, OneRelocFrame, Works
  <1>11. RelocatedOnce'
    BY <1>1, <1>5 DEF RelocInv, RelocatedOnce
  <1>12. CountedRelocated'
    <2>1. SUFFICES ASSUME NEW k \in Modules, usage'[k] > 0, relocs[k] # 1
                   PROVE  \E i \in 1..Len(stack') : Works(i, "reloc")' /\ stack'[i].mod = k
      BY <1>1 DEF CountedRelocated
    <2>2. PICK i \in 1..Len(stack) : Works(i, "reloc") /\ stack[i].mod = k
      BY <2>1, <1>5 DEF RelocInv, CountedRelocated
    <2>3. i # Len(stack)
      BY <2>2, <1>1, <1>2 DEF Works
    <2>4. QED
      BY <2>2, <2>3, <1>2, <1>3 DEF Works
  <1>13. QED
    BY <1>7, <1>8, <1>9, <1>10, <1>11, <1>12 DEF RelocInv

\* The first user of a module starts its one relocation.
LEMMA RelocFirstKeeps ==
    ASSUME TypeOK, RelocInv, RelocFirst
    PROVE  RelocInv'
  <1> DEFINE m == Top.mod
  <1>1. /\ stack # <<>> /\ Top.op = "reloc" /\ linked[m] /\ usage[m] = 0
        /\ usage' = [usage EXCEPT ![m] = 1]
        /\ UNCHANGED <<linked, relocs>> /\ Goto("libs", 1)
    BY DEF RelocFirst, At
  <1>2. Len(stack) \in Nat \ {0} /\ Top = stack[Len(stack)] /\ m \in Modules
    BY <1>1, TopFrame DEF Frame
  <1>3. /\ Len(stack') = Len(stack)
        /\ \A i \in 1..(Len(stack) - 1) : stack'[i] = stack[i]
        /\ stack'[Len(stack)] = [op |-> Top.op, mod |-> Top.mod, pc |-> "libs", idx |-> 1]
    BY <1>1, GotoStack DEF Places
  <1>4. /\ stack'[Len(stack)].op = "reloc"
        /\ stack'[Len(stack)].mod = m
        /\ stack'[Len(stack)].pc = "libs"
    BY <1>1, <1>3
  <1>5. \A i \in 1..Len(stack) : stack[i].op \in {"exec", "reloc"}
    BY <1>1, FramesBelow DEF RelocInv
  <1>6. relocs[m] = 0
    BY <1>1, <1>2 DEF RelocInv, RelocatedOnce
  <1>7. \A i \in 1..Len(stack) : Works(i, "reloc") => stack[i].mod # m
    BY <1>1, <1>2 DEF RelocInv, RelocFrames
  <1>8. \A k \in Modules : usage'[k] = IF k = m THEN 1 ELSE usage[k]
    BY <1>1, <1>2 DEF TypeOK
  <1>9. \A i \in 1..Len(stack) : stack[i].mod \in Modules
    BY FrameMods
  <1>10. StackOrder'
    BY <1>1, <1>2, <1>3, <1>4 DEF RelocInv, StackOrder
  <1>11. RelocFrames'
    BY <1>1, <1>2, <1>3, <1>4, <1>6, <1>8, <1>9 DEF RelocInv, RelocFrames, Works
  <1>12. FreeFrames'
    BY <1>2, <1>3, <1>4, <1>5 DEF FreeFrames, Works
  <1>13. OneRelocFrame'
    BY <1>2, <1>3, <1>4, <1>7 DEF RelocInv, OneRelocFrame, Works
  <1>14. RelocatedOnce'
    BY <1>1, <1>6, <1>8 DEF RelocInv, RelocatedOnce
  <1>15. CountedRelocated'
    <2>1. SUFFICES ASSUME NEW k \in Modules, usage'[k] > 0, relocs[k] # 1
                   PROVE  \E i \in 1..Len(stack') : Works(i, "reloc")' /\ stack'[i].mod = k
      BY <1>1 DEF CountedRelocated
    <2>2. CASE k = m
      BY <2>2, <1>2, <1>3, <1>4 DEF Works
    <2>3. CASE k # m
      <3>1. PICK i \in 1..Len(stack) : Works(i, "reloc") /\ stack[i].mod = k
        BY <2>1, <2>3, <1>8 DEF RelocInv, CountedRelocated
      <3>2. stack'[i].op = stack[i].op /\ stack'[i].mod = stack[i].mod
        BY <1>1, <1>2, <1>3, <1>4
      <3>3. stack'[i].pc = "libs"
        BY <3>1, <1>2, <1>3, <1>4 DEF Works
      <3>4. QED
        BY <3>1, <3>2, <3>3, <1>3 DEF Works
    <2>4. QED
      BY <2>2, <2>3
  <1>16. QED
    BY <1>10, <1>11, <1>12, <1>13, <1>14, <1>15 DEF RelocInv

\* The relocation under way ends with the module relocated, once.
LEMMA RelocAddsKeeps ==
    ASSUME TypeOK, RelocInv, RelocAdds
    PROVE  RelocInv'
  <1> DEFINE m == Top.mod
  <1>1. /\ stack # <<>> /\ Top.op = "reloc" /\ Top.pc = "libs"
        /\ relocs' = [relocs EXCEPT ![m] = @ + 1]
        /\ UNCHANGED <<linked, usage>> /\ Return
    BY DEF RelocAdds, At
  <1>2. Len(stack) \in Nat \ {0} /\ Top = stack[Len(stack)] /\ m \in Modules
    BY <1>1, TopFrame DEF Frame
  <1>3. /\ Len(stack') = Len(stack) - 1
        /\ \A i \in 1..(Len(stack) - 1) : stack'[i] = stack[i]
    BY <1>1, ReturnStack
  <1>4. \A i \in 1..Len(stack) : stack[i].op \in {"exec", "reloc"}
    BY <1>1, FramesBelow DEF RelocInv
  <1>5. linked[m] /\ usage[m] > 0 /\ relocs[m] = 0
    BY <1>1, <1>2 DEF RelocInv, RelocFrames, Works
  <1>6. \A k \in Modules : relocs'[k] = IF k = m THEN 1 ELSE relocs[k]
    BY <1>1, <1>2, <1>5 DEF TypeOK
  <1>7. \A i \in 1..(Len(stack) - 1) : Works(i, "reloc") => stack[i].mod # m
    BY <1>1, <1>2 DEF RelocInv, OneRelocFrame, Works
  <1>8. \A i \in 1..Len(stack) : stack[i].mod \in Modules
    BY FrameMods
  <1>9. StackOrder'
    BY <1>2, <1>3 DEF RelocInv, StackOrder
  <1>10. RelocFrames'
    BY <1>1, <1>2, <1>3, <1>6, <1>7, <1>8 DEF RelocInv, RelocFrames, Works
  <1>11. FreeFrames'
    BY <1>2, <1>3, <1>4 DEF FreeFrames, Works
  <1>12. OneRelocFrame'
    BY <1>2, <1>3 DEF RelocInv, OneRelocFrame, Works
  <1>13. RelocatedOnce'
    BY <1>1, <1>5, <1>6 DEF RelocInv, RelocatedOnce
  <1>14. CountedRelocated'
    <2>1. SUFFICES ASSUME NEW k \in Modules, usage[k] > 0, k # m, relocs[k] # 1
                   PROVE  \E i \in 1..Len(stack') : Works(i, "reloc")' /\ stack'[i].mod = k
      BY <1>1, <1>6 DEF CountedRelocated
    <2>2. PICK i \in 1..Len(stack) : Works(i, "reloc") /\ stack[i].mod = k
      BY <2>1 DEF RelocInv, CountedRelocated
    <2>3. QED
      BY <2>1, <2>2, <1>2, <1>3 DEF Works
  <1>15. QED
    BY <1>9, <1>10, <1>11, <1>12, <1>13, <1>14 DEF RelocInv

\* A module still used after one user left keeps its relocation.
LEMMA UnloadSharedKeeps ==
    ASSUME TypeOK, RelocInv, UnloadShared
    PROVE  RelocInv'
  <1> DEFINE m == Top.mod
  <1>1. /\ stack # <<>> /\ Top.op = "unload" /\ usage[m] # 1
        /\ usage' = [usage EXCEPT ![m] = @ - 1]
        /\ UNCHANGED <<linked, relocs>> /\ Return
    BY DEF UnloadShared, At
  <1>2. Len(stack) \in Nat \ {0} /\ Top = stack[Len(stack)] /\ m \in Modules
    BY <1>1, TopFrame DEF Frame
  <1>3. /\ Len(stack') = Len(stack) - 1
        /\ \A i \in 1..(Len(stack) - 1) : stack'[i] = stack[i]
    BY <1>1, ReturnStack
  <1>4. \A i \in 1..Len(stack) : stack[i].op \in {"exec", "unload"}
    BY <1>1, FramesBelow DEF RelocInv
  <1>5. \A k \in Modules : usage[k] \in Int /\ usage'[k] \in Int
            /\ (usage[k] > 0 <=> usage'[k] > 0)
    BY <1>1, <1>2 DEF TypeOK
  <1>6. \A i \in 1..Len(stack) : stack[i].mod \in Modules
    BY FrameMods
  <1>7. StackOrder'
    BY <1>2, <1>3 DEF RelocInv, StackOrder
  <1>8. RelocFrames' /\ OneRelocFrame'
    BY <1>2, <1>3, <1>4 DEF RelocFrames, OneRelocFrame, Works
  <1>9. FreeFrames'
    BY <1>1, <1>2, <1>3, <1>5, <1>6 DEF RelocInv, FreeFrames, Works
  <1>10. RelocatedOnce'
    BY <1>1, <1>5 DEF RelocInv, RelocatedOnce
  <1>11. CountedRelocated'
    BY <1>1, <1>4, <1>5 DEF RelocInv, CountedRelocated, Works
  <1>12. QED
    BY <1>7, <1>8, <1>9, <1>10, <1>11 DEF RelocInv

\* The last user leaves a relocated module, and its relocation is undone.
LEMMA UnloadLastKeeps ==
    ASSUME TypeOK, RelocInv, UnloadLast
    PROVE  RelocInv'
  <1> DEFINE m == Top.mod
  <1>1. /\ stack # <<>> /\ Top.op = "unload" /\ usage[m] = 1
        /\ usage' = [usage EXCEPT ![m] = 0]
        /\ relocs' = [relocs EXCEPT ![m] = @ - 1]
        /\ linked' = linked /\ Goto("libs", 1)
    BY DEF UnloadLast, At
  <1>2. Len(stack) \in Nat \ {0} /\ Top = stack[Len(stack)] /\ m \in Modules
    BY <1>1, TopFrame DEF Frame
  <1>3. /\ Len(stack') = Len(stack)
        /\ \A i \in 1..(Len(stack) - 1) : stack'[i] = stack[i]
        /\ stack'[Len(stack)] = [op |-> Top.op, mod |-> Top.mod, pc |-> "libs", idx |-> 1]
    BY <1>1, GotoStack DEF Places
  <1>4. stack'[Len(stack)].op = "unload" /\ stack'[Len(stack)].mod = m
    BY <1>1, <1>3
  <1>5. \A i \in 1..Len(stack) : stack[i].op \in {"exec", "unload"}
    BY <1>1, FramesBelow DEF RelocInv
  <1>6. \A i \in 1..Len(stack') : stack'[i].op \in {"exec", "unload"}
    BY <1>2, <1>3, <1>4, <1>5
  <1>7. relocs[m] = 1
    BY <1>1, <1>2, <1>5 DEF RelocInv, CountedRelocated, Works
  <1>8. \A k \in Modules : /\ usage'[k] = IF k = m THEN 0 ELSE usage[k]
                           /\ relocs'[k] = IF k = m THEN 0 ELSE relocs[k]
    BY <1>1, <1>2, <1>7 DEF TypeOK
  <1>9. \A i \in 1..Len(stack) : stack[i].mod \in Modules
    BY FrameMods
  <1>10. StackOrder'
    BY <1>1, <1>2, <1>3, <1>4 DEF RelocInv, StackOrder
  <1>11. RelocFrames' /\ OneRelocFrame'
    BY <1>6 DEF RelocFrames, OneRelocFrame, Works
  <1>12. FreeFrames'
    BY <1>2, <1>3, <1>4, <1>8, <1>9 DEF RelocInv, FreeFrames, Works
  <1>13. RelocatedOnce'
    BY <1>1, <1>8 DEF RelocInv, RelocatedOnce
  <1>14. CountedRelocated'
    BY <1>5, <1>8 DEF RelocInv, CountedRelocated, Works
  <1>15. QED
    BY <1>10, <1>11, <1>12, <1>13, <1>14 DEF RelocInv

\* Executing a program: under it there are only frames of exec.
LEMMA ExecKeeps ==
    ASSUME TypeOK, RelocInv, NEW m \in Modules, ExecLoads(m)
    PROVE  RelocInv'
  <1>1. /\ UNCHANGED <<linked, usage, relocs>>
        /\ stack = <<>> \/ Top.op = "exec"
    BY DEF ExecLoads, Quiet, Idle, InProgram, At, heap
  <1>2. Len(stack) \in Nat
    BY LenProperties DEF TypeOK
  <1>3. /\ stack' \in Seq(Frame)
        /\ Len(stack') = Len(stack) + 2
        /\ \A i \in 1..Len(stack) : stack'[i] = stack[i]
        /\ stack'[Len(stack) + 1].op = "exec" /\ stack'[Len(stack) + 1].pc = "setup"
        /\ stack'[Len(stack) + 2].op = "setup" /\ stack'[Len(stack) + 2].pc = "enter"
    <2>1. /\ ExecFrame(m).op = "exec" /\ ExecFrame(m).pc = "setup"
          /\ Call("setup", m).op = "setup" /\ Call("setup", m).pc = "enter"
      BY DEF ExecFrame, Call
    <2>2. stack' = Append(Append(stack, ExecFrame(m)), Call("setup", m))
      BY DEF ExecLoads
    <2>3. QED
      BY <2>1, <2>2, ExecStack
  <1>4. \A i \in 1..Len(stack) : stack[i].op = "exec"
    <2>1. CASE stack = <<>>
      BY <2>1, EmptySeq DEF Frame
    <2>2. CASE stack # <<>>
      BY <2>2, <1>1, FramesBelow DEF RelocInv
    <2>3. QED
      BY <2>1, <2>2
  <1>5. \A i \in 1..Len(stack') :
            i \in 1..Len(stack) \/ i = Len(stack) + 1 \/ i = Len(stack) + 2
    BY <1>2, <1>3
  <1>6. StackOrder'
    BY <1>2, <1>3, <1>4, <1>5 DEF StackOrder
  <1>7. QED
    BY <1>1, <1>2, <1>3, <1>4, <1>5, <1>6, SameWork DEF Works

\* A throw drops frames of exec only.
LEMMA ThrowStopKeeps ==
    ASSUME TypeOK, RelocInv, ThrowStop
    PROVE  RelocInv'
  <1>1. /\ UNCHANGED <<linked, usage, relocs>> /\ stack # <<>> /\ Top.op = "exec"
    BY DEF ThrowStop, At, heap
  <1>2. stack' \in Seq(Frame)
    BY NextType DEF Next, ThrowStep, TypeOK
  <1>3. \A i \in 1..Len(stack) : stack[i].op = "exec"
    BY <1>1, FramesBelow DEF RelocInv
  <1>4. /\ Front(stack) \in Seq(Frame)
        /\ Len(stack) \in Nat \ {0}
        /\ Len(Front(stack)) = Len(stack) - 1
        /\ \A i \in 1..(Len(stack) - 1) : Front(stack)[i].op = "exec"
    <2>1. stack \in Seq(Frame)
      BY DEF TypeOK
    <2>2. /\ Front(stack) \in Seq(Frame)
          /\ Len(stack) \in Nat \ {0}
          /\ Len(Front(stack)) = Len(stack) - 1
          /\ \A i \in 1..(Len(stack) - 1) : Front(stack)[i] = stack[i]
      BY <2>1, <1>1, FrontFrames
    <2>3. QED
      BY <2>2, <1>3
  <1>5. \A i \in 1..Len(stack') : stack'[i].op = "exec"
    <2>1. CASE Front(stack) = <<>>
      BY <2>1, EmptySeq DEF ThrowStop
    <2>2. CASE Front(stack) # <<>>
      <3> DEFINE o == Front(stack)
                 f == [Last(o) EXCEPT !.pc = "caught"]
      <3>1. Last(o) = o[Len(o)] /\ Last(o) \in Frame /\ Len(o) \in Nat \ {0}
        BY <1>4, <2>2, FrontFrames
      <3>2. f \in Frame /\ f.op = "exec"
        BY <1>4, <3>1 DEF Frame, Places
      <3>3. stack' = Append(Front(o), f)
        BY <2>2 DEF ThrowStop
      <3>4. \A i \in 1..(Len(o) - 1) : o[i].op = "exec"
        BY <1>4, <3>1
      <3> HIDE DEF f, o
      <3>5. o \in Seq(Frame) /\ o # <<>>
        BY <1>4, <2>2 DEF o
      <3>6. /\ Len(stack') = Len(o)
            /\ \A i \in 1..(Len(o) - 1) : stack'[i] = o[i]
            /\ stack'[Len(o)] = f
        BY <3>2, <3>3, <3>5, ResumedFrames
      <3>7. QED
        BY <3>1, <3>2, <3>4, <3>6
    <2>3. QED
      BY <2>1, <2>2
  <1>6. StackOrder'
    BY <1>5 DEF StackOrder
  <1>7. QED
    BY <1>1, <1>2, <1>3, <1>5, <1>6, SameWork DEF Works

\* Every step keeps the invariant.
LEMMA NextReloc ==
    ASSUME TypeOK, RelocInv, [Next]_vars
    PROVE  RelocInv'
  <1>1. ASSUME stack # <<>> PROVE Top \in Frame /\ Top.mod \in Modules /\ Top.idx \in Nat
    BY <1>1, TopFrame DEF Frame
  <1>2. /\ {"setup", "cleanup", "reloc", "unload"} \subseteq Routines
        /\ {"setup", "cleanup", "reloc", "unload", "run", "caught", "find", "lib", "libs"}
               \subseteq Places
        /\ 0 \in Nat
    BY DEF Routines, Places
  <1>3. CASE ExecFails
    BY <1>3, ReturnKeeps DEF ExecFails, At, heap
  <1>4. CASE ExecReturns
    BY <1>4, ReturnKeeps DEF ExecReturns, At, heap
  <1>5. CASE SetupAlreadyDone
    BY <1>5, ReturnKeeps DEF SetupAlreadyDone, SetupFails, At, heap
  <1>6. CASE SetupTooOld
    BY <1>6, ReturnKeeps DEF SetupTooOld, SetupFails, At, heap
  <1>7. CASE SetupIncompatible
    BY <1>7, ReturnKeeps DEF SetupIncompatible, SetupFails, At, heap
  <1>8. CASE SetupNoMemory
    BY <1>8, ReturnKeeps DEF SetupNoMemory, Allocates, SetupFails, At, heap
  <1>9. CASE SetupLibMissing
    BY <1>9, ReturnKeeps DEF SetupLibMissing, SetupFails, At, heap
  <1>10. CASE SetupRangeError
    BY <1>10, ReturnKeeps DEF SetupRangeError, At, heap
  <1>11. CASE CleanupNothing
    BY <1>11, ReturnKeeps DEF CleanupNothing, At, heap
  <1>12. CASE ExecRuns
    BY <1>12, <1>2, GotoKeeps DEF ExecRuns, At, heap
  <1>13. CASE ProgramThrows
    BY <1>13, <1>2, GotoKeeps DEF ProgramThrows, InProgram, At, heap
  <1>14. CASE LoadRelocates
    BY <1>14, <1>1, <1>2, GoCallKeeps DEF LoadRelocates, At, heap
  <1>15. CASE LoadCleansUp
    BY <1>15, <1>1, <1>2, GoCallKeeps DEF LoadCleansUp, At, heap
  <1>16. CASE ProgramReturns
    BY <1>16, <1>1, <1>2, GoCallKeeps DEF ProgramReturns, InProgram, At, heap
  <1>17. CASE SetupRecurses
    BY <1>17, <1>1, <1>2, GoCallKeeps DEF SetupRecurses, FindsLib, At
  <1>18. CASE SetupPseudolib
    <2>1. /\ stack # <<>> /\ Top.op = "setup" /\ Top.pc # "libs"
          /\ UNCHANGED <<linked, usage, relocs>>
          /\ Return \/ Goto("find", Top.idx + 1)
      BY <1>18 DEF SetupPseudolib, FindsLib, NextLib, At, heap
    <2>2. Top.idx + 1 \in Nat
      BY <2>1, <1>1
    <2>3. CASE Return
      BY <2>1, <2>3, ReturnKeeps
    <2>4. CASE Goto("find", Top.idx + 1)
      BY <2>1, <2>2, <2>4, <1>2, GotoKeeps
    <2>5. QED
      BY <2>1, <2>3, <2>4
  <1>19. CASE SetupLibDone
    <2>1. /\ stack # <<>> /\ Top.op = "setup" /\ Top.pc # "libs"
          /\ UNCHANGED <<linked, usage, relocs>>
          /\ Return \/ Goto("find", Top.idx + 1)
      BY <1>19 DEF SetupLibDone, NextLib, At, heap
    <2>2. Top.idx + 1 \in Nat
      BY <2>1, <1>1
    <2>3. CASE Return
      BY <2>1, <2>3, ReturnKeeps
    <2>4. CASE Goto("find", Top.idx + 1)
      BY <2>1, <2>2, <2>4, <1>2, GotoKeeps
    <2>5. QED
      BY <2>1, <2>3, <2>4
  <1>20. CASE CleanupLib
    <2>1. /\ stack # <<>> /\ Top.op = "cleanup" /\ Top.pc = "libs"
          /\ UNCHANGED <<linked, usage, relocs>>
          /\ \/ /\ Lib(Top.mod, Top.idx) \in Modules
                /\ GoCall("libs", Top.idx + 1, "cleanup", Lib(Top.mod, Top.idx))
             \/ Goto("libs", Top.idx + 1)
      BY <1>20 DEF CleanupLib, At, heap
    <2>2. Top.idx + 1 \in Nat
      BY <2>1, <1>1
    <2>3. CASE Goto("libs", Top.idx + 1)
      BY <2>1, <2>2, <2>3, <1>2, GotoKeeps
    <2>4. CASE /\ Lib(Top.mod, Top.idx) \in Modules
               /\ GoCall("libs", Top.idx + 1, "cleanup", Lib(Top.mod, Top.idx))
      BY <2>1, <2>2, <2>4, <1>2, GoCallKeeps
    <2>5. QED
      BY <2>1, <2>3, <2>4
  <1>21. CASE RecurseLib("reloc")
    <2>1. /\ stack # <<>> /\ Top.op = "reloc" /\ Top.pc = "libs"
          /\ UNCHANGED <<linked, usage, relocs>>
          /\ \/ /\ Lib(Top.mod, Top.idx) \in Modules
                /\ GoCall("libs", Top.idx + 1, "reloc", Lib(Top.mod, Top.idx))
             \/ Goto("libs", Top.idx + 1)
      BY <1>21 DEF RecurseLib, At, heap
    <2>2. Top.idx + 1 \in Nat
      BY <2>1, <1>1
    <2>3. CASE Goto("libs", Top.idx + 1)
      BY <2>1, <2>2, <2>3, <1>2, GotoKeeps
    <2>4. CASE /\ Lib(Top.mod, Top.idx) \in Modules
               /\ GoCall("libs", Top.idx + 1, "reloc", Lib(Top.mod, Top.idx))
      BY <2>1, <2>2, <2>4, <1>2, GoCallKeeps
    <2>5. QED
      BY <2>1, <2>3, <2>4
  <1>22. CASE RecurseLib("unload")
    <2>1. /\ stack # <<>> /\ Top.op = "unload" /\ Top.pc = "libs"
          /\ UNCHANGED <<linked, usage, relocs>>
          /\ \/ /\ Lib(Top.mod, Top.idx) \in Modules
                /\ GoCall("libs", Top.idx + 1, "unload", Lib(Top.mod, Top.idx))
             \/ Goto("libs", Top.idx + 1)
      BY <1>22 DEF RecurseLib, At, heap
    <2>2. Top.idx + 1 \in Nat
      BY <2>1, <1>1
    <2>3. CASE Goto("libs", Top.idx + 1)
      BY <2>1, <2>2, <2>3, <1>2, GotoKeeps
    <2>4. CASE /\ Lib(Top.mod, Top.idx) \in Modules
               /\ GoCall("libs", Top.idx + 1, "unload", Lib(Top.mod, Top.idx))
      BY <2>1, <2>2, <2>4, <1>2, GoCallKeeps
    <2>5. QED
      BY <2>1, <2>3, <2>4
  <1>23. CASE SetupAllocates
    BY <1>23, AllocateKeeps
  <1>24. CASE CleanupStarts
    BY <1>24, CleanupStartKeeps
  <1>25. CASE CleanupFrees
    BY <1>25, FreeKeeps DEF CleanupFrees, At
  <1>26. CASE UnloadFrees
    BY <1>26, FreeKeeps DEF UnloadFrees, At
  <1>27. CASE RelocShared
    BY <1>27, RelocSharedKeeps
  <1>28. CASE RelocFirst
    BY <1>28, RelocFirstKeeps
  <1>29. CASE RelocAdds
    BY <1>29, RelocAddsKeeps
  <1>30. CASE UnloadShared
    BY <1>30, UnloadSharedKeeps
  <1>31. CASE UnloadLast
    BY <1>31, UnloadLastKeeps
  <1>32. CASE ThrowStop
    BY <1>32, ThrowStopKeeps
  <1>33. CASE QuitThrown \/ UNCHANGED vars \/ (\E m \in Modules : ExecRefused(m))
    <2>1. UNCHANGED <<stack, linked, usage, relocs>>
      BY <1>33 DEF QuitThrown, vars, heap, ExecRefused
    <2>2. QED
      BY <2>1 DEF RelocInv, StackOrder, RelocFrames, FreeFrames, OneRelocFrame,
            CountedRelocated, RelocatedOnce, Works
  <1>34. CASE \E m \in Modules : ExecLoads(m)
    BY <1>34, ExecKeeps
  <1>35. QED
    BY <1>3, <1>4, <1>5, <1>6, <1>7, <1>8, <1>9, <1>10, <1>11, <1>12, <1>13,
       <1>14, <1>15, <1>16, <1>17, <1>18, <1>19, <1>20, <1>21, <1>22, <1>23, <1>24,
       <1>25, <1>26, <1>27, <1>28, <1>29, <1>30, <1>31, <1>32, <1>33, <1>34
       DEF Next, KernelStep, ProgramStep, ThrowStep, Halted, ExecSteps, SetupSteps,
           CleanupSteps, RelocSteps, UnloadSteps

(***************************************************************************)
(* The addresses in a module are adjusted at most once, and only while the *)
(* module has a linkinfo block and is counted, whatever the imports, the   *)
(* failures and the nesting of exec calls (module_reloc, module_unload).   *)
(***************************************************************************)
THEOREM RelocatedOnceAlways == Spec => []RelocatedOnce
  <1>1. TypeOK /\ RelocInv /\ [Next]_vars => RelocInv'
    BY NextReloc
  <1>2. RelocInv => RelocatedOnce
    BY DEF RelocInv
  <1>3. QED
    BY <1>1, <1>2, InitReloc, TypeCorrect, PTL DEF Spec

-----------------------------------------------------------------------------
(* The shape of the loader's stack *)

\* The places of each routine.
Shape(f) ==
    \/ f.op = "exec" /\ f.pc \in {"setup", "cleanup", "reloc", "run", "unload", "caught"}
    \/ f.op = "setup" /\ f.pc = "enter"
    \/ f.op = "setup" /\ f.pc \in {"find", "lib"} /\ f.idx \in 1..Len(Imports(f.mod))
    \/ f.op \in {"cleanup", "reloc", "unload"} /\ f.pc = "enter"
    \/ /\ f.op \in {"cleanup", "reloc", "unload"} /\ f.pc = "libs"
       /\ f.idx \in 1..(Len(Imports(f.mod)) + 1)

\* Frame f waits for the call it made, which frame g is.
HasCalled(f, g) ==
    \/ f.op = "exec" /\ f.pc = "run" /\ g.op = "exec"
    \/ f.op = "exec" /\ f.pc = g.op /\ g.mod = f.mod
    \/ /\ f.op = "setup" /\ f.pc = "lib" /\ g.op = "setup"
       /\ g.mod = Lib(f.mod, f.idx)
    \/ /\ f.op \in {"cleanup", "reloc", "unload"} /\ f.pc = "libs" /\ g.op = f.op
       /\ f.idx > 1 /\ g.mod = Lib(f.mod, f.idx - 1)

FoundBound == \A m \in Modules : found[m] <= Len(Imports(m))

StackShape ==
    /\ \A i \in 1..Len(stack) : Shape(stack[i])
    /\ \A i \in 1..(Len(stack) - 1) : HasCalled(stack[i], stack[i + 1])
    /\ stack # <<>> => stack[1].op = "exec"
    /\ FoundBound

\* An import list is a sequence of imports.
LEMMA ImportList ==
    ASSUME TypeOK, NEW m \in Modules
    PROVE  /\ Imports(m) \in Seq(Import)
           /\ Len(Imports(m)) \in Nat
           /\ Imports(m) # <<>> => Len(Imports(m)) >= 1
  <1>1. files[m] \in File
    BY WorldsAssumption DEF TypeOK
  <1>2. Imports(m) \in Seq(Import)
    BY <1>1 DEF Imports, File
  <1>3. Len(Imports(m)) \in Nat
    BY <1>2, LenProperties
  <1>4. QED
    BY <1>2, <1>3, EmptySeq

\* No step changes a file.
LEMMA FilesFixed == [Next]_vars => files' = files
  BY DEF Next, KernelStep, ProgramStep, ThrowStep, Halted, ExecSteps, SetupSteps,
         CleanupSteps, RelocSteps, UnloadSteps, LoadRelocates, LoadCleansUp, ExecFails,
         ExecRuns, ExecReturns, SetupAlreadyDone, SetupTooOld, SetupIncompatible,
         SetupNoMemory, SetupAllocates, SetupLibMissing, SetupRangeError, SetupPseudolib,
         SetupRecurses, SetupLibDone, SetupFails, FindsLib, CleanupNothing, CleanupStarts,
         CleanupLib, CleanupFrees, FreeLinkinfo, RelocShared, RelocFirst, RecurseLib,
         RelocAdds, UnloadShared, UnloadLast, UnloadFrees, ExecRefused, ExecLoads,
         ProgramReturns, ProgramThrows, ThrowStop, QuitThrown, vars

(***************************************************************************)
(* What a step does to the stack: a routine returns, moves on, or calls    *)
(* another; a program is executed; a throw drops the innermost program.    *)
(***************************************************************************)
MovesOn(pc, k)      == Goto(pc, k) /\ Shape(Resume(pc, k))
Calls(pc, k, op, m) == /\ GoCall(pc, k, op, m)
                       /\ Shape(Resume(pc, k))
                       /\ HasCalled(Resume(pc, k), Call(op, m))
StackStep ==
    \/ stack # <<>> /\ Return
    \/ stack # <<>> /\ \E pc \in Places, k \in Nat : MovesOn(pc, k)
    \/ /\ stack # <<>>
       /\ \E pc \in Places, k \in Nat, op \in Routines \ {"exec"}, m \in Modules :
              Calls(pc, k, op, m)
    \/ \E m \in Modules : ExecLoads(m)
    \/ ThrowStop
    \/ stack' = stack

\* Every step of the loader is one of these.
LEMMA StackSteps ==
    ASSUME TypeOK, StackShape, [Next]_vars
    PROVE  StackStep
  <1>1. ASSUME stack # <<>>
        PROVE  /\ Top \in Frame /\ Top.mod \in Modules /\ Top.idx \in Nat
               /\ Shape(Top)
               /\ Len(Imports(Top.mod)) \in Nat
               /\ found[Top.mod] \in Nat /\ found[Top.mod] <= Len(Imports(Top.mod))
    <2>1. Top \in Frame /\ Top.mod \in Modules /\ Top.idx \in Nat
      BY <1>1, TopFrame DEF Frame
    <2>2. Shape(Top)
      BY <1>1, TopFrame DEF StackShape
    <2>3. QED
      BY <2>1, <2>2, ImportList DEF StackShape, FoundBound, TypeOK
  <1>2. CASE \/ ExecFails \/ ExecReturns \/ SetupAlreadyDone \/ SetupTooOld
             \/ SetupIncompatible \/ SetupNoMemory \/ SetupLibMissing \/ SetupRangeError
             \/ CleanupNothing \/ CleanupFrees \/ UnloadFrees \/ RelocShared \/ RelocAdds
             \/ UnloadShared
    BY <1>2 DEF StackStep, ExecFails, ExecReturns, SetupAlreadyDone, SetupTooOld,
         SetupIncompatible, SetupNoMemory, SetupLibMissing, SetupRangeError, SetupFails,
         CleanupNothing, CleanupFrees, UnloadFrees, RelocShared, RelocAdds, UnloadShared,
         FreeLinkinfo, Allocates, At
  <1>3. CASE ExecRuns \/ ProgramThrows
    <2>1. \E pc \in {"run", "caught"} : stack # <<>> /\ Top.op = "exec" /\ Goto(pc, 0)
      BY <1>3 DEF ExecRuns, ProgramThrows, InProgram, At
    <2>2. PICK pc \in {"run", "caught"} : stack # <<>> /\ Top.op = "exec" /\ Goto(pc, 0)
      BY <2>1
    <2>3. pc \in Places /\ 0 \in Nat /\ Shape(Resume(pc, 0))
      BY <2>2 DEF Shape, Resume, Places
    <2>4. QED
      BY <2>2, <2>3 DEF StackStep, MovesOn
  <1>4. CASE CleanupStarts \/ RelocFirst \/ UnloadLast
    <2>1. stack # <<>> /\ Top.op \in {"cleanup", "reloc", "unload"} /\ Goto("libs", 1)
      BY <1>4 DEF CleanupStarts, RelocFirst, UnloadLast, At
    <2>2. "libs" \in Places /\ 1 \in Nat /\ Shape(Resume("libs", 1))
      BY <2>1, <1>1 DEF Shape, Resume, Places
    <2>3. QED
      BY <2>1, <2>2 DEF StackStep, MovesOn
  <1>5. CASE SetupAllocates
    <2>1. /\ stack # <<>> /\ Top.op = "setup"
          /\ Return \/ (Imports(Top.mod) # <<>> /\ Goto("find", 1))
      BY <1>5 DEF SetupAllocates, Allocates, At
    <2>2. "find" \in Places /\ 1 \in Nat
      BY DEF Places
    <2>3. ASSUME Imports(Top.mod) # <<>> PROVE Shape(Resume("find", 1))
      <3>1. Len(Imports(Top.mod)) >= 1
        BY <2>1, <2>3, <1>1, ImportList
      <3>2. QED
        BY <2>1, <1>1, <3>1 DEF Shape, Resume
    <2>4. QED
      BY <2>1, <2>2, <2>3 DEF StackStep, MovesOn
  <1>6. CASE SetupPseudolib \/ SetupLibDone
    <2>1. /\ stack # <<>> /\ Top.op = "setup" /\ Top.pc \in {"find", "lib"}
          /\ \/ Return
             \/ Top.idx # Len(Imports(Top.mod)) /\ Goto("find", Top.idx + 1)
      BY <1>6 DEF SetupPseudolib, SetupLibDone, FindsLib, NextLib, At
    <2>2. "find" \in Places /\ Top.idx + 1 \in Nat
      BY <2>1, <1>1 DEF Places
    <2>3. ASSUME Top.idx # Len(Imports(Top.mod)) PROVE Shape(Resume("find", Top.idx + 1))
      <3>1. Top.idx \in 1..Len(Imports(Top.mod))
        BY <2>1, <1>1 DEF Shape
      <3>2. QED
        BY <2>1, <2>3, <1>1, <3>1 DEF Shape, Resume
    <2>4. QED
      BY <2>1, <2>2, <2>3 DEF StackStep, MovesOn
  <1>7. CASE SetupRecurses
    <2>1. /\ stack # <<>> /\ Top.op = "setup" /\ Top.pc = "find"
          /\ Lib(Top.mod, Top.idx) \in Modules
          /\ GoCall("lib", Top.idx, "setup", Lib(Top.mod, Top.idx))
      BY <1>7 DEF SetupRecurses, FindsLib, At
    <2>2. "lib" \in Places /\ "setup" \in Routines \ {"exec"}
      BY DEF Places, Routines
    <2>3. Shape(Resume("lib", Top.idx))
      BY <2>1, <1>1 DEF Shape, Resume
    <2>4. HasCalled(Resume("lib", Top.idx), Call("setup", Lib(Top.mod, Top.idx)))
      BY <2>1 DEF HasCalled, Resume, Call
    <2>5. QED
      BY <2>1, <2>2, <2>3, <2>4, <1>1 DEF StackStep, Calls
  <1>8. CASE LoadRelocates \/ LoadCleansUp \/ ProgramReturns
    <2>1. \E op \in {"reloc", "cleanup", "unload"} :
             stack # <<>> /\ Top.op = "exec" /\ GoCall(op, 0, op, Top.mod)
      BY <1>8 DEF LoadRelocates, LoadCleansUp, ProgramReturns, InProgram, At
    <2>2. PICK op \in {"reloc", "cleanup", "unload"} :
             stack # <<>> /\ Top.op = "exec" /\ GoCall(op, 0, op, Top.mod)
      BY <2>1
    <2>3. op \in Places /\ op \in Routines \ {"exec"} /\ 0 \in Nat
      BY DEF Places, Routines
    <2>4. Shape(Resume(op, 0)) /\ HasCalled(Resume(op, 0), Call(op, Top.mod))
      BY <2>2 DEF Shape, HasCalled, Resume, Call
    <2>5. QED
      BY <2>2, <2>3, <2>4, <1>1 DEF StackStep, Calls
  <1>9. CASE CleanupLib \/ RecurseLib("reloc") \/ RecurseLib("unload")
    <2>1. /\ stack # <<>> /\ Top.op \in {"cleanup", "reloc", "unload"} /\ Top.pc = "libs"
          /\ \/ Goto("libs", Top.idx + 1)
             \/ /\ Lib(Top.mod, Top.idx) \in Modules
                /\ GoCall("libs", Top.idx + 1, Top.op, Lib(Top.mod, Top.idx))
      BY <1>9 DEF CleanupLib, RecurseLib, At
    <2>2. Top.idx <= Len(Imports(Top.mod))
      BY <1>9, <1>1, <2>1 DEF CleanupLib, RecurseLib, At
    <2>3. Top.idx \in 1..(Len(Imports(Top.mod)) + 1)
      BY <2>1, <1>1 DEF Shape
    <2>4. "libs" \in Places /\ Top.op \in Routines \ {"exec"} /\ Top.idx + 1 \in Nat
      BY <2>1, <1>1 DEF Places, Routines
    <2>5. Shape(Resume("libs", Top.idx + 1))
      BY <2>1, <2>2, <2>3, <1>1 DEF Shape, Resume
    <2>6. HasCalled(Resume("libs", Top.idx + 1), Call(Top.op, Lib(Top.mod, Top.idx)))
      BY <2>1, <2>3, <1>1 DEF HasCalled, Resume, Call
    <2>7. QED
      BY <2>1, <2>4, <2>5, <2>6 DEF StackStep, MovesOn, Calls
  <1>10. CASE \/ QuitThrown \/ UNCHANGED vars \/ (\E m \in Modules : ExecRefused(m))
              \/ (\E m \in Modules : ExecLoads(m)) \/ ThrowStop
    BY <1>10 DEF StackStep, QuitThrown, vars, ExecRefused
  <1>11. QED
    BY <1>2, <1>3, <1>4, <1>5, <1>6, <1>7, <1>8, <1>9, <1>10
       DEF Next, KernelStep, ProgramStep, ThrowStep, Halted, ExecSteps, SetupSteps,
           CleanupSteps, RelocSteps, UnloadSteps

\* The found part of a handle list is never longer than the import list.
LEMMA FoundKept ==
    ASSUME TypeOK, StackShape, [Next]_vars
    PROVE  FoundBound'
  <1>1. files' = files
    BY FilesFixed
  <1>2. \A m \in Modules : found[m] \in Nat /\ Len(Imports(m)) \in Nat
    BY ImportList DEF TypeOK
  <1>3. ASSUME stack # <<>>
        PROVE  /\ Top.mod \in Modules /\ Top.idx \in Nat
               /\ Shape(Top)
    BY <1>3, TopFrame DEF Frame, StackShape
  <1>4. CASE found' = found
    BY <1>1, <1>4 DEF FoundBound, StackShape, Imports
  <1>5. CASE stack # <<>> /\ found' = [found EXCEPT ![Top.mod] = 0]
    BY <1>1, <1>2, <1>3, <1>5 DEF FoundBound, StackShape, Imports, TypeOK
  <1>6. CASE /\ stack # <<>> /\ Top.op = "setup" /\ Top.pc = "find"
             /\ found' = [found EXCEPT ![Top.mod] = Top.idx]
    <2>1. Top.idx <= Len(Imports(Top.mod))
      BY <1>3, <1>6 DEF Shape
    <2>2. QED
      BY <1>1, <1>2, <1>3, <1>6, <2>1 DEF FoundBound, StackShape, Imports, TypeOK
  <1>7. \/ found' = found
        \/ stack # <<>> /\ found' = [found EXCEPT ![Top.mod] = 0]
        \/ /\ stack # <<>> /\ Top.op = "setup" /\ Top.pc = "find"
           /\ found' = [found EXCEPT ![Top.mod] = Top.idx]
    <2>1. CASE SetupAllocates
      BY <2>1 DEF SetupAllocates, Allocates, At
    <2>2. CASE SetupRangeError \/ SetupPseudolib \/ SetupRecurses
      BY <2>2 DEF SetupRangeError, SetupPseudolib, SetupRecurses, FindsLib, At
    <2>3. CASE CleanupFrees \/ UnloadFrees
      BY <2>3 DEF CleanupFrees, UnloadFrees, FreeLinkinfo, At
    <2>4. CASE \/ ExecSteps \/ ProgramStep \/ ThrowStep \/ RelocSteps
      BY <2>4 DEF ExecSteps, ProgramStep, ThrowStep, RelocSteps, LoadRelocates, LoadCleansUp,
           ExecFails, ExecRuns, ExecReturns, ExecRefused, ExecLoads, ProgramReturns,
           ProgramThrows, ThrowStop, QuitThrown, RelocShared, RelocFirst, RecurseLib,
           RelocAdds, heap
    <2>5. CASE \/ SetupAlreadyDone \/ SetupTooOld \/ SetupIncompatible \/ SetupNoMemory
               \/ SetupLibMissing \/ SetupLibDone \/ CleanupNothing \/ CleanupStarts
               \/ CleanupLib \/ UnloadShared \/ UnloadLast \/ RecurseLib("unload")
               \/ UNCHANGED vars
      BY <2>5 DEF SetupAlreadyDone, SetupTooOld, SetupIncompatible, SetupNoMemory,
           SetupLibMissing, SetupLibDone, SetupFails, CleanupNothing, CleanupStarts,
           CleanupLib, UnloadShared, UnloadLast, RecurseLib, heap, vars
    <2>6. QED
      BY <2>1, <2>2, <2>3, <2>4, <2>5 DEF Next, KernelStep, Halted, SetupSteps,
           CleanupSteps, UnloadSteps
  <1>8. QED
    BY <1>4, <1>5, <1>6, <1>7

\* At first there is no frame.
LEMMA InitShape == Init => StackShape
  BY EmptySeq, ImportList, InitType DEF Init, StackShape, FoundBound

\* A step leaves every frame in a shape its routine can have.
LEMMA NextShape ==
    ASSUME TypeOK, StackShape, [Next]_vars
    PROVE  StackShape'
  <1>0. files' = files /\ FoundBound' /\ Len(stack) \in Nat
    BY FilesFixed, FoundKept, LenProperties DEF TypeOK
  <1>1. SUFFICES /\ \A i \in 1..Len(stack') : Shape(stack'[i])
                 /\ \A i \in 1..(Len(stack') - 1) : HasCalled(stack'[i], stack'[i + 1])
                 /\ stack' # <<>> => stack'[1].op = "exec"
    <2>2. ASSUME \A i \in 1..Len(stack') : Shape(stack'[i])
          PROVE  \A i \in 1..Len(stack') : Shape(stack[i])'
      BY <1>0, <2>2 DEF Shape, Imports
    <2>3. ASSUME \A i \in 1..(Len(stack') - 1) : HasCalled(stack'[i], stack'[i + 1])
          PROVE  \A i \in 1..(Len(stack') - 1) : HasCalled(stack[i], stack[i + 1])'
      BY <1>0, <2>3 DEF HasCalled, Lib, Imports
    <2>4. QED
      BY <1>0, <2>2, <2>3 DEF StackShape
  <1>2. /\ \A i \in 1..Len(stack) : Shape(stack[i])
        /\ \A i \in 1..(Len(stack) - 1) : HasCalled(stack[i], stack[i + 1])
        /\ stack # <<>> => stack[1].op = "exec"
    BY DEF StackShape
  <1>3. ASSUME stack # <<>>
        PROVE  Len(stack) \in Nat \ {0} /\ Top = stack[Len(stack)] /\ Top \in Frame
    BY <1>3, TopFrame
  <1>4. CASE stack # <<>> /\ Return
    <2>1. /\ Len(stack') = Len(stack) - 1
          /\ \A i \in 1..(Len(stack) - 1) : stack'[i] = stack[i]
          /\ stack' \in Seq(Frame)
      BY <1>4, ReturnStack
    <2>2. stack' # <<>> => 1 \in 1..(Len(stack) - 1)
      BY <1>3, <1>4, <2>1, EmptySeq
    <2>3. QED
      BY <1>2, <1>3, <1>4, <2>1, <2>2
  <1>5. ASSUME stack # <<>>, NEW pc \in Places, NEW k \in Nat, MovesOn(pc, k)
        PROVE  /\ \A i \in 1..Len(stack') : Shape(stack'[i])
               /\ \A i \in 1..(Len(stack') - 1) : HasCalled(stack'[i], stack'[i + 1])
               /\ stack' # <<>> => stack'[1].op = "exec"
    <2>1. /\ Len(stack') = Len(stack)
          /\ \A i \in 1..(Len(stack) - 1) : stack'[i] = stack[i]
          /\ stack'[Len(stack)] = Resume(pc, k)
          /\ Resume(pc, k).op = Top.op /\ Resume(pc, k).mod = Top.mod
      BY <1>5, GotoStack DEF MovesOn, Resume
    <2>2. Shape(Resume(pc, k))
      BY <1>5 DEF MovesOn
    <2>3. \A i \in 1..(Len(stack) - 1) : HasCalled(stack[i], stack'[i + 1])
      <3>1. \A f : HasCalled(f, Top) => HasCalled(f, Resume(pc, k))
        BY <2>1 DEF HasCalled
      <3>2. QED
        BY <1>2, <1>3, <1>5, <2>1, <3>1
    <2>4. QED
      BY <1>2, <1>3, <1>5, <2>1, <2>2, <2>3
  <1>6. ASSUME stack # <<>>, NEW pc \in Places, NEW k \in Nat,
               NEW op \in Routines \ {"exec"}, NEW m \in Modules, Calls(pc, k, op, m)
        PROVE  /\ \A i \in 1..Len(stack') : Shape(stack'[i])
               /\ \A i \in 1..(Len(stack') - 1) : HasCalled(stack'[i], stack'[i + 1])
               /\ stack' # <<>> => stack'[1].op = "exec"
    <2>1. /\ Len(stack') = Len(stack) + 1
          /\ \A i \in 1..(Len(stack) - 1) : stack'[i] = stack[i]
          /\ stack'[Len(stack)] = Resume(pc, k)
          /\ stack'[Len(stack) + 1] = Call(op, m)
          /\ Resume(pc, k).op = Top.op /\ Resume(pc, k).mod = Top.mod
      BY <1>6, GoCallStack DEF Calls, Resume, Call
    <2>2. /\ Shape(Resume(pc, k)) /\ Shape(Call(op, m))
          /\ HasCalled(Resume(pc, k), Call(op, m))
      BY <1>6 DEF Calls, Call, Shape, Routines
    <2>3. \A i \in 1..(Len(stack) - 1) : HasCalled(stack[i], stack'[i + 1])
      <3>1. \A f : HasCalled(f, Top) => HasCalled(f, Resume(pc, k))
        BY <2>1 DEF HasCalled
      <3>2. QED
        BY <1>2, <1>3, <1>6, <2>1, <3>1
    <2>4. QED
      BY <1>2, <1>3, <1>6, <2>1, <2>2, <2>3
  <1>7. ASSUME NEW m \in Modules, ExecLoads(m)
        PROVE  /\ \A i \in 1..Len(stack') : Shape(stack'[i])
               /\ \A i \in 1..(Len(stack') - 1) : HasCalled(stack'[i], stack'[i + 1])
               /\ stack' # <<>> => stack'[1].op = "exec"
    <2>1. /\ Len(stack') = Len(stack) + 2
          /\ \A i \in 1..Len(stack) : stack'[i] = stack[i]
          /\ stack'[Len(stack) + 1] = ExecFrame(m)
          /\ stack'[Len(stack) + 2] = Call("setup", m)
      BY <1>7, ExecStack
    <2>2. /\ Shape(ExecFrame(m)) /\ Shape(Call("setup", m))
          /\ HasCalled(ExecFrame(m), Call("setup", m))
          /\ ExecFrame(m).op = "exec"
      BY DEF ExecFrame, Call, Shape, HasCalled
    <2>3. stack # <<>> => HasCalled(Top, ExecFrame(m))
      BY <1>7 DEF ExecLoads, Quiet, Idle, InProgram, At, HasCalled, ExecFrame
    <2>4. stack = <<>> => Len(stack) = 0
      OBVIOUS
    <2>5. \A i \in 1..Len(stack') :
             i \in 1..Len(stack) \/ i = Len(stack) + 1 \/ i = Len(stack) + 2
      BY <1>0, <2>1
    <2>6. \A i \in 1..(Len(stack') - 1) :
             \/ i \in 1..(Len(stack) - 1) /\ i + 1 \in 1..Len(stack)
             \/ stack # <<>> /\ i = Len(stack)
             \/ i = Len(stack) + 1
      BY <1>0, <2>1, <2>4
    <2>7. \A i \in 1..(Len(stack') - 1) : HasCalled(stack'[i], stack'[i + 1])
      <3>1. SUFFICES ASSUME NEW i \in 1..(Len(stack') - 1)
                     PROVE  HasCalled(stack'[i], stack'[i + 1])
        OBVIOUS
      <3>2. CASE i \in 1..(Len(stack) - 1) /\ i + 1 \in 1..Len(stack)
        BY <1>0, <1>2, <2>1, <3>2
      <3>3. CASE stack # <<>> /\ i = Len(stack)
        BY <1>3, <2>1, <2>3, <3>3
      <3>4. CASE i = Len(stack) + 1
        BY <1>0, <2>1, <2>2, <3>4
      <3>5. QED
        BY <2>6, <3>2, <3>3, <3>4
    <2>8. stack'[1].op = "exec"
      BY <1>0, <1>2, <1>3, <2>1, <2>2, <2>4
    <2>9. QED
      BY <1>2, <2>1, <2>2, <2>5, <2>7, <2>8
  <1>8. CASE ThrowStop
    <2>1. stack # <<>>
      BY <1>8 DEF ThrowStop, At
    <2> DEFINE outer == Front(stack)
               f == [Last(outer) EXCEPT !.pc = "caught"]
    <2>2. /\ outer \in Seq(Frame) /\ Len(outer) = Len(stack) - 1
          /\ \A i \in 1..(Len(stack) - 1) : outer[i] = stack[i]
      BY <2>1, FrontFrames DEF TypeOK
    <2>3. CASE outer = <<>>
      BY <1>8, <2>3, EmptySeq DEF ThrowStop
    <2>4. CASE outer # <<>>
      <3>1. stack' = Append(Front(outer), f)
        BY <1>8, <2>4 DEF ThrowStop
      <3>2. Len(outer) \in Nat \ {0} /\ Last(outer) = outer[Len(outer)] /\ Last(outer) \in Frame
        BY <2>2, <2>4, FrontFrames
      <3>3. /\ f \in Frame /\ f.op = Last(outer).op /\ f.mod = Last(outer).mod
            /\ f.pc = "caught"
        BY <3>2 DEF Frame, Places
      <3>4. Last(outer).op = "exec"
        <4>1. HasCalled(Last(outer), Top) /\ Top.op = "exec"
          BY <1>2, <1>3, <1>8, <2>1, <2>2, <3>2 DEF ThrowStop, At
        <4>2. QED
          BY <4>1 DEF HasCalled
      <3> HIDE DEF outer, f
      <3>5. /\ Len(stack') = Len(outer)
            /\ \A i \in 1..(Len(outer) - 1) : stack'[i] = outer[i]
            /\ stack'[Len(outer)] = f
        BY <2>2, <2>4, <3>1, <3>3, ResumedFrames
      <3>6. Shape(f)
        BY <3>3, <3>4 DEF Shape
      <3>7. \A g : HasCalled(g, Last(outer)) => HasCalled(g, f)
        BY <3>3 DEF HasCalled
      <3>8. \A i \in 1..(Len(outer) - 1) :
               /\ Shape(outer[i])
               /\ HasCalled(outer[i], outer[i + 1])
        BY <1>2, <1>0, <2>2
      <3>9. \A i \in 1..(Len(outer) - 1) : HasCalled(outer[i], stack'[i + 1])
        <4>1. SUFFICES ASSUME NEW i \in 1..(Len(outer) - 1)
                       PROVE  HasCalled(outer[i], stack'[i + 1])
          OBVIOUS
        <4>2. CASE i = Len(outer) - 1
          BY <3>2, <3>5, <3>7, <3>8, <4>2
        <4>3. CASE i # Len(outer) - 1
          <5>1. i + 1 \in 1..(Len(outer) - 1)
            BY <3>2, <4>3
          <5>2. QED
            BY <3>5, <3>8, <5>1
        <4>4. QED
          BY <4>2, <4>3
      <3>10. stack'[1].op = "exec"
        <4>1. CASE Len(outer) = 1
          BY <3>3, <3>4, <3>5, <4>1
        <4>2. CASE Len(outer) # 1
          <5>1. 1 \in 1..(Len(outer) - 1) /\ 1 \in 1..(Len(stack) - 1)
            BY <3>2, <4>2, <2>2, <1>0
          <5>2. QED
            BY <5>1, <3>5, <2>2, <1>2, <2>1
        <4>3. QED
          BY <4>1, <4>2
      <3>11. QED
        BY <3>2, <3>5, <3>6, <3>8, <3>9, <3>10
    <2>5. QED
      BY <2>3, <2>4
  <1>9. CASE stack' = stack
    BY <1>2, <1>9
  <1>10. QED
    BY <1>4, <1>5, <1>6, <1>7, <1>8, <1>9, StackSteps DEF StackStep

-----------------------------------------------------------------------------
(* Which routine has the processor, and what waits under it *)

\* The frame on top after a step.
LEMMA NewTop ==
    ASSUME TypeOK', stack' # <<>>
    PROVE  /\ Len(stack') \in Nat \ {0}
           /\ Top' = stack'[Len(stack')]
           /\ Top' \in Frame
  <1>1. stack' \in Seq(Frame)
    BY DEF TypeOK
  <1>2. Top' = Last(stack')
    BY DEF Top
  <1>3. QED
    BY <1>1, <1>2, FrontFrames

\* Under the top are exec's frames and those of one routine, all waiting.
LEMMA UnderTop ==
    ASSUME TypeOK, StackOrder, StackShape, stack # <<>>
    PROVE  \A i \in 1..Len(stack) :
               /\ stack[i].op \in {"exec", Top.op}
               /\ i < Len(stack) =>
                     /\ stack[i].pc \notin {"enter", "find", "caught"}
                     /\ stack[i].op = "exec" => stack[i].pc \in {"run", Top.op}
  <1>1. Len(stack) \in Nat \ {0} /\ Top = stack[Len(stack)]
    BY TopFrame
  <1>2. \A i \in 1..Len(stack) : stack[i].op \in {"exec", Top.op} /\ Shape(stack[i])
    BY FramesBelow DEF StackShape
  <1>3. ASSUME NEW i \in 1..(Len(stack) - 1)
        PROVE  /\ stack[i].pc \notin {"enter", "find", "caught"}
               /\ stack[i].op = "exec" => stack[i].pc \in {"run", Top.op}
    <2>1. i + 1 \in 1..Len(stack) /\ i \in 1..Len(stack)
      BY <1>1
    <2>2. HasCalled(stack[i], stack[i + 1]) /\ Shape(stack[i])
      BY <1>2, <2>1 DEF StackShape
    <2>3. stack[i + 1].op \in {"exec", Top.op}
      BY <1>2, <2>1
    <2>4. Shape(stack[i + 1])
      BY <1>2, <2>1
    <2>5. QED
      BY <2>2, <2>3, <2>4 DEF HasCalled, Shape
  <1>4. QED
    BY <1>1, <1>2, <1>3

\* After a return the caller is on top.
LEMMA AfterReturn ==
    ASSUME TypeOK, TypeOK', StackOrder, StackShape, stack # <<>>, Return, stack' # <<>>
    PROVE  /\ Len(stack) - 1 \in 1..Len(stack)
           /\ Len(stack') = Len(stack) - 1
           /\ Top' = stack[Len(stack) - 1]
           /\ HasCalled(Top', Top)
           /\ Shape(Top')
           /\ Top'.op \in {"exec", Top.op}
  <1>1. /\ Len(stack') = Len(stack) - 1
        /\ \A i \in 1..(Len(stack) - 1) : stack'[i] = stack[i]
    BY ReturnStack
  <1>2. Len(stack) \in Nat \ {0} /\ Top = stack[Len(stack)]
    BY TopFrame
  <1>3. Len(stack') \in Nat \ {0} /\ Top' = stack'[Len(stack')]
    BY NewTop
  <1>4. Top' = stack[Len(stack) - 1]
    BY <1>1, <1>2, <1>3
  <1>5. \A i \in 1..Len(stack) : stack[i].op \in {"exec", Top.op} /\ Shape(stack[i])
    BY FramesBelow DEF StackShape
  <1>6. HasCalled(stack[Len(stack) - 1], stack[Len(stack) - 1 + 1])
    BY <1>1, <1>2, <1>3 DEF StackShape
  <1>7. QED
    BY <1>1, <1>2, <1>3, <1>4, <1>5, <1>6

\* After a step inside a routine its frame is still on top.
LEMMA AfterGoto ==
    ASSUME TypeOK, TypeOK', stack # <<>>, NEW pc \in Places, NEW k \in Nat, Goto(pc, k)
    PROVE  /\ stack' # <<>> /\ Len(stack') = Len(stack)
           /\ Top' = [op |-> Top.op, mod |-> Top.mod, pc |-> pc, idx |-> k]
  <1>1. /\ Len(stack') = Len(stack)
        /\ stack'[Len(stack)] = [op |-> Top.op, mod |-> Top.mod, pc |-> pc, idx |-> k]
    BY GotoStack
  <1>2. Len(stack) \in Nat \ {0}
    BY TopFrame
  <1>3. stack' # <<>>
    BY <1>1, <1>2, EmptySeq
  <1>4. QED
    BY <1>1, <1>3, NewTop

\* After a call the routine called is on top.
LEMMA AfterCall ==
    ASSUME TypeOK, TypeOK', stack # <<>>, NEW pc \in Places, NEW k \in Nat,
           NEW op \in Routines, NEW m \in Modules, GoCall(pc, k, op, m)
    PROVE  /\ stack' # <<>> /\ Len(stack') = Len(stack) + 1
           /\ Top' = [op |-> op, mod |-> m, pc |-> "enter", idx |-> 0]
  <1>1. /\ Len(stack') = Len(stack) + 1
        /\ stack'[Len(stack) + 1] = [op |-> op, mod |-> m, pc |-> "enter", idx |-> 0]
    BY GoCallStack
  <1>2. Len(stack) \in Nat \ {0}
    BY TopFrame
  <1>3. stack' # <<>>
    BY <1>1, <1>2, EmptySeq
  <1>4. QED
    BY <1>1, <1>3, NewTop

\* exec starts with module_setup on top.
LEMMA AfterExec ==
    ASSUME TypeOK, TypeOK', NEW m \in Modules, ExecLoads(m)
    PROVE  /\ stack' # <<>> /\ Len(stack') = Len(stack) + 2
           /\ Top' = [op |-> "setup", mod |-> m, pc |-> "enter", idx |-> 0]
  <1>1. Len(stack') = Len(stack) + 2 /\ stack'[Len(stack) + 2] = Call("setup", m)
    BY ExecStack
  <1>2. Len(stack) \in Nat
    BY LenProperties DEF TypeOK
  <1>3. stack' # <<>>
    BY <1>1, <1>2, EmptySeq
  <1>4. QED
    BY <1>1, <1>3, NewTop DEF Call

\* A throw leaves a program that has been thrown at, or nothing.
LEMMA AfterThrow ==
    ASSUME TypeOK, TypeOK', StackShape, ThrowStop
    PROVE  /\ Len(stack) \in Nat \ {0} /\ Len(stack') = Len(stack) - 1
           /\ \A i \in 1..(Len(stack) - 2) : stack'[i] = stack[i]
           /\ stack' # <<>> =>
                 /\ Len(stack) - 1 \in 1..Len(stack)
                 /\ stack[Len(stack) - 1].op = "exec" /\ stack[Len(stack) - 1].pc = "run"
                 /\ Top' = [stack[Len(stack) - 1] EXCEPT !.pc = "caught"]
                 /\ Top'.op = "exec" /\ Top'.pc = "caught"
  <1>1. stack # <<>> /\ Top.op = "exec"
    BY DEF ThrowStop, At
  <1>2. Len(stack) \in Nat \ {0} /\ Top = stack[Len(stack)]
    BY <1>1, TopFrame
  <1> DEFINE outer == Front(stack)
             f == [Last(outer) EXCEPT !.pc = "caught"]
  <1>3. /\ outer \in Seq(Frame) /\ Len(outer) = Len(stack) - 1
        /\ \A i \in 1..(Len(stack) - 1) : outer[i] = stack[i]
    BY <1>1, FrontFrames DEF TypeOK
  <1>4. CASE outer = <<>>
    <2>1. stack' = <<>> /\ Len(outer) = 0
      BY <1>4 DEF ThrowStop
    <2>2. QED
      BY <1>2, <1>3, <1>4, <2>1
  <1>5. CASE outer # <<>>
    <2>1. stack' = Append(Front(outer), f)
      BY <1>5 DEF ThrowStop
    <2>2. Len(outer) \in Nat \ {0} /\ Last(outer) = outer[Len(outer)] /\ Last(outer) \in Frame
      BY <1>3, <1>5, FrontFrames
    <2>3. f \in Frame /\ f.op = Last(outer).op /\ f.pc = "caught"
      BY <2>2 DEF Frame, Places
    <2>4. Last(outer) = stack[Len(stack) - 1]
      BY <1>2, <1>3, <2>2
    <2>5. HasCalled(stack[Len(stack) - 1], stack[Len(stack) - 1 + 1]) /\ Shape(stack[Len(stack) - 1])
      BY <1>2, <1>3, <2>2 DEF StackShape
    <2>6. stack[Len(stack) - 1].op = "exec" /\ stack[Len(stack) - 1].pc = "run"
      BY <1>1, <1>2, <2>5 DEF HasCalled, Shape
    <2> HIDE DEF outer, f
    <2>7. /\ Len(stack') = Len(outer)
          /\ \A i \in 1..(Len(outer) - 1) : stack'[i] = outer[i]
          /\ stack'[Len(outer)] = f
      BY <1>3, <1>5, <2>1, <2>3, ResumedFrames
    <2>8. stack' # <<>>
      BY <2>2, <2>7, EmptySeq
    <2>9. Top' = f
      BY <2>7, <2>8, NewTop
    <2>10. QED
      BY <1>2, <1>3, <2>2, <2>3, <2>4, <2>6, <2>7, <2>9 DEF f
  <1>6. QED
    BY <1>4, <1>5

(***************************************************************************)
(* The steps that can leave one of exec's routines on top of the stack are *)
(* that routine's own, and the step of exec that calls it.                 *)
(***************************************************************************)
StepOf(op) ==
    \/ UNCHANGED vars
    \/ op = "setup" /\ (SetupSteps \/ \E m \in Modules : ExecLoads(m))
    \/ op = "cleanup" /\ (CleanupSteps \/ LoadCleansUp)
    \/ op = "reloc" /\ (RelocSteps \/ LoadRelocates)
    \/ op = "unload" /\ (UnloadSteps \/ ProgramReturns)

\* A routine is on top after its own steps, and after the step of exec that calls it.
LEMMA PhaseSteps ==
    ASSUME TypeOK, TypeOK', StackOrder, StackShape, [Next]_vars,
           stack' # <<>>, Top'.op # "exec"
    PROVE  StepOf(Top'.op)
  <1>1. ASSUME stack # <<>>
        PROVE  Top \in Frame /\ Top.mod \in Modules /\ Top.idx \in Nat /\ Top.idx + 1 \in Nat
    BY <1>1, TopFrame DEF Frame
  <1>2. ASSUME stack # <<>>, Return PROVE Top'.op = Top.op
    BY <1>2, AfterReturn
  <1>3. ASSUME stack # <<>>, NEW pc \in Places, NEW k \in Nat, Goto(pc, k)
        PROVE  Top'.op = Top.op
    BY <1>3, AfterGoto
  <1>4. ASSUME stack # <<>>, NEW pc \in Places, NEW k \in Nat,
               NEW op \in Routines, NEW m \in Modules, GoCall(pc, k, op, m)
        PROVE  Top'.op = op
    BY <1>4, AfterCall
  <1>5. /\ {"setup", "cleanup", "reloc", "unload", "run", "caught", "find", "lib", "libs"}
              \subseteq Places
        /\ {"setup", "cleanup", "reloc", "unload"} \subseteq Routines
        /\ 0 \in Nat /\ 1 \in Nat
    BY DEF Places, Routines
  <1>6. CASE ExecFails \/ ExecReturns
    BY <1>2, <1>6 DEF ExecFails, ExecReturns, At
  <1>7. CASE ExecRuns \/ ProgramThrows
    BY <1>3, <1>5, <1>7 DEF ExecRuns, ProgramThrows, InProgram, At
  <1>8. CASE ThrowStop
    BY <1>8, AfterThrow
  <1>9. CASE QuitThrown \/ \E m \in Modules : ExecRefused(m)
    <2>1. stack # <<>> => Top.op = "exec"
      BY <1>9 DEF QuitThrown, ExecRefused, Quiet, Idle, InProgram, At
    <2>2. stack' = stack
      BY <1>9 DEF QuitThrown, ExecRefused
    <2>3. QED
      BY <2>1, <2>2 DEF Top
  <1>10. CASE \E m \in Modules : ExecLoads(m)
    BY <1>10, AfterExec DEF StepOf
  <1>11. CASE SetupSteps
    <2>1. /\ stack # <<>> /\ Top.op = "setup"
          /\ \/ Return
             \/ \E pc \in Places, k \in Nat : Goto(pc, k)
             \/ \E pc \in Places, k \in Nat, m \in Modules : GoCall(pc, k, "setup", m)
      BY <1>1, <1>5, <1>11 DEF SetupSteps, SetupAlreadyDone, SetupTooOld, SetupIncompatible,
           SetupNoMemory, SetupAllocates, SetupLibMissing, SetupRangeError, SetupPseudolib,
           SetupRecurses, SetupLibDone, SetupFails, Allocates, FindsLib, NextLib, At
    <2>2. Top'.op = "setup"
      BY <1>2, <1>3, <1>4, <1>5, <2>1
    <2>3. QED
      BY <1>11, <2>2 DEF StepOf
  <1>12. CASE CleanupSteps \/ LoadCleansUp
    <2>1. /\ stack # <<>>
          /\ \/ Top.op = "cleanup" /\ Return
             \/ Top.op = "cleanup" /\ \E pc \in Places, k \in Nat : Goto(pc, k)
             \/ \E pc \in Places, k \in Nat, m \in Modules : GoCall(pc, k, "cleanup", m)
      BY <1>1, <1>5, <1>12 DEF CleanupSteps, CleanupNothing, CleanupStarts, CleanupLib,
           CleanupFrees, FreeLinkinfo, LoadCleansUp, At
    <2>2. Top'.op = "cleanup"
      BY <1>2, <1>3, <1>4, <1>5, <2>1
    <2>3. QED
      BY <1>12, <2>2 DEF StepOf
  <1>13. CASE RelocSteps \/ LoadRelocates
    <2>1. /\ stack # <<>>
          /\ \/ Top.op = "reloc" /\ Return
             \/ Top.op = "reloc" /\ \E pc \in Places, k \in Nat : Goto(pc, k)
             \/ \E pc \in Places, k \in Nat, m \in Modules : GoCall(pc, k, "reloc", m)
      BY <1>1, <1>5, <1>13 DEF RelocSteps, RelocShared, RelocFirst, RecurseLib, RelocAdds,
           LoadRelocates, At
    <2>2. Top'.op = "reloc"
      BY <1>2, <1>3, <1>4, <1>5, <2>1
    <2>3. QED
      BY <1>13, <2>2 DEF StepOf
  <1>14. CASE UnloadSteps \/ ProgramReturns
    <2>1. /\ stack # <<>>
          /\ \/ Top.op = "unload" /\ Return
             \/ Top.op = "unload" /\ \E pc \in Places, k \in Nat : Goto(pc, k)
             \/ \E pc \in Places, k \in Nat, m \in Modules : GoCall(pc, k, "unload", m)
      BY <1>1, <1>5, <1>14 DEF UnloadSteps, UnloadShared, UnloadLast, RecurseLib, UnloadFrees,
           FreeLinkinfo, ProgramReturns, InProgram, At
    <2>2. Top'.op = "unload"
      BY <1>2, <1>3, <1>4, <1>5, <2>1
    <2>3. QED
      BY <1>14, <2>2 DEF StepOf
  <1>15. CASE UNCHANGED vars
    BY <1>15 DEF StepOf
  <1>16. QED
    BY <1>6, <1>7, <1>8, <1>9, <1>10, <1>11, <1>12, <1>13, <1>14, <1>15
       DEF Next, KernelStep, ProgramStep, ThrowStep, Halted, ExecSteps

-----------------------------------------------------------------------------
(***************************************************************************)
(* The usage counts.  Who holds a reference on module m: the exec calls    *)
(* that have it relocated or running, the programs that were thrown away,  *)
(* and the imports of it that module_reloc has followed and module_unload  *)
(* has not.                                                                *)
(***************************************************************************)
HoldPlaces   == {"reloc", "run", "caught"}
ExecHolds(m) == {i \in 1..Len(stack) : /\ stack[i].op = "exec"
                                       /\ stack[i].pc \in HoldPlaces
                                       /\ stack[i].mod = m}
GoneHolds(m) == {i \in 1..Len(abandoned) : abandoned[i] = m}

\* the l-th import of n is followed: n is relocated, or its relocation or
\* unloading is under way and has passed, or not yet reached, that import
Holds(n, l) ==
    \/ relocs[n] = 1
    \/ \E i \in 1..Len(stack) :
           Works(i, "reloc") /\ stack[i].mod = n /\ l < stack[i].idx
    \/ \E i \in 1..Len(stack) :
           Works(i, "unload") /\ stack[i].mod = n /\ l >= stack[i].idx
ImportHolds(m) ==
    UNION {{n} \X {l \in 1..Len(Imports(n)) : Lib(n, l) = m /\ Holds(n, l)} : n \in Modules}

\* the call on top is about to count a reference, or to give one up
Pending(m) ==
    IF stack # <<>> /\ Top.pc = "enter" /\ Top.mod = m
    THEN IF Top.op = "reloc" THEN 1 ELSE IF Top.op = "unload" THEN -1 ELSE 0
    ELSE 0

CountOf(m) ==
    /\ usage[m] >= 0
    /\ IsFiniteSet(ImportHolds(m))
    /\ usage[m] + Pending(m) =
         Cardinality(ExecHolds(m)) + Cardinality(GoneHolds(m)) + Cardinality(ImportHolds(m))

OneUnloadFrame ==
    \A i, j \in 1..Len(stack) :
        Works(i, "unload") /\ Works(j, "unload") /\ stack[i].mod = stack[j].mod => i = j

CountInv == OneUnloadFrame /\ \A m \in Modules : CountOf(m)

-----------------------------------------------------------------------------
(* The sets of references *)

\* Sets with the same elements are equal.
LEMMA SameSets ==
    ASSUME NEW S, NEW T, \A x : x \in S <=> x \in T
    PROVE  S = T
  <1>1. S \subseteq T /\ T \subseteq S
    OBVIOUS
  <1>2. QED
    BY <1>1

\* A reference of an import is a pair of a module and a place in its list.
LEMMA ImportRefs ==
    ASSUME NEW m, NEW x
    PROVE  x \in ImportHolds(m) <=>
               \E n \in Modules : \E l \in 1..Len(Imports(n)) :
                   Lib(n, l) = m /\ Holds(n, l) /\ x = <<n, l>>
  BY DEF ImportHolds

\* The frames and the programs that hold a module are finitely many.
LEMMA FinitePlaces ==
    ASSUME TypeOK, NEW m
    PROVE  /\ IsFiniteSet(ExecHolds(m)) /\ Cardinality(ExecHolds(m)) \in Nat
           /\ IsFiniteSet(GoneHolds(m)) /\ Cardinality(GoneHolds(m)) \in Nat
  <1>1. Len(stack) \in Nat /\ Len(abandoned) \in Nat
    BY LenProperties DEF TypeOK
  <1>2. IsFiniteSet(1..Len(stack)) /\ IsFiniteSet(1..Len(abandoned))
    BY <1>1, FS_Interval
  <1>3. ExecHolds(m) \in SUBSET (1..Len(stack)) /\ GoneHolds(m) \in SUBSET (1..Len(abandoned))
    BY DEF ExecHolds, GoneHolds
  <1>4. IsFiniteSet(ExecHolds(m)) /\ IsFiniteSet(GoneHolds(m))
    BY <1>2, <1>3, FS_Subset
  <1>5. QED
    BY <1>4, FS_CardinalityType

\* The same imports are followed: the sets do not change.
LEMMA SameImports ==
    ASSUME files' = files,
           \A n \in Modules : \A l \in 1..Len(Imports(n)) : Holds(n, l)' <=> Holds(n, l),
           NEW m
    PROVE  ImportHolds(m)' = ImportHolds(m)
  <1>1. \A n : Imports(n)' = Imports(n) /\ \A l : Lib(n, l)' = Lib(n, l)
    BY DEF Imports, Lib
  <1>2. \A n \in Modules :
            {l \in 1..Len(Imports(n)) : Lib(n, l) = m /\ Holds(n, l)}'
              = {l \in 1..Len(Imports(n)) : Lib(n, l) = m /\ Holds(n, l)}
    <2>1. SUFFICES ASSUME NEW n \in Modules
                   PROVE  {l \in 1..Len(Imports(n)') : Lib(n, l)' = m /\ Holds(n, l)'}
                            = {l \in 1..Len(Imports(n)) : Lib(n, l) = m /\ Holds(n, l)}
      OBVIOUS
    <2>2. Len(Imports(n)') = Len(Imports(n)) /\ \A l : Lib(n, l)' = Lib(n, l)
      BY <1>1
    <2>3. QED
      BY <2>2
  <1>3. QED
    BY <1>2 DEF ImportHolds

\* One more import is followed.
LEMMA OneMoreImport ==
    ASSUME files' = files, NEW n0 \in Modules, NEW l0 \in 1..Len(Imports(n0)),
           ~Holds(n0, l0),
           \A n \in Modules : \A l \in 1..Len(Imports(n)) :
               Holds(n, l)' <=> Holds(n, l) \/ (n = n0 /\ l = l0),
           NEW m, IsFiniteSet(ImportHolds(m))
    PROVE  /\ IsFiniteSet(ImportHolds(m)')
           /\ Cardinality(ImportHolds(m)') =
                  Cardinality(ImportHolds(m)) + (IF m = Lib(n0, l0) THEN 1 ELSE 0)
  <1>1. \A n : Imports(n)' = Imports(n) /\ \A l : Lib(n, l)' = Lib(n, l)
    BY DEF Imports, Lib
  <1>2. \A x : x \in ImportHolds(m)' <=>
               \E n \in Modules : \E l \in 1..Len(Imports(n)) :
                   Lib(n, l) = m /\ Holds(n, l)' /\ x = <<n, l>>
    <2>1. \A x : x \in ImportHolds(m)' <=>
               \E n \in Modules : \E l \in 1..Len(Imports(n)') :
                   Lib(n, l)' = m /\ Holds(n, l)' /\ x = <<n, l>>
      BY DEF ImportHolds
    <2>2. QED
      BY <2>1 DEF Imports, Lib
  <1>3. Cardinality(ImportHolds(m)) \in Nat
    BY FS_CardinalityType
  <1>4. CASE m = Lib(n0, l0)
    <2>1. ImportHolds(m)' = ImportHolds(m) \cup {<<n0, l0>>}
      BY <1>2, <1>4, ImportRefs
    <2>2. <<n0, l0>> \notin ImportHolds(m)
      BY ImportRefs
    <2>3. QED
      BY <1>4, <2>1, <2>2, FS_AddElement
  <1>5. CASE m # Lib(n0, l0)
    <2>1. \A x : x \in ImportHolds(m)' <=> x \in ImportHolds(m)
      BY <1>2, <1>5, ImportRefs
    <2>2. ImportHolds(m)' = ImportHolds(m)
      BY <2>1, SameSets
    <2>3. QED
      BY <1>3, <1>5, <2>2
  <1>6. QED
    BY <1>4, <1>5

\* One import is not followed any more.
LEMMA OneLessImport ==
    ASSUME files' = files, NEW n0 \in Modules, NEW l0 \in 1..Len(Imports(n0)),
           Holds(n0, l0),
           \A n \in Modules : \A l \in 1..Len(Imports(n)) :
               Holds(n, l)' <=> Holds(n, l) /\ ~(n = n0 /\ l = l0),
           NEW m, IsFiniteSet(ImportHolds(m))
    PROVE  /\ IsFiniteSet(ImportHolds(m)')
           /\ Cardinality(ImportHolds(m)') =
                  Cardinality(ImportHolds(m)) - (IF m = Lib(n0, l0) THEN 1 ELSE 0)
  <1>1. \A n : Imports(n)' = Imports(n) /\ \A l : Lib(n, l)' = Lib(n, l)
    BY DEF Imports, Lib
  <1>2. \A x : x \in ImportHolds(m)' <=>
               \E n \in Modules : \E l \in 1..Len(Imports(n)) :
                   Lib(n, l) = m /\ Holds(n, l)' /\ x = <<n, l>>
    <2>1. \A x : x \in ImportHolds(m)' <=>
               \E n \in Modules : \E l \in 1..Len(Imports(n)') :
                   Lib(n, l)' = m /\ Holds(n, l)' /\ x = <<n, l>>
      BY DEF ImportHolds
    <2>2. QED
      BY <2>1 DEF Imports, Lib
  <1>3. Cardinality(ImportHolds(m)) \in Nat
    BY FS_CardinalityType
  <1>4. CASE m = Lib(n0, l0)
    <2>1. ImportHolds(m)' = ImportHolds(m) \ {<<n0, l0>>}
      BY <1>2, <1>4, ImportRefs
    <2>2. <<n0, l0>> \in ImportHolds(m)
      BY <1>4, ImportRefs
    <2>3. QED
      BY <1>4, <2>1, <2>2, FS_RemoveElement
  <1>5. CASE m # Lib(n0, l0)
    <2>1. \A x : x \in ImportHolds(m)' <=> x \in ImportHolds(m)
      BY <1>2, <1>5, ImportRefs
    <2>2. ImportHolds(m)' = ImportHolds(m)
      BY <2>1, SameSets
    <2>3. QED
      BY <1>3, <1>5, <2>2
  <1>6. QED
    BY <1>4, <1>5

-----------------------------------------------------------------------------
(* The exec calls that hold a module, and what a step does to them *)

\* A module is held by the same frames if a step leaves the frames that hold it.
LEMMA SameHolders ==
    ASSUME NEW m,
           \A i : /\ i \in 1..Len(stack')
                  /\ stack'[i].op = "exec" /\ stack'[i].pc \in HoldPlaces /\ stack'[i].mod = m
                  <=> /\ i \in 1..Len(stack)
                      /\ stack[i].op = "exec" /\ stack[i].pc \in HoldPlaces /\ stack[i].mod = m
    PROVE  ExecHolds(m)' = ExecHolds(m)
  <1>1. \A i : i \in ExecHolds(m)' <=> i \in ExecHolds(m)
    BY DEF ExecHolds
  <1>2. QED
    BY <1>1, SameSets

\* A routine that holds nothing returns.
LEMMA HoldersReturn ==
    ASSUME TypeOK, stack # <<>>, Return, Top.op = "exec" => Top.pc \notin HoldPlaces, NEW m
    PROVE  ExecHolds(m)' = ExecHolds(m)
  <1>1. /\ Len(stack') = Len(stack) - 1
        /\ \A i \in 1..(Len(stack) - 1) : stack'[i] = stack[i]
        /\ Len(stack) \in Nat \ {0} /\ Top = stack[Len(stack)]
    BY ReturnStack, TopFrame
  <1>2. QED
    BY <1>1, SameHolders

\* A routine moves on and holds what it held.
LEMMA HoldersGoto ==
    ASSUME TypeOK, stack # <<>>, NEW pc \in Places, NEW k \in Nat, Goto(pc, k),
           Top.op = "exec" => (pc \in HoldPlaces <=> Top.pc \in HoldPlaces), NEW m
    PROVE  ExecHolds(m)' = ExecHolds(m)
  <1>1. /\ Len(stack') = Len(stack)
        /\ \A i \in 1..(Len(stack) - 1) : stack'[i] = stack[i]
        /\ stack'[Len(stack)] = [op |-> Top.op, mod |-> Top.mod, pc |-> pc, idx |-> k]
        /\ Len(stack) \in Nat \ {0} /\ Top = stack[Len(stack)]
    BY GotoStack, TopFrame
  <1>2. QED
    BY <1>1, SameHolders

\* A routine calls another one and holds what it held.
LEMMA HoldersCall ==
    ASSUME TypeOK, stack # <<>>, NEW pc \in Places, NEW k \in Nat,
           NEW op \in Routines \ {"exec"}, NEW n \in Modules, GoCall(pc, k, op, n),
           Top.op = "exec" => (pc \in HoldPlaces <=> Top.pc \in HoldPlaces), NEW m
    PROVE  ExecHolds(m)' = ExecHolds(m)
  <1>0. op \in Routines /\ op # "exec" /\ pc \in Places
    OBVIOUS
  <1>1. /\ Len(stack') = Len(stack) + 1
        /\ \A i \in 1..(Len(stack) - 1) : stack'[i] = stack[i]
        /\ stack'[Len(stack)].op = Top.op /\ stack'[Len(stack)].mod = Top.mod
        /\ stack'[Len(stack)].pc = pc
        /\ stack'[Len(stack) + 1].op # "exec"
        /\ Len(stack) \in Nat \ {0} /\ Top = stack[Len(stack)]
    <2>1. /\ Len(stack') = Len(stack) + 1
          /\ \A i \in 1..(Len(stack) - 1) : stack'[i] = stack[i]
          /\ stack'[Len(stack)] = [op |-> Top.op, mod |-> Top.mod, pc |-> pc, idx |-> k]
          /\ stack'[Len(stack) + 1] = [op |-> op, mod |-> n, pc |-> "enter", idx |-> 0]
      BY <1>0, GoCallStack
    <2>2. QED
      BY <1>0, <2>1, TopFrame
  <1>2. \A i : i \in 1..Len(stack') <=>
                 i \in 1..(Len(stack) - 1) \/ i = Len(stack) \/ i = Len(stack) + 1
    BY <1>1
  <1>3. \A i : i \in 1..Len(stack) <=> i \in 1..(Len(stack) - 1) \/ i = Len(stack)
    BY <1>1
  <1>4. QED
    BY <1>1, <1>2, <1>3, SameHolders

\* exec holds nothing until it relocates.
LEMMA HoldersExec ==
    ASSUME TypeOK, NEW n \in Modules, ExecLoads(n), NEW m
    PROVE  ExecHolds(m)' = ExecHolds(m)
  <1>1. /\ Len(stack') = Len(stack) + 2
        /\ \A i \in 1..Len(stack) : stack'[i] = stack[i]
        /\ stack'[Len(stack) + 1].pc = "setup"
        /\ stack'[Len(stack) + 2].op = "setup"
    <2>1. ExecFrame(n).pc = "setup" /\ Call("setup", n).op = "setup"
      BY DEF ExecFrame, Call
    <2>2. QED
      BY <2>1, ExecStack
  <1>2. Len(stack) \in Nat
    BY LenProperties DEF TypeOK
  <1>3. \A i : i \in 1..Len(stack') <=>
                 i \in 1..Len(stack) \/ i = Len(stack) + 1 \/ i = Len(stack) + 2
    BY <1>1, <1>2
  <1>4. QED
    BY <1>1, <1>3, SameHolders DEF HoldPlaces

\* The program on top begins, or ceases, to hold its module.
LEMMA HolderAdded ==
    ASSUME TypeOK, stack # <<>>, NEW pc \in HoldPlaces \cap Places, NEW k \in Nat,
           NEW op \in Routines \ {"exec"}, NEW n \in Modules, GoCall(pc, k, op, n),
           Top.op = "exec", Top.pc \notin HoldPlaces, NEW m
    PROVE  Cardinality(ExecHolds(m)') = Cardinality(ExecHolds(m)) + (IF m = Top.mod THEN 1 ELSE 0)
  <1>0. op \in Routines /\ op # "exec" /\ pc \in Places
    OBVIOUS
  <1>1. /\ Len(stack') = Len(stack) + 1
        /\ \A i \in 1..(Len(stack) - 1) : stack'[i] = stack[i]
        /\ stack'[Len(stack)].op = Top.op /\ stack'[Len(stack)].mod = Top.mod
        /\ stack'[Len(stack)].pc = pc
        /\ stack'[Len(stack) + 1].op # "exec"
        /\ Len(stack) \in Nat \ {0} /\ Top = stack[Len(stack)]
    <2>1. /\ Len(stack') = Len(stack) + 1
          /\ \A i \in 1..(Len(stack) - 1) : stack'[i] = stack[i]
          /\ stack'[Len(stack)] = [op |-> Top.op, mod |-> Top.mod, pc |-> pc, idx |-> k]
          /\ stack'[Len(stack) + 1] = [op |-> op, mod |-> n, pc |-> "enter", idx |-> 0]
      BY <1>0, GoCallStack
    <2>2. QED
      BY <1>0, <2>1, TopFrame
  <1>2. \A i : i \in ExecHolds(m)' <=> i \in ExecHolds(m) \/ (i = Len(stack) /\ m = Top.mod)
    BY <1>1 DEF ExecHolds
  <1>3. Len(stack) \notin ExecHolds(m)
    BY <1>1 DEF ExecHolds
  <1>4. IsFiniteSet(ExecHolds(m)) /\ Cardinality(ExecHolds(m)) \in Nat
    BY FinitePlaces
  <1>5. CASE m = Top.mod
    <2>1. ExecHolds(m)' = ExecHolds(m) \cup {Len(stack)}
      BY <1>2, <1>5
    <2>2. QED
      BY <1>3, <1>4, <1>5, <2>1, FS_AddElement
  <1>6. CASE m # Top.mod
    <2>1. ExecHolds(m)' = ExecHolds(m)
      BY <1>2, <1>6, SameSets
    <2>2. QED
      BY <1>4, <1>6, <2>1
  <1>7. QED
    BY <1>5, <1>6

\* exec calls module_unload and gives up its reference.
LEMMA HolderRemoved ==
    ASSUME TypeOK, stack # <<>>, NEW pc \in Places \ HoldPlaces, NEW k \in Nat,
           NEW op \in Routines \ {"exec"}, NEW n \in Modules, GoCall(pc, k, op, n),
           Top.op = "exec", Top.pc \in HoldPlaces, NEW m
    PROVE  Cardinality(ExecHolds(m)') = Cardinality(ExecHolds(m)) - (IF m = Top.mod THEN 1 ELSE 0)
  <1>0. op \in Routines /\ op # "exec" /\ pc \in Places
    OBVIOUS
  <1>1. /\ Len(stack') = Len(stack) + 1
        /\ \A i \in 1..(Len(stack) - 1) : stack'[i] = stack[i]
        /\ stack'[Len(stack)].op = Top.op /\ stack'[Len(stack)].mod = Top.mod
        /\ stack'[Len(stack)].pc = pc
        /\ stack'[Len(stack) + 1].op # "exec"
        /\ Len(stack) \in Nat \ {0} /\ Top = stack[Len(stack)]
    <2>1. /\ Len(stack') = Len(stack) + 1
          /\ \A i \in 1..(Len(stack) - 1) : stack'[i] = stack[i]
          /\ stack'[Len(stack)] = [op |-> Top.op, mod |-> Top.mod, pc |-> pc, idx |-> k]
          /\ stack'[Len(stack) + 1] = [op |-> op, mod |-> n, pc |-> "enter", idx |-> 0]
      BY <1>0, GoCallStack
    <2>2. QED
      BY <1>0, <2>1, TopFrame
  <1>2. \A i : i \in ExecHolds(m)' <=> i \in ExecHolds(m) /\ i # Len(stack)
    BY <1>1 DEF ExecHolds
  <1>3. Len(stack) \in ExecHolds(m) <=> m = Top.mod
    BY <1>1 DEF ExecHolds
  <1>4. IsFiniteSet(ExecHolds(m)) /\ Cardinality(ExecHolds(m)) \in Nat
    BY FinitePlaces
  <1>5. CASE m = Top.mod
    <2>1. ExecHolds(m)' = ExecHolds(m) \ {Len(stack)}
      BY <1>2, <1>5
    <2>2. QED
      BY <1>3, <1>4, <1>5, <2>1, FS_RemoveElement
  <1>6. CASE m # Top.mod
    <2>1. ExecHolds(m)' = ExecHolds(m)
      BY <1>2, <1>3, <1>6, SameSets
    <2>2. QED
      BY <1>4, <1>6, <2>1
  <1>7. QED
    BY <1>5, <1>6

\* A program that stops with a throw is not an exec call any more, but its
\* reference stays.
LEMMA HolderGone ==
    ASSUME TypeOK, TypeOK', StackShape, ThrowStop, NEW m \in Modules
    PROVE  Cardinality(ExecHolds(m)') + Cardinality(GoneHolds(m)')
             = Cardinality(ExecHolds(m)) + Cardinality(GoneHolds(m))
  <1>0. /\ stack # <<>> /\ Top.op = "exec" /\ Top.pc = "caught"
        /\ abandoned' = Append(abandoned, Top.mod)
    BY DEF ThrowStop, At
  <1>1. /\ Len(stack) \in Nat \ {0} /\ Len(stack') = Len(stack) - 1
        /\ Top = stack[Len(stack)] /\ Top.mod \in Modules
        /\ \A i \in 1..(Len(stack) - 2) : stack'[i] = stack[i]
    BY <1>0, AfterThrow, TopFrame DEF Frame
  <1>2. ASSUME stack' # <<>>
        PROVE  /\ Len(stack) - 1 \in 1..Len(stack)
               /\ stack[Len(stack) - 1].op = "exec" /\ stack[Len(stack) - 1].pc = "run"
               /\ stack'[Len(stack) - 1].op = "exec" /\ stack'[Len(stack) - 1].pc = "caught"
               /\ stack'[Len(stack) - 1].mod = stack[Len(stack) - 1].mod
    <2>1. /\ Len(stack) - 1 \in 1..Len(stack)
          /\ stack[Len(stack) - 1].op = "exec" /\ stack[Len(stack) - 1].pc = "run"
          /\ Top' = [stack[Len(stack) - 1] EXCEPT !.pc = "caught"]
          /\ Top'.op = "exec" /\ Top'.pc = "caught"
      BY <1>2, AfterThrow
    <2>2. Top' = stack'[Len(stack) - 1]
      BY <1>1, <1>2, NewTop
    <2>3. stack[Len(stack) - 1] \in Frame
      BY <2>1, ElementOfSeq DEF TypeOK
    <2>4. Top'.mod = stack[Len(stack) - 1].mod
      BY <2>1, <2>3 DEF Frame
    <2>5. QED
      BY <2>1, <2>2, <2>4
  <1>3. \A i : i \in ExecHolds(m)' <=> i \in ExecHolds(m) /\ i # Len(stack)
    <2>1. CASE stack' = <<>>
      <3>1. Len(stack) = 1
        BY <1>1, <2>1, EmptySeq
      <3>2. QED
        BY <1>1, <3>1 DEF ExecHolds
    <2>2. CASE stack' # <<>>
      BY <1>1, <1>2, <2>2 DEF ExecHolds, HoldPlaces
    <2>3. QED
      BY <2>1, <2>2
  <1>4. Len(stack) \in ExecHolds(m) <=> m = Top.mod
    BY <1>0, <1>1 DEF ExecHolds, HoldPlaces
  <1>5. /\ IsFiniteSet(ExecHolds(m)) /\ Cardinality(ExecHolds(m)) \in Nat
        /\ IsFiniteSet(GoneHolds(m)) /\ Cardinality(GoneHolds(m)) \in Nat
    BY FinitePlaces
  <1>6. /\ Len(abandoned) \in Nat /\ Len(abandoned') = Len(abandoned) + 1
        /\ \A i \in 1..Len(abandoned) : abandoned'[i] = abandoned[i]
        /\ abandoned'[Len(abandoned) + 1] = Top.mod
    <2>1. abandoned \in Seq(Modules)
      BY DEF TypeOK
    <2>2. QED
      BY <1>0, <1>1, <2>1, AppendProperties, LenProperties
  <1>7. \A i : i \in GoneHolds(m)' <=>
                 i \in GoneHolds(m) \/ (i = Len(abandoned) + 1 /\ m = Top.mod)
    BY <1>6 DEF GoneHolds
  <1>8. Len(abandoned) + 1 \notin GoneHolds(m)
    BY <1>6 DEF GoneHolds
  <1>9. CASE m = Top.mod
    <2>1. ExecHolds(m)' = ExecHolds(m) \ {Len(stack)}
      BY <1>3
    <2>2. GoneHolds(m)' = GoneHolds(m) \cup {Len(abandoned) + 1}
      BY <1>7, <1>9
    <2>3. Cardinality(ExecHolds(m)') = Cardinality(ExecHolds(m)) - 1
      BY <1>4, <1>5, <1>9, <2>1, FS_RemoveElement
    <2>4. Cardinality(GoneHolds(m)') = Cardinality(GoneHolds(m)) + 1
      BY <1>5, <1>8, <2>2, FS_AddElement
    <2>5. QED
      BY <1>5, <2>3, <2>4
  <1>10. CASE m # Top.mod
    <2>1. ExecHolds(m)' = ExecHolds(m)
      BY <1>3, <1>4, <1>10, SameSets
    <2>2. GoneHolds(m)' = GoneHolds(m)
      BY <1>7, <1>10, SameSets
    <2>3. QED
      BY <2>1, <2>2
  <1>11. QED
    BY <1>9, <1>10

-----------------------------------------------------------------------------
(* Steps that leave the relocations and unloads under way as they are *)

WorksSame ==
    \A op \in {"reloc", "unload"} :
        /\ \A i \in 1..Len(stack') : Works(i, op)' =>
               i \in 1..Len(stack) /\ Works(i, op) /\ stack'[i] = stack[i]
        /\ \A i \in 1..Len(stack) : Works(i, op) =>
               i \in 1..Len(stack') /\ Works(i, op)' /\ stack'[i] = stack[i]

NotWorking(op, pc) == op \in {"reloc", "unload"} => pc # "libs"

\* A routine that is not relocating or unloading returns.
LEMMA WorksReturn ==
    ASSUME TypeOK, stack # <<>>, Return, NotWorking(Top.op, Top.pc)
    PROVE  WorksSame
  <1>1. /\ Len(stack') = Len(stack) - 1
        /\ \A i \in 1..(Len(stack) - 1) : stack'[i] = stack[i]
        /\ Len(stack) \in Nat \ {0} /\ Top = stack[Len(stack)]
    BY ReturnStack, TopFrame
  <1>2. QED
    BY <1>1 DEF WorksSame, Works, NotWorking

\* A routine that is not relocating or unloading moves on.
LEMMA WorksGoto ==
    ASSUME TypeOK, stack # <<>>, NEW pc \in Places, NEW k \in Nat, Goto(pc, k),
           NotWorking(Top.op, Top.pc), NotWorking(Top.op, pc)
    PROVE  WorksSame
  <1>1. /\ Len(stack') = Len(stack)
        /\ \A i \in 1..(Len(stack) - 1) : stack'[i] = stack[i]
        /\ stack'[Len(stack)].op = Top.op /\ stack'[Len(stack)].pc = pc
        /\ Len(stack) \in Nat \ {0} /\ Top = stack[Len(stack)]
    <2>1. /\ Len(stack') = Len(stack)
          /\ \A i \in 1..(Len(stack) - 1) : stack'[i] = stack[i]
          /\ stack'[Len(stack)] = [op |-> Top.op, mod |-> Top.mod, pc |-> pc, idx |-> k]
      BY GotoStack
    <2>2. QED
      BY <2>1, TopFrame
  <1>2. QED
    BY <1>1 DEF WorksSame, Works, NotWorking

\* A routine that is not relocating or unloading calls another.
LEMMA WorksCall ==
    ASSUME TypeOK, stack # <<>>, NEW pc \in Places, NEW k \in Nat,
           NEW op \in Routines, NEW n \in Modules, GoCall(pc, k, op, n),
           NotWorking(Top.op, Top.pc), NotWorking(Top.op, pc)
    PROVE  WorksSame
  <1>1. /\ Len(stack') = Len(stack) + 1
        /\ \A i \in 1..(Len(stack) - 1) : stack'[i] = stack[i]
        /\ stack'[Len(stack)].op = Top.op /\ stack'[Len(stack)].pc = pc
        /\ stack'[Len(stack) + 1].pc = "enter"
        /\ Len(stack) \in Nat \ {0} /\ Top = stack[Len(stack)]
    <2>1. /\ Len(stack') = Len(stack) + 1
          /\ \A i \in 1..(Len(stack) - 1) : stack'[i] = stack[i]
          /\ stack'[Len(stack)] = [op |-> Top.op, mod |-> Top.mod, pc |-> pc, idx |-> k]
          /\ stack'[Len(stack) + 1] = [op |-> op, mod |-> n, pc |-> "enter", idx |-> 0]
      BY GoCallStack
    <2>2. QED
      BY <2>1, TopFrame
  <1>2. \A i : i \in 1..Len(stack') <=>
                 i \in 1..(Len(stack) - 1) \/ i = Len(stack) \/ i = Len(stack) + 1
    BY <1>1
  <1>3. QED
    BY <1>1, <1>2 DEF WorksSame, Works, NotWorking

\* A program is executed.
LEMMA WorksExec ==
    ASSUME TypeOK, NEW n \in Modules, ExecLoads(n)
    PROVE  WorksSame
  <1>1. /\ Len(stack') = Len(stack) + 2
        /\ \A i \in 1..Len(stack) : stack'[i] = stack[i]
        /\ stack'[Len(stack) + 1].pc = "setup"
        /\ stack'[Len(stack) + 2].op = "setup"
    <2>1. ExecFrame(n).pc = "setup" /\ Call("setup", n).op = "setup"
      BY DEF ExecFrame, Call
    <2>2. QED
      BY <2>1, ExecStack
  <1>2. Len(stack) \in Nat
    BY LenProperties DEF TypeOK
  <1>3. \A i : i \in 1..Len(stack') <=>
                 i \in 1..Len(stack) \/ i = Len(stack) + 1 \/ i = Len(stack) + 2
    BY <1>1, <1>2
  <1>4. QED
    BY <1>1, <1>3 DEF WorksSame, Works

\* A throw drops only frames of exec and the routines it interrupts.
LEMMA WorksThrow ==
    ASSUME TypeOK, TypeOK', StackOrder, StackShape, ThrowStop
    PROVE  WorksSame
  <1>0. stack # <<>> /\ Top.op = "exec"
    BY DEF ThrowStop, At
  <1>1. /\ Len(stack) \in Nat \ {0} /\ Len(stack') = Len(stack) - 1
        /\ \A i \in 1..(Len(stack) - 2) : stack'[i] = stack[i]
        /\ \A i \in 1..Len(stack) : stack[i].op = "exec"
    BY <1>0, AfterThrow, TopFrame, FramesBelow
  <1>2. \A i \in 1..Len(stack') : stack'[i].op = "exec"
    <2>1. ASSUME stack' # <<>> PROVE stack'[Len(stack')].op = "exec"
      BY <2>1, AfterThrow, NewTop
    <2>2. stack' = <<>> => Len(stack') = 0
      BY EmptySeq
    <2>3. QED
      BY <1>1, <2>1, <2>2
  <1>3. QED
    BY <1>1, <1>2 DEF WorksSame, Works

-----------------------------------------------------------------------------
(***************************************************************************)
(* A step keeps the counts if it leaves the relocations and unloads under  *)
(* way alone, and gives to each count what it gives to its holders.        *)
(***************************************************************************)
Balance(m) == usage[m] + Pending(m) - (Cardinality(ExecHolds(m)) + Cardinality(GoneHolds(m)))

\* What a step adds to the count it adds to the holders.
LEMMA CountMoved ==
    ASSUME TypeOK, TypeOK', CountInv, OneUnloadFrame',
           \A m \in Modules : IsFiniteSet(ImportHolds(m)'),
           \A m \in Modules : usage'[m] >= 0,
           \A m \in Modules :
               Balance(m)' - Cardinality(ImportHolds(m)') = Balance(m) - Cardinality(ImportHolds(m))
    PROVE  CountInv'
  <1>3. SUFFICES ASSUME NEW m \in Modules PROVE CountOf(m)'
    BY DEF CountInv
  <1>5. CountOf(m)
    BY DEF CountInv
  <1> DEFINE e == Cardinality(ExecHolds(m))
             g == Cardinality(GoneHolds(m))
             h == Cardinality(ImportHolds(m))
             p == Pending(m)
  <1>6. e \in Nat /\ g \in Nat /\ h \in Nat /\ p \in Int /\ usage[m] \in Int /\ usage'[m] \in Int
    <2>1. p \in Int
      BY DEF Pending
    <2>2. h \in Nat
      BY <1>5, FS_CardinalityType DEF CountOf
    <2>3. e \in Nat /\ g \in Nat
      BY FinitePlaces
    <2>4. usage[m] \in Int /\ usage'[m] \in Int
      BY DEF TypeOK
    <2>5. QED
      BY <2>1, <2>2, <2>3, <2>4
  <1>7. e' \in Int /\ g' \in Int /\ p' \in Int /\ h' \in Int
    <2>1. IsFiniteSet(ExecHolds(m)') /\ IsFiniteSet(GoneHolds(m)')
      <3>1. Len(stack') \in Nat /\ Len(abandoned') \in Nat
        BY LenProperties DEF TypeOK
      <3>2. IsFiniteSet(1..Len(stack')) /\ IsFiniteSet(1..Len(abandoned'))
        BY <3>1, FS_Interval
      <3>3. ExecHolds(m)' \in SUBSET (1..Len(stack')) /\ GoneHolds(m)' \in SUBSET (1..Len(abandoned'))
        BY DEF ExecHolds, GoneHolds
      <3>4. QED
        BY <3>2, <3>3, FS_Subset
    <2>2. p' \in Int
      BY DEF Pending
    <2>3. IsFiniteSet(ImportHolds(m)')
      OBVIOUS
    <2>4. e' \in Int /\ g' \in Int
      BY <2>1, FS_CardinalityType
    <2>5. h' \in Int
      BY <2>3, FS_CardinalityType
    <2>6. QED
      BY <2>2, <2>4, <2>5
  <1>8. /\ usage[m] + p = e + g + h
        /\ (usage'[m] + p' - (e' + g')) - h' = (usage[m] + p - (e + g)) - h
    <2>1. Balance(m)' - Cardinality(ImportHolds(m)') = Balance(m) - Cardinality(ImportHolds(m))
      OBVIOUS
    <2>2. QED
      BY <1>5, <2>1 DEF CountOf, Balance
  <1>9. IsFiniteSet(ImportHolds(m)') /\ usage'[m] >= 0
    OBVIOUS
  <1>10. usage'[m] + p' = e' + g' + h'
    <2>1. \A u, a, b, c, d, v, w, x, y, z \in Int :
              u + a = b + c + d /\ (v + w - (x + y)) - z = (u + a - (b + c)) - d
                  => v + w = x + y + z
      OBVIOUS
    <2>2. e \in Int /\ g \in Int /\ h \in Int
      BY <1>6
    <2>3. QED
      BY <1>6, <1>7, <1>8, <2>1, <2>2
  <1>11. QED
    BY <1>9, <1>10 DEF CountOf

\* A step that changes no reference of an import.
LEMMA CountKept ==
    ASSUME TypeOK, TypeOK', CountInv, files' = files, relocs' = relocs, WorksSame,
           \A m \in Modules : usage'[m] >= 0,
           \A m \in Modules : Balance(m)' = Balance(m)
    PROVE  CountInv'
  <1>1. OneUnloadFrame'
    BY DEF CountInv, OneUnloadFrame, WorksSame
  <1>2. \A n \in Modules : \A l \in 1..Len(Imports(n)) : Holds(n, l)' <=> Holds(n, l)
    <2>1. SUFFICES ASSUME NEW n \in Modules, NEW l \in 1..Len(Imports(n))
                   PROVE  Holds(n, l)' <=> Holds(n, l)
      OBVIOUS
    <2>2. ASSUME Holds(n, l) PROVE Holds(n, l)'
      BY <2>2 DEF Holds, WorksSame
    <2>3. ASSUME Holds(n, l)' PROVE Holds(n, l)
      BY <2>3 DEF Holds, WorksSame
    <2>4. QED
      BY <2>2, <2>3
  <1>3. \A m \in Modules : ImportHolds(m)' = ImportHolds(m)
    BY <1>2, SameImports
  <1>4. \A m \in Modules : IsFiniteSet(ImportHolds(m)')
    BY <1>3 DEF CountInv, CountOf
  <1>5. \A m \in Modules :
            Balance(m)' - Cardinality(ImportHolds(m)') = Balance(m) - Cardinality(ImportHolds(m))
    BY <1>3
  <1>6. QED
    BY <1>1, <1>4, <1>5, CountMoved

\* The cases where nothing is pending and no reference changes hands.
LEMMA NothingCounted ==
    ASSUME TypeOK, TypeOK', CountInv, UNCHANGED <<files, relocs, usage, abandoned>>, WorksSame,
           \A m \in Modules : ExecHolds(m)' = ExecHolds(m),
           \A m \in Modules : Pending(m)' = Pending(m)
    PROVE  CountInv'
  <1>1. \A m \in Modules : GoneHolds(m)' = GoneHolds(m)
    BY DEF GoneHolds
  <1>2. \A m \in Modules : Balance(m)' = Balance(m)
    BY <1>1 DEF Balance
  <1>3. \A m \in Modules : usage'[m] >= 0
    BY DEF CountInv, CountOf
  <1>4. QED
    BY <1>2, <1>3, CountKept

-----------------------------------------------------------------------------
(* The steps of exec, of module_setup and of load_cleanup count nothing. *)

\* Only a relocation or an unload that has just been called is pending.
LEMMA PendingNow ==
    ASSUME stack # <<>>, NEW m
    PROVE  /\ Pending(m) \in Int
           /\ Top.pc # "enter" \/ Top.op \notin {"reloc", "unload"} => Pending(m) = 0
           /\ Top.pc = "enter" /\ Top.op = "reloc" =>
                 Pending(m) = IF m = Top.mod THEN 1 ELSE 0
           /\ Top.pc = "enter" /\ Top.op = "unload" =>
                 Pending(m) = IF m = Top.mod THEN -1 ELSE 0
  BY DEF Pending

\* Nothing is pending after a return,
LEMMA PendingReturn ==
    ASSUME TypeOK, TypeOK', StackOrder, StackShape, stack # <<>>, Return, NEW m
    PROVE  Pending(m)' = 0
  <1>1. CASE stack' = <<>>
    BY <1>1 DEF Pending
  <1>2. CASE stack' # <<>>
    <2>1. HasCalled(Top', Top) /\ Top \in Frame
      BY <1>2, AfterReturn, TopFrame
    <2>2. Top'.pc # "enter"
      BY <2>1 DEF HasCalled, Frame, Routines
    <2>3. QED
      BY <2>2 DEF Pending
  <1>3. QED
    BY <1>1, <1>2

\* nor after a step inside a routine;
LEMMA PendingGoto ==
    ASSUME TypeOK, TypeOK', stack # <<>>, NEW pc \in Places \ {"enter"}, NEW k \in Nat,
           Goto(pc, k), NEW m
    PROVE  Pending(m)' = 0
  <1>1. Top' = [op |-> Top.op, mod |-> Top.mod, pc |-> pc, idx |-> k] /\ pc # "enter"
    BY AfterGoto
  <1>2. Top'.pc # "enter"
    BY <1>1
  <1>3. QED
    BY <1>2 DEF Pending

\* after a call it is the call.
LEMMA PendingCall ==
    ASSUME TypeOK, TypeOK', stack # <<>>, NEW pc \in Places, NEW k \in Nat,
           NEW op \in Routines, NEW n \in Modules, GoCall(pc, k, op, n), NEW m
    PROVE  /\ op \notin {"reloc", "unload"} => Pending(m)' = 0
           /\ op = "reloc" => Pending(m)' = IF m = n THEN 1 ELSE 0
           /\ op = "unload" => Pending(m)' = IF m = n THEN -1 ELSE 0
  <1>1. stack' # <<>> /\ Top' = [op |-> op, mod |-> n, pc |-> "enter", idx |-> 0]
    BY AfterCall
  <1>2. Top'.op = op /\ Top'.mod = n /\ Top'.pc = "enter"
    BY <1>1
  <1>3. QED
    BY <1>1, <1>2 DEF Pending

\* A return that changes no count.
LEMMA ReturnCounts ==
    ASSUME TypeOK, TypeOK', StackOrder, StackShape, CountInv, stack # <<>>, Return,
           UNCHANGED <<files, relocs, usage, abandoned>>,
           Top.op \notin {"reloc", "unload"}, Top.op = "exec" => Top.pc \notin HoldPlaces
    PROVE  CountInv'
  <1>1. WorksSame
    BY WorksReturn DEF NotWorking
  <1>2. \A m \in Modules : ExecHolds(m)' = ExecHolds(m)
    BY HoldersReturn
  <1>3. \A m \in Modules : Pending(m) = 0 /\ Pending(m)' = 0
    BY PendingNow, PendingReturn
  <1>4. QED
    BY <1>1, <1>2, <1>3, NothingCounted

\* A step inside a routine that changes no count.
LEMMA GotoCounts ==
    ASSUME TypeOK, TypeOK', CountInv, stack # <<>>, NEW pc \in Places \ {"enter"}, NEW k \in Nat,
           Goto(pc, k), UNCHANGED <<files, relocs, usage, abandoned>>,
           Top.op \notin {"reloc", "unload"},
           Top.op = "exec" => (pc \in HoldPlaces <=> Top.pc \in HoldPlaces)
    PROVE  CountInv'
  <1>1. WorksSame
    BY WorksGoto DEF NotWorking
  <1>2. \A m \in Modules : ExecHolds(m)' = ExecHolds(m)
    BY HoldersGoto
  <1>3. \A m \in Modules : Pending(m) = 0 /\ Pending(m)' = 0
    BY PendingNow, PendingGoto
  <1>4. QED
    BY <1>1, <1>2, <1>3, NothingCounted

\* A call of module_setup or load_cleanup.
LEMMA CallCounts ==
    ASSUME TypeOK, TypeOK', CountInv, stack # <<>>, NEW pc \in Places, NEW k \in Nat,
           NEW op \in {"setup", "cleanup"}, NEW n \in Modules, GoCall(pc, k, op, n),
           UNCHANGED <<files, relocs, usage, abandoned>>,
           Top.op \notin {"reloc", "unload"},
           Top.op = "exec" => (pc \in HoldPlaces <=> Top.pc \in HoldPlaces)
    PROVE  CountInv'
  <1>0. op \in Routines /\ op \in Routines \ {"exec"}
    BY DEF Routines
  <1>1. WorksSame
    BY <1>0, WorksCall DEF NotWorking
  <1>2. \A m \in Modules : ExecHolds(m)' = ExecHolds(m)
    BY <1>0, HoldersCall
  <1>3. \A m \in Modules : Pending(m) = 0 /\ Pending(m)' = 0
    BY <1>0, PendingNow, PendingCall
  <1>4. QED
    BY <1>1, <1>2, <1>3, NothingCounted

\* A program is executed: nothing is counted yet.
LEMMA ExecCounts ==
    ASSUME TypeOK, TypeOK', CountInv, NEW n \in Modules, ExecLoads(n)
    PROVE  CountInv'
  <1>0. UNCHANGED <<files, relocs, usage, abandoned>>
    BY DEF ExecLoads, heap
  <1>1. WorksSame
    BY WorksExec
  <1>2. \A m \in Modules : ExecHolds(m)' = ExecHolds(m)
    BY HoldersExec
  <1>3. \A m \in Modules : Pending(m)' = 0
    <2>1. stack' # <<>> /\ Top'.op = "setup"
      BY AfterExec
    <2>2. QED
      BY <2>1 DEF Pending
  <1>4. \A m \in Modules : Pending(m) = 0
    <2>1. stack = <<>> \/ Top.op = "exec"
      BY DEF ExecLoads, Quiet, Idle, InProgram, At
    <2>2. QED
      BY <2>1 DEF Pending
  <1>5. QED
    BY <1>0, <1>1, <1>2, <1>3, <1>4, NothingCounted

\* A throw: the exec calls it drops hold their modules for ever.
LEMMA ThrowCounts ==
    ASSUME TypeOK, TypeOK', StackOrder, StackShape, CountInv, ThrowStop
    PROVE  CountInv'
  <1>0. files' = files /\ relocs' = relocs /\ usage' = usage /\ stack # <<>> /\ Top.op = "exec"
    BY DEF ThrowStop, heap, At
  <1>1. WorksSame
    BY WorksThrow
  <1>2. \A m \in Modules : Pending(m)' = 0
    <2>1. stack' # <<>> => Top'.op = "exec"
      BY AfterThrow
    <2>2. QED
      BY <2>1 DEF Pending
  <1>3. \A m \in Modules : Pending(m) = 0
    BY <1>0, PendingNow
  <1>4. \A m \in Modules : Balance(m)' = Balance(m)
    BY <1>0, <1>2, <1>3, HolderGone DEF Balance
  <1>5. \A m \in Modules : usage'[m] >= 0
    BY <1>0 DEF CountInv, CountOf
  <1>6. QED
    BY <1>0, <1>1, <1>4, <1>5, CountKept

\* A module without a linkinfo block is not counted.
LEMMA UnlinkedUncounted ==
    ASSUME TypeOK, RelocInv, CountInv, stack # <<>>, Top.op \in {"exec", "setup", "cleanup", "unload"},
           NEW m \in Modules, ~linked[m]
    PROVE  usage[m] = 0
  <1>1. usage[m] >= 0 /\ usage[m] \in Int
    BY DEF CountInv, CountOf, TypeOK
  <1>2. ASSUME usage[m] > 0 PROVE FALSE
    <2>1. \A i \in 1..Len(stack) : stack[i].op \in {"exec", Top.op}
      BY FramesBelow DEF RelocInv
    <2>2. relocs[m] = 1
      BY <1>2, <2>1 DEF RelocInv, CountedRelocated, Works
    <2>3. QED
      BY <2>2 DEF RelocInv, RelocatedOnce
  <1>3. QED
    BY <1>1, <1>2

\* Steps that neither relocate nor unload.
LEMMA OtherCounts ==
    ASSUME TypeOK, TypeOK', RelocInv, StackShape, CountInv,
           \/ ExecFails \/ ExecRuns \/ ExecReturns \/ LoadCleansUp \/ ProgramThrows
           \/ SetupSteps \/ CleanupSteps
           \/ QuitThrown \/ UNCHANGED vars \/ (\E m \in Modules : ExecRefused(m))
           \/ ThrowStop \/ \E m \in Modules : ExecLoads(m)
    PROVE  CountInv'
  <1>0. StackOrder
    BY DEF RelocInv
  <1>1. ASSUME stack # <<>>
        PROVE  Top \in Frame /\ Top.mod \in Modules /\ Top.idx \in Nat /\ Top.idx + 1 \in Nat
    BY <1>1, TopFrame DEF Frame
  <1>2. /\ {"find", "lib", "libs", "run", "caught", "cleanup"} \subseteq Places \ {"enter"}
        /\ {"find", "lib", "libs", "run", "caught", "cleanup"} \subseteq Places
        /\ 0 \in Nat /\ 1 \in Nat
    BY DEF Places
  <1>3. CASE ExecFails \/ ExecReturns
    BY <1>0, <1>3, ReturnCounts DEF ExecFails, ExecReturns, At, heap, HoldPlaces
  <1>4. CASE ExecRuns \/ ProgramThrows
    BY <1>2, <1>4, GotoCounts DEF ExecRuns, ProgramThrows, InProgram, At, heap, HoldPlaces
  <1>5. CASE LoadCleansUp
    BY <1>1, <1>2, <1>5, CallCounts DEF LoadCleansUp, At, heap, HoldPlaces
  <1>6. CASE \/ SetupAlreadyDone \/ SetupTooOld \/ SetupIncompatible \/ SetupNoMemory
             \/ SetupLibMissing \/ SetupRangeError
    <2>1. /\ stack # <<>> /\ Top.op = "setup" /\ Return
          /\ UNCHANGED <<files, relocs, usage, abandoned>>
      BY <1>6 DEF SetupAlreadyDone, SetupTooOld, SetupIncompatible, SetupNoMemory, Allocates,
           SetupLibMissing, SetupRangeError, SetupFails, At, heap
    <2>2. QED
      BY <1>0, <2>1, ReturnCounts
  <1>7. CASE SetupAllocates
    <2>1. /\ stack # <<>> /\ Top.op = "setup"
          /\ UNCHANGED <<files, relocs, abandoned>> /\ usage' = [usage EXCEPT ![Top.mod] = 0]
          /\ ~linked[Top.mod]
          /\ Return \/ Goto("find", 1)
      BY <1>7 DEF SetupAllocates, Allocates, At
    <2>2. usage[Top.mod] = 0
      BY <1>1, <2>1, UnlinkedUncounted
    <2>3. usage' = usage
      BY <1>1, <2>1, <2>2 DEF TypeOK
    <2>4. QED
      BY <1>0, <1>2, <2>1, <2>3, ReturnCounts, GotoCounts
  <1>8. CASE SetupPseudolib \/ SetupLibDone
    <2>1. /\ stack # <<>> /\ Top.op = "setup"
          /\ UNCHANGED <<files, relocs, usage, abandoned>>
          /\ Return \/ Goto("find", Top.idx + 1)
      BY <1>8 DEF SetupPseudolib, SetupLibDone, FindsLib, NextLib, At, heap
    <2>2. QED
      BY <1>0, <1>1, <1>2, <2>1, ReturnCounts, GotoCounts
  <1>9. CASE SetupRecurses
    <2>1. /\ stack # <<>> /\ Top.op = "setup"
          /\ UNCHANGED <<files, relocs, usage, abandoned>>
          /\ Lib(Top.mod, Top.idx) \in Modules
          /\ GoCall("lib", Top.idx, "setup", Lib(Top.mod, Top.idx))
      BY <1>9 DEF SetupRecurses, FindsLib, At
    <2>2. QED
      BY <1>1, <1>2, <2>1, CallCounts
  <1>10. CASE CleanupNothing \/ CleanupFrees
    <2>1. /\ stack # <<>> /\ Top.op = "cleanup" /\ Return
          /\ UNCHANGED <<files, relocs, usage, abandoned>>
      BY <1>10 DEF CleanupNothing, CleanupFrees, FreeLinkinfo, At, heap
    <2>2. QED
      BY <1>0, <2>1, ReturnCounts
  <1>11. CASE CleanupStarts
    <2>1. /\ stack # <<>> /\ Top.op = "cleanup" /\ Goto("libs", 1)
          /\ UNCHANGED <<files, relocs, usage, abandoned>>
      BY <1>11 DEF CleanupStarts, At, heap
    <2>2. QED
      BY <1>2, <2>1, GotoCounts
  <1>12. CASE CleanupLib
    <2>1. /\ stack # <<>> /\ Top.op = "cleanup"
          /\ UNCHANGED <<files, relocs, usage, abandoned>>
          /\ \/ Goto("libs", Top.idx + 1)
             \/ /\ Lib(Top.mod, Top.idx) \in Modules
                /\ GoCall("libs", Top.idx + 1, "cleanup", Lib(Top.mod, Top.idx))
      BY <1>12 DEF CleanupLib, At, heap
    <2>2. QED
      BY <1>1, <1>2, <2>1, GotoCounts, CallCounts
  <1>13. CASE QuitThrown \/ UNCHANGED vars \/ (\E m \in Modules : ExecRefused(m))
    <2>1. UNCHANGED <<files, stack, usage, relocs, abandoned>>
      BY <1>13 DEF QuitThrown, vars, heap, ExecRefused
    <2>2. WorksSame
      BY <2>1 DEF WorksSame, Works
    <2>3. \A m \in Modules : ExecHolds(m)' = ExecHolds(m) /\ Pending(m)' = Pending(m)
      BY <2>1 DEF ExecHolds, Pending, Top
    <2>4. QED
      BY <2>1, <2>2, <2>3, NothingCounted
  <1>14. CASE ThrowStop
    BY <1>0, <1>14, ThrowCounts
  <1>15. CASE \E m \in Modules : ExecLoads(m)
    BY <1>15, ExecCounts
  <1>16. QED
    BY <1>3, <1>4, <1>5, <1>6, <1>7, <1>8, <1>9, <1>10, <1>11, <1>12, <1>13, <1>14, <1>15
       DEF SetupSteps, CleanupSteps

-----------------------------------------------------------------------------
(* The steps of module_reloc and module_unload *)

\* exec calls module_reloc: the call is pending until it counts the module.
LEMMA LoadRelocatesCounts ==
    ASSUME TypeOK, TypeOK', CountInv, LoadRelocates
    PROVE  CountInv'
  <1>0. /\ stack # <<>> /\ Top.op = "exec" /\ Top.pc = "setup"
        /\ UNCHANGED <<files, usage, relocs, abandoned>>
        /\ GoCall("reloc", 0, "reloc", Top.mod)
    BY DEF LoadRelocates, At, heap
  <1>1. Top.mod \in Modules
    BY <1>0, TopFrame DEF Frame
  <1>2. /\ "reloc" \in HoldPlaces \cap Places /\ "reloc" \in Routines \ {"exec"}
        /\ "reloc" \in Places /\ "reloc" \in Routines /\ 0 \in Nat
        /\ "setup" \notin HoldPlaces
    BY DEF HoldPlaces, Places, Routines
  <1>3. WorksSame
    BY <1>0, <1>1, <1>2, WorksCall DEF NotWorking
  <1>4. ASSUME NEW m \in Modules PROVE Balance(m)' = Balance(m)
    <2>1. Cardinality(ExecHolds(m)') = Cardinality(ExecHolds(m)) + (IF m = Top.mod THEN 1 ELSE 0)
      BY <1>0, <1>1, <1>2, HolderAdded
    <2>2. Pending(m) = 0 /\ Pending(m)' = IF m = Top.mod THEN 1 ELSE 0
      BY <1>0, <1>1, <1>2, PendingNow, PendingCall
    <2>3. GoneHolds(m)' = GoneHolds(m) /\ usage'[m] = usage[m] /\ usage[m] \in Int
      BY <1>0 DEF GoneHolds, TypeOK
    <2>4. Cardinality(ExecHolds(m)) \in Nat /\ Cardinality(GoneHolds(m)) \in Nat
      BY FinitePlaces
    <2>5. QED
      BY <2>1, <2>2, <2>3, <2>4 DEF Balance
  <1>5. \A m \in Modules : usage'[m] >= 0
    BY <1>0 DEF CountInv, CountOf
  <1>6. QED
    BY <1>0, <1>3, <1>4, <1>5, CountKept

\* exec calls module_unload: it gives up its reference.
LEMMA ProgramReturnsCounts ==
    ASSUME TypeOK, TypeOK', CountInv, ProgramReturns
    PROVE  CountInv'
  <1>0. /\ stack # <<>> /\ Top.op = "exec" /\ Top.pc = "run"
        /\ UNCHANGED <<files, usage, relocs, abandoned>>
        /\ GoCall("unload", 0, "unload", Top.mod)
    BY DEF ProgramReturns, InProgram, At, heap
  <1>1. Top.mod \in Modules
    BY <1>0, TopFrame DEF Frame
  <1>2. /\ "unload" \in Places \ HoldPlaces /\ "unload" \in Routines \ {"exec"}
        /\ "unload" \in Places /\ "unload" \in Routines /\ 0 \in Nat
        /\ "run" \in HoldPlaces
    BY DEF HoldPlaces, Places, Routines
  <1>3. WorksSame
    BY <1>0, <1>1, <1>2, WorksCall DEF NotWorking
  <1>4. ASSUME NEW m \in Modules PROVE Balance(m)' = Balance(m)
    <2>1. Cardinality(ExecHolds(m)') = Cardinality(ExecHolds(m)) - (IF m = Top.mod THEN 1 ELSE 0)
      BY <1>0, <1>1, <1>2, HolderRemoved
    <2>2. Pending(m) = 0 /\ Pending(m)' = IF m = Top.mod THEN -1 ELSE 0
      BY <1>0, <1>1, <1>2, PendingNow, PendingCall
    <2>3. GoneHolds(m)' = GoneHolds(m) /\ usage'[m] = usage[m] /\ usage[m] \in Int
      BY <1>0 DEF GoneHolds, TypeOK
    <2>4. Cardinality(ExecHolds(m)) \in Nat /\ Cardinality(GoneHolds(m)) \in Nat
      BY FinitePlaces
    <2>5. QED
      BY <2>1, <2>2, <2>3, <2>4 DEF Balance
  <1>5. \A m \in Modules : usage'[m] >= 0
    BY <1>0 DEF CountInv, CountOf
  <1>6. QED
    BY <1>0, <1>3, <1>4, <1>5, CountKept

\* module_reloc on a module in use adds one to its count.
LEMMA RelocSharedCounts ==
    ASSUME TypeOK, TypeOK', StackOrder, StackShape, CountInv, RelocShared
    PROVE  CountInv'
  <1>0. /\ stack # <<>> /\ Top.op = "reloc" /\ Top.pc = "enter" /\ Return
        /\ UNCHANGED <<files, relocs, abandoned>>
        /\ usage' = [usage EXCEPT ![Top.mod] = @ + 1]
    BY DEF RelocShared, At
  <1>1. Top.mod \in Modules
    BY <1>0, TopFrame DEF Frame
  <1>2. WorksSame
    BY <1>0, WorksReturn DEF NotWorking
  <1>3. \A m \in Modules : /\ usage[m] \in Int /\ usage[m] >= 0
                           /\ usage'[m] = usage[m] + (IF m = Top.mod THEN 1 ELSE 0)
    BY <1>0, <1>1 DEF CountInv, CountOf, TypeOK
  <1>4. ASSUME NEW m \in Modules PROVE Balance(m)' = Balance(m)
    <2>1. ExecHolds(m)' = ExecHolds(m)
      BY <1>0, HoldersReturn
    <2>2. Pending(m) = (IF m = Top.mod THEN 1 ELSE 0) /\ Pending(m)' = 0
      BY <1>0, PendingNow, PendingReturn
    <2>3. GoneHolds(m)' = GoneHolds(m)
      BY <1>0 DEF GoneHolds
    <2>4. Cardinality(ExecHolds(m)) \in Nat /\ Cardinality(GoneHolds(m)) \in Nat
      BY FinitePlaces
    <2>5. QED
      BY <1>3, <2>1, <2>2, <2>3, <2>4 DEF Balance
  <1>5. QED
    BY <1>0, <1>2, <1>3, <1>4, CountKept

\* The count of a module that is unloaded was not zero.
LEMMA UnloadSharedCounts ==
    ASSUME TypeOK, TypeOK', StackOrder, StackShape, CountInv, UnloadShared
    PROVE  CountInv'
  <1>0. /\ stack # <<>> /\ Top.op = "unload" /\ Top.pc = "enter" /\ Return
        /\ UNCHANGED <<files, relocs, abandoned>> /\ usage[Top.mod] # 1
        /\ usage' = [usage EXCEPT ![Top.mod] = @ - 1]
    BY DEF UnloadShared, At
  <1>1. Top.mod \in Modules
    BY <1>0, TopFrame DEF Frame
  <1>2. WorksSame
    BY <1>0, WorksReturn DEF NotWorking
  <1>3. \A m \in Modules : /\ usage[m] \in Int
                           /\ usage'[m] = usage[m] - (IF m = Top.mod THEN 1 ELSE 0)
    BY <1>0, <1>1 DEF TypeOK
  <1>4. \A m \in Modules : Pending(m) = (IF m = Top.mod THEN -1 ELSE 0) /\ Pending(m)' = 0
    BY <1>0, PendingNow, PendingReturn
  <1>5. usage[Top.mod] >= 1
    <2>1. CountOf(Top.mod) /\ Pending(Top.mod) = -1
      BY <1>1, <1>4 DEF CountInv
    <2>2. /\ Cardinality(ExecHolds(Top.mod)) \in Nat /\ Cardinality(GoneHolds(Top.mod)) \in Nat
      BY FinitePlaces
    <2>3. Cardinality(ImportHolds(Top.mod)) \in Nat
      BY <2>1, FS_CardinalityType DEF CountOf
    <2>4. QED
      BY <1>1, <1>3, <2>1, <2>2, <2>3 DEF CountOf
  <1>6. \A m \in Modules : usage'[m] >= 0
    BY <1>3, <1>5 DEF CountInv, CountOf
  <1>7. ASSUME NEW m \in Modules PROVE Balance(m)' = Balance(m)
    <2>1. ExecHolds(m)' = ExecHolds(m)
      BY <1>0, HoldersReturn
    <2>2. GoneHolds(m)' = GoneHolds(m)
      BY <1>0 DEF GoneHolds
    <2>3. Cardinality(ExecHolds(m)) \in Nat /\ Cardinality(GoneHolds(m)) \in Nat
      BY FinitePlaces
    <2>4. QED
      BY <1>3, <1>4, <2>1, <2>2, <2>3 DEF Balance
  <1>8. QED
    BY <1>0, <1>2, <1>6, <1>7, CountKept

-----------------------------------------------------------------------------
(* The steps that follow an import, or give it up *)

\* no unloading is under way while module_reloc is on top
LEMMA OnlyRelocs ==
    ASSUME TypeOK, StackOrder, stack # <<>>, Top.op = "reloc"
    PROVE  \A i \in 1..Len(stack) : stack[i].op \in {"exec", "reloc"} /\ ~Works(i, "unload")
  BY FramesBelow DEF Works

\* While module_unload is on top nothing is being relocated.
LEMMA OnlyUnloads ==
    ASSUME TypeOK, StackOrder, stack # <<>>, Top.op = "unload"
    PROVE  \A i \in 1..Len(stack) : stack[i].op \in {"exec", "unload"} /\ ~Works(i, "reloc")
  BY FramesBelow DEF Works

\* module_reloc on a module not in use counts it and goes on to its libraries.
LEMMA RelocFirstCounts ==
    ASSUME TypeOK, TypeOK', RelocInv, StackShape, CountInv, RelocFirst
    PROVE  CountInv'
  <1>0. /\ stack # <<>> /\ Top.op = "reloc" /\ Top.pc = "enter" /\ Goto("libs", 1)
        /\ UNCHANGED <<files, relocs, abandoned>> /\ usage[Top.mod] = 0
        /\ usage' = [usage EXCEPT ![Top.mod] = 1]
    BY DEF RelocFirst, At
  <1>1. Top.mod \in Modules /\ Len(stack) \in Nat \ {0} /\ Top = stack[Len(stack)]
    BY <1>0, TopFrame DEF Frame
  <1>2. "libs" \in Places \ {"enter"} /\ "libs" \in Places /\ 1 \in Nat
    BY DEF Places
  <1>3. /\ Len(stack') = Len(stack)
        /\ \A i \in 1..(Len(stack) - 1) : stack'[i] = stack[i]
        /\ stack'[Len(stack)].op = "reloc" /\ stack'[Len(stack)].idx = 1
    <2>1. /\ Len(stack') = Len(stack)
          /\ \A i \in 1..(Len(stack) - 1) : stack'[i] = stack[i]
          /\ stack'[Len(stack)] = [op |-> Top.op, mod |-> Top.mod, pc |-> "libs", idx |-> 1]
      BY <1>0, <1>2, GotoStack
    <2>2. QED
      BY <1>0, <2>1
  <1>4. \A i \in 1..Len(stack) : stack[i].op \in {"exec", "reloc"} /\ ~Works(i, "unload")
    BY <1>0, OnlyRelocs DEF RelocInv
  <1>5. OneUnloadFrame'
    BY <1>1, <1>3, <1>4 DEF OneUnloadFrame, Works
  <1>6. \A n \in Modules : \A l \in 1..Len(Imports(n)) : Holds(n, l)' <=> Holds(n, l)
    <2>1. SUFFICES ASSUME NEW n \in Modules, NEW l \in 1..Len(Imports(n))
                   PROVE  Holds(n, l)' <=> Holds(n, l)
      OBVIOUS
    <2>2. ASSUME Holds(n, l) PROVE Holds(n, l)'
      BY <1>0, <1>1, <1>3, <1>4, <2>2 DEF Holds, Works
    <2>3. ASSUME Holds(n, l)' PROVE Holds(n, l)
      <3>1. l >= 1 /\ l \in Int
        OBVIOUS
      <3>2. CASE relocs[n] = 1
        BY <3>2 DEF Holds
      <3>3. ASSUME NEW i \in 1..Len(stack), stack'[i].op = "reloc", stack'[i].pc = "libs",
                   stack'[i].mod = n, l < stack'[i].idx
            PROVE  Holds(n, l)
        <4>1. i # Len(stack)
          BY <1>3, <3>1, <3>3
        <4>2. stack'[i] = stack[i]
          BY <1>1, <1>3, <4>1
        <4>3. QED
          BY <3>3, <4>2 DEF Holds, Works
      <3>4. \A i \in 1..Len(stack) : stack'[i].op # "unload"
        BY <1>1, <1>3, <1>4
      <3>5. QED
        BY <1>0, <1>3, <2>3, <3>2, <3>3, <3>4 DEF Holds, Works
    <2>4. QED
      BY <2>2, <2>3
  <1>7. \A m \in Modules : ImportHolds(m)' = ImportHolds(m)
    BY <1>0, <1>6, SameImports
  <1>8. \A m \in Modules : IsFiniteSet(ImportHolds(m)')
    BY <1>7 DEF CountInv, CountOf
  <1>9. \A m \in Modules : /\ usage[m] \in Int /\ usage[m] >= 0
                           /\ usage'[m] = usage[m] + (IF m = Top.mod THEN 1 ELSE 0)
    <2>1. \A m \in Modules : usage[m] \in Int /\ usage[m] >= 0
      BY DEF CountInv, CountOf, TypeOK
    <2>2. \A m \in Modules : usage'[m] = IF m = Top.mod THEN 1 ELSE usage[m]
      BY <1>0, <1>1 DEF TypeOK
    <2>3. QED
      BY <1>0, <2>1, <2>2
  <1>10. ASSUME NEW m \in Modules
         PROVE  Balance(m)' - Cardinality(ImportHolds(m)') = Balance(m) - Cardinality(ImportHolds(m))
    <2>1. ExecHolds(m)' = ExecHolds(m)
      BY <1>0, <1>2, HoldersGoto
    <2>2. Pending(m) = (IF m = Top.mod THEN 1 ELSE 0) /\ Pending(m)' = 0
      BY <1>0, <1>2, PendingNow, PendingGoto
    <2>3. GoneHolds(m)' = GoneHolds(m)
      BY <1>0 DEF GoneHolds
    <2>4. Cardinality(ExecHolds(m)) \in Nat /\ Cardinality(GoneHolds(m)) \in Nat
      BY FinitePlaces
    <2>5. Balance(m)' = Balance(m)
      BY <1>9, <2>1, <2>2, <2>3, <2>4 DEF Balance
    <2>6. QED
      BY <1>7, <2>5
  <1>11. QED
    BY <1>5, <1>8, <1>9, <1>10, CountMoved

\* module_reloc is done with the libraries.
LEMMA RelocAddsCounts ==
    ASSUME TypeOK, TypeOK', RelocInv, StackShape, CountInv, RelocAdds
    PROVE  CountInv'
  <1>0. /\ stack # <<>> /\ Top.op = "reloc" /\ Top.pc = "libs" /\ Return
        /\ UNCHANGED <<files, usage, abandoned>> /\ Top.idx > Len(Imports(Top.mod))
        /\ relocs' = [relocs EXCEPT ![Top.mod] = @ + 1]
    BY DEF RelocAdds, At
  <1>1. /\ Top.mod \in Modules /\ Len(stack) \in Nat \ {0} /\ Top = stack[Len(stack)]
        /\ Len(Imports(Top.mod)) \in Nat /\ Top.idx \in Nat
    BY <1>0, TopFrame, ImportList DEF Frame
  <1>2. /\ Len(stack') = Len(stack) - 1
        /\ \A i \in 1..(Len(stack) - 1) : stack'[i] = stack[i]
    BY <1>0, ReturnStack
  <1>3. \A i \in 1..Len(stack) : stack[i].op \in {"exec", "reloc"} /\ ~Works(i, "unload")
    BY <1>0, OnlyRelocs DEF RelocInv
  <1>4. OneUnloadFrame'
    BY <1>1, <1>2, <1>3 DEF OneUnloadFrame, Works
  <1>5. relocs[Top.mod] = 0
    BY <1>0, <1>1 DEF RelocInv, RelocFrames, Works
  <1>6. \A n \in Modules : relocs'[n] = IF n = Top.mod THEN 1 ELSE relocs[n]
    BY <1>0, <1>1, <1>5 DEF TypeOK
  <1>7. \A n \in Modules : \A l \in 1..Len(Imports(n)) : Holds(n, l)' <=> Holds(n, l)
    <2>1. SUFFICES ASSUME NEW n \in Modules, NEW l \in 1..Len(Imports(n))
                   PROVE  Holds(n, l)' <=> Holds(n, l)
      OBVIOUS
    <2>2. l \in Int
      OBVIOUS
    <2>3. n = Top.mod => Holds(n, l)
      BY <1>0, <1>1 DEF Holds, Works
    <2>4. n = Top.mod => Holds(n, l)'
      BY <1>6 DEF Holds
    <2>5. ASSUME Holds(n, l), n # Top.mod PROVE Holds(n, l)'
      BY <1>1, <1>2, <1>3, <1>6, <2>5 DEF Holds, Works
    <2>6. ASSUME Holds(n, l)', n # Top.mod PROVE Holds(n, l)
      BY <1>1, <1>2, <1>3, <1>6, <2>6 DEF Holds, Works
    <2>7. QED
      BY <2>3, <2>4, <2>5, <2>6
  <1>8. \A m \in Modules : ImportHolds(m)' = ImportHolds(m)
    BY <1>0, <1>7, SameImports
  <1>9. \A m \in Modules : IsFiniteSet(ImportHolds(m)')
    BY <1>8 DEF CountInv, CountOf
  <1>10. \A m \in Modules : usage'[m] >= 0
    BY <1>0 DEF CountInv, CountOf
  <1>11. ASSUME NEW m \in Modules
         PROVE  Balance(m)' - Cardinality(ImportHolds(m)') = Balance(m) - Cardinality(ImportHolds(m))
    <2>1. ExecHolds(m)' = ExecHolds(m)
      BY <1>0, HoldersReturn
    <2>2. Pending(m) = 0 /\ Pending(m)' = 0
      BY <1>0, PendingNow, PendingReturn DEF RelocInv
    <2>3. GoneHolds(m)' = GoneHolds(m)
      BY <1>0 DEF GoneHolds
    <2>4. Balance(m)' = Balance(m)
      BY <1>0, <2>1, <2>2, <2>3 DEF Balance
    <2>5. QED
      BY <1>8, <2>4
  <1>12. QED
    BY <1>4, <1>9, <1>10, <1>11, CountMoved

\* module_unload takes the last reference and goes on to the libraries.
LEMMA UnloadLastCounts ==
    ASSUME TypeOK, TypeOK', RelocInv, StackShape, CountInv, UnloadLast
    PROVE  CountInv'
  <1>0. /\ stack # <<>> /\ Top.op = "unload" /\ Top.pc = "enter" /\ Goto("libs", 1)
        /\ UNCHANGED <<files, abandoned>> /\ usage[Top.mod] = 1
        /\ usage' = [usage EXCEPT ![Top.mod] = 0]
        /\ relocs' = [relocs EXCEPT ![Top.mod] = @ - 1]
    BY DEF UnloadLast, At
  <1>1. Top.mod \in Modules /\ Len(stack) \in Nat \ {0} /\ Top = stack[Len(stack)]
    BY <1>0, TopFrame DEF Frame
  <1>2. "libs" \in Places \ {"enter"} /\ "libs" \in Places /\ 1 \in Nat
    BY DEF Places
  <1>3. /\ Len(stack') = Len(stack)
        /\ \A i \in 1..(Len(stack) - 1) : stack'[i] = stack[i]
        /\ stack'[Len(stack)].op = "unload" /\ stack'[Len(stack)].mod = Top.mod
        /\ stack'[Len(stack)].pc = "libs" /\ stack'[Len(stack)].idx = 1
    <2>1. /\ Len(stack') = Len(stack)
          /\ \A i \in 1..(Len(stack) - 1) : stack'[i] = stack[i]
          /\ stack'[Len(stack)] = [op |-> Top.op, mod |-> Top.mod, pc |-> "libs", idx |-> 1]
      BY <1>0, <1>2, GotoStack
    <2>2. QED
      BY <1>0, <2>1
  <1>4. \A i \in 1..Len(stack) : stack[i].op \in {"exec", "unload"} /\ ~Works(i, "reloc")
    BY <1>0, OnlyUnloads DEF RelocInv
  <1>5. \A i \in 1..Len(stack) : Works(i, "unload") => stack[i].mod # Top.mod
    BY <1>0 DEF RelocInv, FreeFrames
  <1>6. OneUnloadFrame'
    BY <1>1, <1>3, <1>5 DEF CountInv, OneUnloadFrame, Works
  <1>7. relocs[Top.mod] = 1
    BY <1>0, <1>1, <1>4 DEF RelocInv, CountedRelocated
  <1>8. \A n \in Modules : relocs'[n] = IF n = Top.mod THEN 0 ELSE relocs[n]
    BY <1>0, <1>1, <1>7 DEF TypeOK
  <1>9. \A n \in Modules : \A l \in 1..Len(Imports(n)) : Holds(n, l)' <=> Holds(n, l)
    <2>1. SUFFICES ASSUME NEW n \in Modules, NEW l \in 1..Len(Imports(n))
                   PROVE  Holds(n, l)' <=> Holds(n, l)
      OBVIOUS
    <2>2. l \in Int /\ l >= 1
      OBVIOUS
    <2>3. n = Top.mod => Holds(n, l)
      BY <1>7 DEF Holds
    <2>4. n = Top.mod => Holds(n, l)'
      BY <1>1, <1>3, <2>2 DEF Holds, Works
    <2>5. ASSUME Holds(n, l), n # Top.mod PROVE Holds(n, l)'
      BY <1>1, <1>3, <1>4, <1>8, <2>5 DEF Holds, Works
    <2>6. ASSUME Holds(n, l)', n # Top.mod PROVE Holds(n, l)
      BY <1>1, <1>3, <1>4, <1>8, <2>6 DEF Holds, Works
    <2>7. QED
      BY <2>3, <2>4, <2>5, <2>6
  <1>10. \A m \in Modules : ImportHolds(m)' = ImportHolds(m)
    BY <1>0, <1>9, SameImports
  <1>11. \A m \in Modules : IsFiniteSet(ImportHolds(m)')
    BY <1>10 DEF CountInv, CountOf
  <1>12. \A m \in Modules : /\ usage[m] \in Int /\ usage'[m] >= 0
                            /\ usage'[m] = usage[m] - (IF m = Top.mod THEN 1 ELSE 0)
    BY <1>0, <1>1 DEF CountInv, CountOf, TypeOK
  <1>13. ASSUME NEW m \in Modules
         PROVE  Balance(m)' - Cardinality(ImportHolds(m)') = Balance(m) - Cardinality(ImportHolds(m))
    <2>1. ExecHolds(m)' = ExecHolds(m)
      BY <1>0, <1>2, HoldersGoto
    <2>2. Pending(m) = (IF m = Top.mod THEN -1 ELSE 0) /\ Pending(m)' = 0
      BY <1>0, <1>2, PendingNow, PendingGoto
    <2>3. GoneHolds(m)' = GoneHolds(m)
      BY <1>0 DEF GoneHolds
    <2>4. Cardinality(ExecHolds(m)) \in Nat /\ Cardinality(GoneHolds(m)) \in Nat
      BY FinitePlaces
    <2>5. Balance(m)' = Balance(m)
      BY <1>12, <2>1, <2>2, <2>3, <2>4 DEF Balance
    <2>6. QED
      BY <1>10, <2>5
  <1>14. QED
    BY <1>6, <1>11, <1>12, <1>13, CountMoved

\* module_unload frees the module when it is done with the libraries.
LEMMA UnloadFreesCounts ==
    ASSUME TypeOK, TypeOK', RelocInv, StackShape, CountInv, UnloadFrees
    PROVE  CountInv'
  <1>0. /\ stack # <<>> /\ Top.op = "unload" /\ Top.pc = "libs" /\ Return
        /\ UNCHANGED <<files, usage, relocs, abandoned>> /\ Top.idx > Len(Imports(Top.mod))
    BY DEF UnloadFrees, FreeLinkinfo, At
  <1>1. /\ Top.mod \in Modules /\ Len(stack) \in Nat \ {0} /\ Top = stack[Len(stack)]
        /\ Len(Imports(Top.mod)) \in Nat /\ Top.idx \in Nat
    BY <1>0, TopFrame, ImportList DEF Frame
  <1>2. /\ Len(stack') = Len(stack) - 1
        /\ \A i \in 1..(Len(stack) - 1) : stack'[i] = stack[i]
    BY <1>0, ReturnStack
  <1>3. OneUnloadFrame'
    BY <1>1, <1>2 DEF CountInv, OneUnloadFrame, Works
  <1>4. \A n \in Modules : \A l \in 1..Len(Imports(n)) : Holds(n, l)' <=> Holds(n, l)
    <2>1. SUFFICES ASSUME NEW n \in Modules, NEW l \in 1..Len(Imports(n))
                   PROVE  Holds(n, l)' <=> Holds(n, l)
      OBVIOUS
    <2>2. l \in Int /\ (n = Top.mod => ~(l >= Top.idx))
      BY <1>0, <1>1
    <2>3. ASSUME Holds(n, l) PROVE Holds(n, l)'
      <3>1. CASE relocs[n] = 1
        BY <1>0, <3>1 DEF Holds
      <3>2. ASSUME NEW op \in {"reloc", "unload"}, NEW i \in 1..Len(stack), Works(i, op), stack[i].mod = n,
                   op = "reloc" => l < stack[i].idx, op = "unload" => l >= stack[i].idx
            PROVE  Holds(n, l)'
        <4>1. i # Len(stack)
          BY <1>0, <1>1, <2>2, <3>2 DEF Works
        <4>2. i \in 1..Len(stack') /\ stack'[i] = stack[i]
          BY <1>1, <1>2, <4>1
        <4>3. QED
          BY <3>2, <4>2 DEF Holds, Works
      <3>3. QED
        BY <2>3, <3>1, <3>2 DEF Holds
    <2>4. ASSUME Holds(n, l)' PROVE Holds(n, l)
      BY <1>0, <1>1, <1>2, <2>4 DEF Holds, Works
    <2>5. QED
      BY <2>3, <2>4
  <1>5. \A m \in Modules : ImportHolds(m)' = ImportHolds(m)
    BY <1>0, <1>4, SameImports
  <1>6. \A m \in Modules : IsFiniteSet(ImportHolds(m)')
    BY <1>5 DEF CountInv, CountOf
  <1>7. \A m \in Modules : usage'[m] >= 0
    BY <1>0 DEF CountInv, CountOf
  <1>8. ASSUME NEW m \in Modules
        PROVE  Balance(m)' - Cardinality(ImportHolds(m)') = Balance(m) - Cardinality(ImportHolds(m))
    <2>1. ExecHolds(m)' = ExecHolds(m)
      BY <1>0, HoldersReturn
    <2>2. Pending(m) = 0 /\ Pending(m)' = 0
      BY <1>0, PendingNow, PendingReturn DEF RelocInv
    <2>3. GoneHolds(m)' = GoneHolds(m)
      BY <1>0 DEF GoneHolds
    <2>4. Balance(m)' = Balance(m)
      BY <1>0, <2>1, <2>2, <2>3 DEF Balance
    <2>5. QED
      BY <1>5, <2>4
  <1>9. QED
    BY <1>3, <1>6, <1>7, <1>8, CountMoved

\* What recurse_libs does to the stack: the frame on top passes an import,
\* and if the import is a library the routine is called for it.
LEMMA RecurseStack ==
    ASSUME TypeOK, TypeOK', StackShape, NEW op \in {"cleanup", "reloc", "unload"},
           stack # <<>>, Top.op = op, Top.pc = "libs",
           Top.idx <= Len(Imports(Top.mod)),
           IF Lib(Top.mod, Top.idx) \in Modules
           THEN GoCall("libs", Top.idx + 1, op, Lib(Top.mod, Top.idx))
           ELSE Goto("libs", Top.idx + 1)
    PROVE  /\ Top \in Frame /\ Top.mod \in Modules
           /\ Len(stack) \in Nat \ {0} /\ Top = stack[Len(stack)]
           /\ Top.idx \in 1..Len(Imports(Top.mod)) /\ Top.idx \in Nat
           /\ Len(stack') = Len(stack) + (IF Lib(Top.mod, Top.idx) \in Modules THEN 1 ELSE 0)
           /\ \A i \in 1..(Len(stack) - 1) : stack'[i] = stack[i]
           /\ stack'[Len(stack)].op = op /\ stack'[Len(stack)].mod = Top.mod
           /\ stack'[Len(stack)].pc = "libs" /\ stack'[Len(stack)].idx = Top.idx + 1
           /\ Lib(Top.mod, Top.idx) \in Modules =>
                 /\ stack'[Len(stack) + 1].op = op /\ stack'[Len(stack) + 1].pc = "enter"
                 /\ stack'[Len(stack) + 1].mod = Lib(Top.mod, Top.idx)
           /\ \A m : ExecHolds(m)' = ExecHolds(m)
           /\ \A m \in Modules : op = "reloc" =>
                 Pending(m)' = IF m = Lib(Top.mod, Top.idx) THEN 1 ELSE 0
           /\ \A m \in Modules : op = "unload" =>
                 Pending(m)' = IF m = Lib(Top.mod, Top.idx) THEN -1 ELSE 0
  <1>1. /\ Top \in Frame /\ Top.mod \in Modules /\ Top.idx \in Nat
        /\ Len(stack) \in Nat \ {0} /\ Top = stack[Len(stack)]
    BY TopFrame DEF Frame
  <1>2. Top.idx \in 1..Len(Imports(Top.mod))
    <2>1. Shape(Top)
      BY <1>1 DEF StackShape
    <2>2. Len(Imports(Top.mod)) \in Nat
      BY <1>1, ImportList
    <2>3. QED
      BY <1>1, <2>1, <2>2 DEF Shape
  <1>3. /\ "libs" \in Places /\ "libs" \in Places \ {"enter"} /\ Top.idx + 1 \in Nat
        /\ op \in Routines \ {"exec"} /\ op \in Routines
    BY <1>1 DEF Places, Routines
  <1>4. CASE Lib(Top.mod, Top.idx) \in Modules
    <2>1. GoCall("libs", Top.idx + 1, op, Lib(Top.mod, Top.idx))
      BY <1>4
    <2>2. /\ Len(stack') = Len(stack) + 1
          /\ \A i \in 1..(Len(stack) - 1) : stack'[i] = stack[i]
          /\ stack'[Len(stack)] = [op |-> Top.op, mod |-> Top.mod, pc |-> "libs", idx |-> Top.idx + 1]
          /\ stack'[Len(stack) + 1] = [op |-> op, mod |-> Lib(Top.mod, Top.idx), pc |-> "enter", idx |-> 0]
      BY <1>3, <1>4, <2>1, GoCallStack
    <2>3. \A m : ExecHolds(m)' = ExecHolds(m)
      BY <1>3, <1>4, <2>1, HoldersCall
    <2>4. \A m \in Modules : /\ op = "reloc" => Pending(m)' = IF m = Lib(Top.mod, Top.idx) THEN 1 ELSE 0
                             /\ op = "unload" => Pending(m)' = IF m = Lib(Top.mod, Top.idx) THEN -1 ELSE 0
      BY <1>3, <1>4, <2>1, PendingCall
    <2>5. QED
      BY <1>1, <1>2, <1>4, <2>2, <2>3, <2>4
  <1>5. CASE Lib(Top.mod, Top.idx) \notin Modules
    <2>1. Goto("libs", Top.idx + 1)
      BY <1>5
    <2>2. /\ Len(stack') = Len(stack)
          /\ \A i \in 1..(Len(stack) - 1) : stack'[i] = stack[i]
          /\ stack'[Len(stack)] = [op |-> Top.op, mod |-> Top.mod, pc |-> "libs", idx |-> Top.idx + 1]
      BY <1>3, <2>1, GotoStack
    <2>3. \A m : ExecHolds(m)' = ExecHolds(m)
      BY <1>3, <2>1, HoldersGoto
    <2>4. \A m \in Modules : Pending(m)' = 0 /\ m # Lib(Top.mod, Top.idx)
      BY <1>3, <1>5, <2>1, PendingGoto
    <2>5. QED
      BY <1>1, <1>2, <1>5, <2>2, <2>3, <2>4
  <1>6. QED
    BY <1>4, <1>5

\* module_reloc follows an import: the call it makes is the reference it adds.
LEMMA RecurseRelocCounts ==
    ASSUME TypeOK, TypeOK', RelocInv, StackShape, CountInv, RecurseLib("reloc")
    PROVE  CountInv'
  <1> SUFFICES ASSUME NEW n0, NEW l0, n0 = Top.mod, l0 = Top.idx
               PROVE  CountInv'
    OBVIOUS
  <1>0. /\ stack # <<>> /\ Top.op = "reloc" /\ Top.pc = "libs"
        /\ UNCHANGED <<files, usage, relocs, abandoned>> /\ l0 <= Len(Imports(n0))
        /\ IF Lib(n0, l0) \in Modules THEN GoCall("libs", l0 + 1, "reloc", Lib(n0, l0))
           ELSE Goto("libs", l0 + 1)
    BY DEF RecurseLib, At, heap
  <1>1. /\ n0 \in Modules /\ Len(stack) \in Nat \ {0} /\ Top = stack[Len(stack)]
        /\ l0 \in 1..Len(Imports(n0)) /\ l0 \in Nat
        /\ Len(stack') = Len(stack) + (IF Lib(n0, l0) \in Modules THEN 1 ELSE 0)
        /\ \A i \in 1..(Len(stack) - 1) : stack'[i] = stack[i]
        /\ stack'[Len(stack)].op = "reloc" /\ stack'[Len(stack)].mod = n0
        /\ stack'[Len(stack)].pc = "libs" /\ stack'[Len(stack)].idx = l0 + 1
        /\ Lib(n0, l0) \in Modules => stack'[Len(stack) + 1].pc = "enter"
        /\ \A m : ExecHolds(m)' = ExecHolds(m)
        /\ \A m \in Modules : Pending(m)' = IF m = Lib(n0, l0) THEN 1 ELSE 0
    BY <1>0, RecurseStack
  <1>2. \A i \in 1..Len(stack) : stack[i].op \in {"exec", "reloc"} /\ ~Works(i, "unload")
    BY <1>0, OnlyRelocs DEF RelocInv
  <1>17. /\ Len(stack) \in 1..Len(stack')
         /\ \A i \in 1..Len(stack') :
                \/ i \in 1..(Len(stack) - 1) /\ stack'[i] = stack[i] /\ i \in 1..Len(stack)
                \/ i = Len(stack)
                \/ stack'[i].pc = "enter"
    <2>1. \A i \in 1..Len(stack') :
              i \in 1..(Len(stack) - 1) \/ i = Len(stack)
                  \/ (Lib(n0, l0) \in Modules /\ i = Len(stack) + 1)
      BY <1>1
    <2>2. QED
      BY <1>1, <2>1
  <1>3. \A i \in 1..Len(stack') : ~Works(i, "unload")'
    BY <1>1, <1>2, <1>17 DEF Works
  <1>4. OneUnloadFrame'
    BY <1>3 DEF OneUnloadFrame
  <1>5. /\ Works(Len(stack), "reloc") /\ stack[Len(stack)].mod = n0
        /\ stack[Len(stack)].idx = l0 /\ Len(stack) \in 1..Len(stack)
    BY <1>0, <1>1 DEF Works
  <1>6. relocs[n0] = 0
    BY <1>1, <1>5 DEF RelocInv, RelocFrames
  <1>7. \A i \in 1..(Len(stack) - 1) : Works(i, "reloc") => stack[i].mod # n0
    BY <1>1, <1>5 DEF RelocInv, OneRelocFrame
  <1>8. ASSUME NEW l \in 1..Len(Imports(n0)) PROVE Holds(n0, l) <=> l < l0
    <2>1. l < l0 => Holds(n0, l)
      BY <1>5 DEF Holds
    <2>2. \A i \in 1..Len(stack) : Works(i, "reloc") /\ stack[i].mod = n0 => i = Len(stack)
      BY <1>1, <1>7
    <2>3. Holds(n0, l) => l < l0
      BY <1>2, <1>5, <1>6, <2>2 DEF Holds
    <2>4. QED
      BY <2>1, <2>3
  <1>9. ASSUME NEW l \in 1..Len(Imports(n0)) PROVE Holds(n0, l)' <=> l < l0 + 1
    <2>1. l < l0 + 1 => Holds(n0, l)'
      BY <1>1, <1>17 DEF Holds, Works
    <2>2. ASSUME NEW i \in 1..Len(stack'), Works(i, "reloc")', stack'[i].mod = n0
          PROVE  i = Len(stack)
      BY <1>7, <1>17, <2>2 DEF Works
    <2>3. Holds(n0, l)' => l < l0 + 1
      <3>1. relocs'[n0] # 1 /\ stack'[Len(stack)].idx = l0 + 1
        BY <1>0, <1>1, <1>6
      <3>2. QED
        BY <1>3, <2>2, <3>1 DEF Holds
    <2>4. QED
      BY <2>1, <2>3
  <1>10. ASSUME NEW n \in Modules, n # n0, NEW l \in 1..Len(Imports(n))
         PROVE  Holds(n, l)' <=> Holds(n, l)
    <2>1. ASSUME Holds(n, l) PROVE Holds(n, l)'
      <3>1. CASE relocs[n] = 1
        BY <1>0, <3>1 DEF Holds
      <3>2. ASSUME NEW i \in 1..Len(stack), Works(i, "reloc"), stack[i].mod = n, l < stack[i].idx
            PROVE  Holds(n, l)'
        <4>1. i # Len(stack)
          BY <1>5, <1>10, <3>2
        <4>2. i \in 1..Len(stack') /\ stack'[i] = stack[i]
          BY <1>1, <4>1
        <4>3. QED
          BY <3>2, <4>2 DEF Holds, Works
      <3>3. QED
        BY <1>2, <2>1, <3>1, <3>2 DEF Holds
    <2>2. ASSUME Holds(n, l)' PROVE Holds(n, l)
      <3>1. CASE relocs'[n] = 1
        BY <1>0, <3>1 DEF Holds
      <3>2. ASSUME NEW i \in 1..Len(stack'), Works(i, "reloc")', stack'[i].mod = n, l < stack'[i].idx
            PROVE  Holds(n, l)
        <4>1. i # Len(stack) /\ stack'[i].pc # "enter"
          BY <1>1, <1>10, <3>2 DEF Works
        <4>2. i \in 1..Len(stack) /\ stack'[i] = stack[i]
          BY <1>17, <4>1
        <4>3. QED
          BY <3>2, <4>2 DEF Holds, Works
      <3>3. QED
        BY <1>3, <2>2, <3>1, <3>2 DEF Holds
    <2>3. QED
      BY <2>1, <2>2
  <1>11. ~Holds(n0, l0)
    BY <1>1, <1>8
  <1>12. \A n \in Modules : \A l \in 1..Len(Imports(n)) :
             Holds(n, l)' <=> Holds(n, l) \/ (n = n0 /\ l = l0)
    <2>1. \A l \in 1..Len(Imports(n0)) : Holds(n0, l)' <=> Holds(n0, l) \/ l = l0
      <3>1. \A l \in 1..Len(Imports(n0)) : (l < l0 + 1) <=> (l < l0) \/ l = l0
        BY <1>1
      <3>2. QED
        BY <1>8, <1>9, <3>1
    <2>2. QED
      BY <1>10, <2>1
  <1>13. ASSUME NEW m \in Modules
         PROVE  /\ IsFiniteSet(ImportHolds(m)')
                /\ Cardinality(ImportHolds(m)') =
                      Cardinality(ImportHolds(m)) + (IF m = Lib(n0, l0) THEN 1 ELSE 0)
                /\ Cardinality(ImportHolds(m)) \in Nat
    <2>1. IsFiniteSet(ImportHolds(m))
      BY DEF CountInv, CountOf
    <2>2. Cardinality(ImportHolds(m)) \in Nat
      BY <2>1, FS_CardinalityType
    <2>3. files' = files /\ n0 \in Modules /\ l0 \in 1..Len(Imports(n0))
      BY <1>0, <1>1
    <2>4. QED
      BY <1>11, <1>12, <2>1, <2>2, <2>3, OneMoreImport
  <1>14. \A m \in Modules : usage'[m] >= 0
    BY <1>0 DEF CountInv, CountOf
  <1>15. ASSUME NEW m \in Modules
         PROVE  Balance(m)' - Cardinality(ImportHolds(m)') = Balance(m) - Cardinality(ImportHolds(m))
    <2>1. ExecHolds(m)' = ExecHolds(m) /\ Pending(m)' = IF m = Lib(n0, l0) THEN 1 ELSE 0
      BY <1>1
    <2>2. Pending(m) = 0
      BY <1>0, PendingNow
    <2>3. GoneHolds(m)' = GoneHolds(m)
      BY <1>0 DEF GoneHolds
    <2>4. Cardinality(ExecHolds(m)) \in Nat /\ Cardinality(GoneHolds(m)) \in Nat
          /\ usage[m] \in Int /\ usage'[m] = usage[m]
      BY <1>0, FinitePlaces DEF TypeOK
    <2>5. \A u, e, g, h, d \in Int : (u + d - (e + g)) - (h + d) = (u + 0 - (e + g)) - h
      OBVIOUS
    <2>6. QED
      BY <1>13, <2>1, <2>2, <2>3, <2>4, <2>5 DEF Balance
  <1>16. QED
    BY <1>4, <1>13, <1>14, <1>15, CountMoved

\* module_unload follows an import: the call it makes gives the reference up.
LEMMA RecurseUnloadCounts ==
    ASSUME TypeOK, TypeOK', RelocInv, StackShape, CountInv, RecurseLib("unload")
    PROVE  CountInv'
  <1> SUFFICES ASSUME NEW n0, NEW l0, n0 = Top.mod, l0 = Top.idx
               PROVE  CountInv'
    OBVIOUS
  <1>0. /\ stack # <<>> /\ Top.op = "unload" /\ Top.pc = "libs"
        /\ UNCHANGED <<files, usage, relocs, abandoned>> /\ l0 <= Len(Imports(n0))
        /\ IF Lib(n0, l0) \in Modules THEN GoCall("libs", l0 + 1, "unload", Lib(n0, l0))
           ELSE Goto("libs", l0 + 1)
    BY DEF RecurseLib, At, heap
  <1>1. /\ n0 \in Modules /\ Len(stack) \in Nat \ {0} /\ Top = stack[Len(stack)]
        /\ l0 \in 1..Len(Imports(n0)) /\ l0 \in Nat
        /\ Len(stack') = Len(stack) + (IF Lib(n0, l0) \in Modules THEN 1 ELSE 0)
        /\ \A i \in 1..(Len(stack) - 1) : stack'[i] = stack[i]
        /\ stack'[Len(stack)].op = "unload" /\ stack'[Len(stack)].mod = n0
        /\ stack'[Len(stack)].pc = "libs" /\ stack'[Len(stack)].idx = l0 + 1
        /\ Lib(n0, l0) \in Modules => stack'[Len(stack) + 1].pc = "enter"
        /\ \A m : ExecHolds(m)' = ExecHolds(m)
        /\ \A m \in Modules : Pending(m)' = IF m = Lib(n0, l0) THEN -1 ELSE 0
    BY <1>0, RecurseStack
  <1>2. \A i \in 1..Len(stack) : stack[i].op \in {"exec", "unload"} /\ ~Works(i, "reloc")
    BY <1>0, OnlyUnloads DEF RelocInv
  <1>17. /\ Len(stack) \in 1..Len(stack')
         /\ \A i \in 1..Len(stack') :
                \/ i \in 1..(Len(stack) - 1) /\ stack'[i] = stack[i] /\ i \in 1..Len(stack)
                \/ i = Len(stack)
                \/ stack'[i].pc = "enter"
    <2>1. \A i \in 1..Len(stack') :
              i \in 1..(Len(stack) - 1) \/ i = Len(stack)
                  \/ (Lib(n0, l0) \in Modules /\ i = Len(stack) + 1)
      BY <1>1
    <2>2. QED
      BY <1>1, <2>1
  <1>3. \A i \in 1..Len(stack') : ~Works(i, "reloc")'
    BY <1>1, <1>2, <1>17 DEF Works
  <1>5. /\ Works(Len(stack), "unload") /\ stack[Len(stack)].mod = n0
        /\ stack[Len(stack)].idx = l0 /\ Len(stack) \in 1..Len(stack)
    BY <1>0, <1>1 DEF Works
  <1>6. relocs[n0] # 1
    <2>1. usage[n0] <= 0 /\ usage[n0] \in Int
      BY <1>1, <1>5 DEF RelocInv, FreeFrames, TypeOK
    <2>2. QED
      BY <1>1, <2>1 DEF RelocInv, RelocatedOnce
  <1>7. \A i \in 1..(Len(stack) - 1) : Works(i, "unload") => stack[i].mod # n0
    BY <1>1, <1>5 DEF CountInv, OneUnloadFrame
  <1>4. OneUnloadFrame'
    <2>1. \A i \in 1..Len(stack') : Works(i, "unload")' =>
              i \in 1..Len(stack) /\ Works(i, "unload") /\ stack'[i].mod = stack[i].mod
      BY <1>1, <1>5 DEF Works
    <2>2. QED
      BY <2>1 DEF CountInv, OneUnloadFrame
  <1>8. ASSUME NEW l \in 1..Len(Imports(n0)) PROVE Holds(n0, l) <=> l >= l0
    <2>1. l >= l0 => Holds(n0, l)
      BY <1>5 DEF Holds
    <2>2. \A i \in 1..Len(stack) : Works(i, "unload") /\ stack[i].mod = n0 => i = Len(stack)
      BY <1>1, <1>7
    <2>3. Holds(n0, l) => l >= l0
      BY <1>2, <1>5, <1>6, <2>2 DEF Holds
    <2>4. QED
      BY <2>1, <2>3
  <1>9. ASSUME NEW l \in 1..Len(Imports(n0)) PROVE Holds(n0, l)' <=> l >= l0 + 1
    <2>1. l >= l0 + 1 => Holds(n0, l)'
      BY <1>1, <1>17 DEF Holds, Works
    <2>2. ASSUME NEW i \in 1..Len(stack'), Works(i, "unload")', stack'[i].mod = n0
          PROVE  i = Len(stack)
      BY <1>7, <1>17, <2>2 DEF Works
    <2>3. Holds(n0, l)' => l >= l0 + 1
      <3>1. relocs'[n0] # 1 /\ stack'[Len(stack)].idx = l0 + 1
        BY <1>0, <1>1, <1>6
      <3>2. QED
        BY <1>3, <2>2, <3>1 DEF Holds
    <2>4. QED
      BY <2>1, <2>3
  <1>10. ASSUME NEW n \in Modules, n # n0, NEW l \in 1..Len(Imports(n))
         PROVE  Holds(n, l)' <=> Holds(n, l)
    <2>1. ASSUME Holds(n, l) PROVE Holds(n, l)'
      <3>1. CASE relocs[n] = 1
        BY <1>0, <3>1 DEF Holds
      <3>2. ASSUME NEW i \in 1..Len(stack), Works(i, "unload"), stack[i].mod = n, l >= stack[i].idx
            PROVE  Holds(n, l)'
        <4>1. i # Len(stack)
          BY <1>5, <1>10, <3>2
        <4>2. i \in 1..Len(stack') /\ stack'[i] = stack[i]
          BY <1>1, <4>1
        <4>3. QED
          BY <3>2, <4>2 DEF Holds, Works
      <3>3. QED
        BY <1>2, <2>1, <3>1, <3>2 DEF Holds
    <2>2. ASSUME Holds(n, l)' PROVE Holds(n, l)
      <3>1. CASE relocs'[n] = 1
        BY <1>0, <3>1 DEF Holds
      <3>2. ASSUME NEW i \in 1..Len(stack'), Works(i, "unload")', stack'[i].mod = n, l >= stack'[i].idx
            PROVE  Holds(n, l)
        <4>1. i # Len(stack) /\ stack'[i].pc # "enter"
          BY <1>1, <1>10, <3>2 DEF Works
        <4>2. i \in 1..Len(stack) /\ stack'[i] = stack[i]
          BY <1>17, <4>1
        <4>3. QED
          BY <3>2, <4>2 DEF Holds, Works
      <3>3. QED
        BY <1>3, <2>2, <3>1, <3>2 DEF Holds
    <2>3. QED
      BY <2>1, <2>2
  <1>11. Holds(n0, l0)
    BY <1>1, <1>8
  <1>12. \A n \in Modules : \A l \in 1..Len(Imports(n)) :
             Holds(n, l)' <=> Holds(n, l) /\ ~(n = n0 /\ l = l0)
    <2>1. \A l \in 1..Len(Imports(n0)) : Holds(n0, l)' <=> Holds(n0, l) /\ l # l0
      <3>1. \A l \in 1..Len(Imports(n0)) : (l >= l0 + 1) <=> (l >= l0) /\ l # l0
        BY <1>1
      <3>2. QED
        BY <1>8, <1>9, <3>1
    <2>2. QED
      BY <1>10, <2>1
  <1>13. ASSUME NEW m \in Modules
         PROVE  /\ IsFiniteSet(ImportHolds(m)')
                /\ Cardinality(ImportHolds(m)') =
                      Cardinality(ImportHolds(m)) - (IF m = Lib(n0, l0) THEN 1 ELSE 0)
                /\ Cardinality(ImportHolds(m)) \in Nat
    <2>1. IsFiniteSet(ImportHolds(m))
      BY DEF CountInv, CountOf
    <2>2. Cardinality(ImportHolds(m)) \in Nat
      BY <2>1, FS_CardinalityType
    <2>3. files' = files /\ n0 \in Modules /\ l0 \in 1..Len(Imports(n0))
      BY <1>0, <1>1
    <2>4. QED
      BY <1>11, <1>12, <2>1, <2>2, <2>3, OneLessImport
  <1>14. \A m \in Modules : usage'[m] >= 0
    BY <1>0 DEF CountInv, CountOf
  <1>15. ASSUME NEW m \in Modules
         PROVE  Balance(m)' - Cardinality(ImportHolds(m)') = Balance(m) - Cardinality(ImportHolds(m))
    <2>1. ExecHolds(m)' = ExecHolds(m) /\ Pending(m)' = IF m = Lib(n0, l0) THEN -1 ELSE 0
      BY <1>1
    <2>2. Pending(m) = 0
      BY <1>0, PendingNow
    <2>3. GoneHolds(m)' = GoneHolds(m)
      BY <1>0 DEF GoneHolds
    <2>4. Cardinality(ExecHolds(m)) \in Nat /\ Cardinality(GoneHolds(m)) \in Nat
          /\ usage[m] \in Int /\ usage'[m] = usage[m]
      BY <1>0, FinitePlaces DEF TypeOK
    <2>5. \A u, e, g, h, d \in Int : (u + d - (e + g)) - (h + d) = (u + 0 - (e + g)) - h
      OBVIOUS
    <2>6. QED
      BY <1>13, <2>1, <2>2, <2>3, <2>4, <2>5 DEF Balance
  <1>16. QED
    BY <1>4, <1>13, <1>14, <1>15, CountMoved

\* A step of the loader keeps the counts.
LEMMA NextCounts ==
    ASSUME TypeOK, TypeOK', RelocInv, StackShape, CountInv, [Next]_vars
    PROVE  CountInv'
  <1>0. StackOrder
    BY DEF RelocInv
  <1>1. CASE RelocSteps
    BY <1>0, <1>1, RelocSharedCounts, RelocFirstCounts, RecurseRelocCounts, RelocAddsCounts
       DEF RelocSteps
  <1>2. CASE UnloadSteps
    BY <1>0, <1>2, UnloadSharedCounts, UnloadLastCounts, RecurseUnloadCounts, UnloadFreesCounts
       DEF UnloadSteps
  <1>3. CASE LoadRelocates \/ ProgramReturns
    BY <1>3, LoadRelocatesCounts, ProgramReturnsCounts
  <1>4. QED
    BY <1>1, <1>2, <1>3, OtherCounts
       DEF Next, KernelStep, ProgramStep, ThrowStep, Halted, ExecSteps

-----------------------------------------------------------------------------
(***************************************************************************)
(* What the routines know of the modules they work on.                     *)
(***************************************************************************)
Zero(m) == linked[m] /\ usage[m] = 0

InWork(i, op) == stack[i].op = op /\ stack[i].pc # "enter"

\* the first k imports of m that are libraries have a linkinfo block
LibsLinked(m, k) == \A l \in 1..k : Lib(m, l) \in Modules => linked[Lib(m, l)]

\* module_setup: the handle list has grown up to the import it has reached
SetupFrame(f) ==
    /\ Zero(f.mod)
    /\ found[f.mod] = IF f.pc = "find" THEN f.idx - 1 ELSE f.idx
    /\ LibsLinked(f.mod, f.idx - 1)

SetupFrames ==
    \A i \in 1..Len(stack) : InWork(i, "setup") => SetupFrame(stack[i])
OneSetupFrame ==
    \A i, j \in 1..Len(stack) :
        InWork(i, "setup") /\ InWork(j, "setup") /\ stack[i].mod = stack[j].mod => i = j

\* d7 says OK only for a module that has been set up
SetupResult ==
    stack # <<>> =>
        /\ Top.op = "setup" /\ Top.pc \in {"enter", "find"} => d7 # EXEC_OK
        /\ Top.op = "setup" /\ Top.pc = "lib" =>
               /\ Lib(Top.mod, Top.idx) \in Modules
               /\ d7 = EXEC_OK => linked[Lib(Top.mod, Top.idx)]
        /\ Top.op = "exec" /\ Top.pc = "setup" /\ d7 = EXEC_OK => linked[Top.mod]

\* the load under way has not failed
Loading ==
    /\ stack # <<>>
    /\ \/ Top.op = "setup" /\ (Top.pc = "lib" => d7 = EXEC_OK)
       \/ Top.op = "exec" /\ Top.pc = "setup" /\ d7 = EXEC_OK
       \/ Top.op = "reloc"

\* then a module that is set up and not yet counted has its libraries set up
Complete ==
    Loading => \A m \in Modules :
        \/ ~Zero(m)
        \/ \E i \in 1..Len(stack) : InWork(i, "setup") /\ stack[i].mod = m
        \/ LibsLinked(m, Len(Imports(m)))

\* module_reloc: the module and its libraries are set up
RelocFrame(f) == /\ linked[f.mod]
                 /\ f.pc # "enter" => LibsLinked(f.mod, Len(Imports(f.mod)))
RelocsLinked ==
    \A i \in 1..Len(stack) : stack[i].op = "reloc" => RelocFrame(stack[i])

\* load_cleanup: nothing counts the module, or the libraries it is past
CleanupFrame(f) ==
    /\ Zero(f.mod)
    /\ f.idx <= found[f.mod] + 1
CleanupFramesOK ==
    \A i \in 1..Len(stack) : InWork(i, "cleanup") =>
        /\ CleanupFrame(stack[i])
        /\ \A l \in 1..(stack[i].idx - 1) :
               Lib(stack[i].mod, l) \in Modules /\ Zero(Lib(stack[i].mod, l))
                   => i < Len(stack) /\ l = stack[i].idx - 1

UnloadFrames ==
    \A i \in 1..Len(stack) : InWork(i, "unload") => Zero(stack[i].mod)

(***************************************************************************)
(* Which modules that are set up and not counted the loader will come back *)
(* to: those a frame still owes, and those they have found, but for those  *)
(* that are being taken away.                                              *)
(***************************************************************************)
Grey(m) == \E i \in 1..Len(stack) :
               stack[i].mod = m /\ (InWork(i, "cleanup") \/ InWork(i, "unload"))
Loose(m) == Zero(m) /\ ~Grey(m)
Owes(f, k) ==
    \/ f.op = "exec" /\ f.pc = "setup" /\ k = f.mod
    \/ f.op \in {"cleanup", "reloc"} /\ f.pc = "enter" /\ k = f.mod
    \/ f.op = "cleanup" /\ f.pc = "libs" /\ \E l \in f.idx..found[f.mod] : k = Lib(f.mod, l)
    \/ f.op = "reloc" /\ f.pc = "libs" /\ \E l \in f.idx..Len(Imports(f.mod)) : k = Lib(f.mod, l)
Owed(k) == \E i \in 1..Len(stack) : Owes(stack[i], k)
Covers(S) ==
    /\ \A k \in Modules : Owed(k) => k \in S
    /\ \A k \in S : Loose(k) =>
          \A l \in 1..found[k] : Lib(k, l) \in Modules => Lib(k, l) \in S
Reach == \A S \in SUBSET Modules : Covers(S) => \A k \in Modules : Loose(k) => k \in S

SetupInv == SetupFrames /\ OneSetupFrame /\ SetupResult /\ Complete
WorkInv  == SetupInv /\ RelocsLinked /\ CleanupFramesOK /\ UnloadFrames /\ Reach

-----------------------------------------------------------------------------
(* When nothing is owed, everything that is set up is counted. *)

\* When nothing is owed, what is set up and not counted is being taken away.
LEMMA NothingOwed ==
    ASSUME Reach, \A k \in Modules : ~Owed(k)
    PROVE  \A k \in Modules : Zero(k) => Grey(k)
  <1>1. Covers({}) /\ {} \in SUBSET Modules
    BY DEF Covers
  <1>2. QED
    BY <1>1 DEF Reach, Loose

\* Nothing is owed while module_unload or a program is on top.
LEMMA OwedByRun ==
    ASSUME TypeOK, StackOrder, StackShape, stack # <<>>,
           Top.op = "unload" \/ (Top.op = "exec" /\ Top.pc # "setup")
    PROVE  \A k \in Modules : ~Owed(k)
  <1>1. \A i \in 1..Len(stack) :
            /\ stack[i].op \in {"exec", Top.op}
            /\ i < Len(stack) /\ stack[i].op = "exec" => stack[i].pc \in {"run", Top.op}
    BY UnderTop
  <1>2. Len(stack) \in Nat \ {0} /\ Top = stack[Len(stack)]
    BY TopFrame
  <1>3. \A i \in 1..Len(stack) : \A k \in Modules : ~Owes(stack[i], k)
    BY <1>1, <1>2 DEF Owes
  <1>4. QED
    BY <1>3 DEF Owed

\* While a program runs, and when exec ends, nothing is left half loaded.
LEMMA NoneZero ==
    ASSUME TypeOK, StackOrder, StackShape, Reach,
           stack = <<>> \/ (Top.op = "exec" /\ Top.pc # "setup"),
           NEW m \in Modules
    PROVE  ~Zero(m)
  <1>1. CASE stack = <<>>
    <2>1. Len(stack) = 0
      BY <1>1, EmptySeq
    <2>2. QED
      BY <2>1, NothingOwed DEF Grey, Owed
  <1>2. CASE stack # <<>>
    <2>1. \A i \in 1..Len(stack) : stack[i].op = "exec"
      BY <1>2, FramesBelow
    <2>2. Zero(m) => Grey(m)
      BY <1>2, OwedByRun, NothingOwed
    <2>3. QED
      BY <2>1, <2>2 DEF Grey, InWork
  <1>3. QED
    BY <1>1, <1>2

\* A module that is held is counted, and a count makes it relocated unless
\* its relocation is under way.
LEMMA HeldCounted ==
    ASSUME TypeOK, CountInv, NEW m \in Modules, Pending(m) <= 0,
           \/ ExecHolds(m) # {}
           \/ GoneHolds(m) # {}
           \/ ImportHolds(m) # {}
    PROVE  usage[m] > 0
  <1>1. CountOf(m)
    BY DEF CountInv
  <1>2. /\ IsFiniteSet(ExecHolds(m)) /\ Cardinality(ExecHolds(m)) \in Nat
        /\ IsFiniteSet(GoneHolds(m)) /\ Cardinality(GoneHolds(m)) \in Nat
        /\ IsFiniteSet(ImportHolds(m)) /\ Cardinality(ImportHolds(m)) \in Nat
    BY <1>1, FinitePlaces, FS_CardinalityType DEF CountOf
  <1>3. \/ Cardinality(ExecHolds(m)) # 0
        \/ Cardinality(GoneHolds(m)) # 0
        \/ Cardinality(ImportHolds(m)) # 0
    BY <1>2, FS_EmptySet
  <1>4. Pending(m) \in Int /\ usage[m] \in Int
    <2>1. Pending(m) \in Int
      BY DEF Pending
    <2>2. QED
      BY <2>1 DEF TypeOK
  <1>5. QED
    BY <1>1, <1>2, <1>3, <1>4 DEF CountOf

\* The module being unloaded is relocated: its block is there.
LEMMA UnloadCounted ==
    ASSUME TypeOK, RelocInv, CountInv, stack # <<>>, Top.op = "unload", Top.pc = "enter"
    PROVE  /\ usage[Top.mod] > 0
           /\ relocs[Top.mod] = 1
           /\ linked[Top.mod]
  <1>1. Top.mod \in Modules
    BY TopFrame DEF Frame
  <1>2. CountOf(Top.mod) /\ Pending(Top.mod) = -1
    BY <1>1, PendingNow DEF CountInv
  <1>3. /\ Cardinality(ExecHolds(Top.mod)) \in Nat /\ Cardinality(GoneHolds(Top.mod)) \in Nat
        /\ Cardinality(ImportHolds(Top.mod)) \in Nat
    BY <1>2, FinitePlaces, FS_CardinalityType DEF CountOf
  <1>4. usage[Top.mod] \in Int
    BY <1>1 DEF TypeOK
  <1>5. usage[Top.mod] > 0
    BY <1>2, <1>3, <1>4 DEF CountOf
  <1>6. \A i \in 1..Len(stack) : ~Works(i, "reloc")
    BY OnlyUnloads DEF RelocInv
  <1>7. QED
    BY <1>1, <1>5, <1>6 DEF RelocInv, CountedRelocated, RelocatedOnce

-----------------------------------------------------------------------------
(***************************************************************************)
(* module_setup keeps what is known of its frames.                         *)
(***************************************************************************)

\* A step of the frame on top leaves the frames under it alone, if none of
\* them is at work on the same module.
LEMMA SetupFramesKept ==
    ASSUME TypeOK, SetupFrames, OneSetupFrame, stack # <<>>, files' = files,
           \A i \in 1..Len(stack') : InWork(i, "setup")' =>
               \/ i \in 1..(Len(stack) - 1) /\ stack'[i] = stack[i]
               \/ i = Len(stack) /\ stack'[i].mod = Top.mod /\ SetupFrame(stack[i])',
           \A m \in Modules : linked[m] => linked'[m],
           \A m \in Modules \ {Top.mod} : usage'[m] = usage[m] /\ found'[m] = found[m],
           \/ \A i \in 1..(Len(stack) - 1) : InWork(i, "setup") => stack[i].mod # Top.mod
           \/ UNCHANGED <<usage, found>> /\ Len(stack') = Len(stack) - 1
    PROVE  SetupFrames' /\ OneSetupFrame'
  <1>1. Len(stack) \in Nat \ {0} /\ Top = stack[Len(stack)]
    BY TopFrame
  <1>2. \A i \in 1..Len(stack) : stack[i].mod \in Modules /\ stack[i] \in Frame
    BY FrameMods, ElementOfSeq DEF TypeOK
  <1>3. ASSUME NEW i \in 1..(Len(stack) - 1), stack'[i] = stack[i], InWork(i, "setup")',
               i \in 1..Len(stack')
        PROVE  SetupFrame(stack[i])'
    <2> SUFFICES ASSUME NEW f, f = stack[i] PROVE SetupFrame(stack[i])'
      OBVIOUS
    <2>1. InWork(i, "setup") /\ i \in 1..Len(stack) /\ stack'[i] = f
      BY <1>1, <1>3 DEF InWork
    <2>2. SetupFrame(f) /\ f.mod \in Modules /\ f.idx \in Nat
      BY <2>1, <1>2 DEF SetupFrames, Frame
    <2>3. usage'[f.mod] = usage[f.mod] /\ found'[f.mod] = found[f.mod]
      BY <1>3, <2>1, <2>2
    <2>4. linked'[f.mod] /\ Zero(f.mod)'
      BY <2>1, <2>2, <2>3 DEF SetupFrame, Zero
    <2>5. LibsLinked(f.mod, f.idx - 1)'
      BY <2>2 DEF SetupFrame, LibsLinked, Lib, Imports
    <2>6. SetupFrame(f)'
      BY <2>2, <2>3, <2>4, <2>5 DEF SetupFrame
    <2>7. QED
      BY <2>1, <2>6 DEF SetupFrame
  <1>4. SetupFrames'
    BY <1>3 DEF SetupFrames
  <1>5. ASSUME NEW i \in 1..Len(stack'), NEW j \in 1..Len(stack'),
               InWork(i, "setup")', InWork(j, "setup")', stack'[i].mod = stack'[j].mod
        PROVE  i = j
    <2>1. CASE stack'[i] = stack[i] /\ stack'[j] = stack[j] /\ i \in 1..(Len(stack) - 1) /\ j \in 1..(Len(stack) - 1)
      <3>1. InWork(i, "setup") /\ InWork(j, "setup") /\ i \in 1..Len(stack) /\ j \in 1..Len(stack)
        BY <1>1, <1>5, <2>1 DEF InWork
      <3>2. QED
        BY <1>5, <2>1, <3>1 DEF OneSetupFrame
    <2>2. CASE i = Len(stack) /\ j # Len(stack)
      <3>1. j \in 1..(Len(stack) - 1) /\ stack'[j] = stack[j] /\ stack'[i].mod = Top.mod
        BY <1>1, <1>5, <2>2
      <3>2. InWork(j, "setup") /\ stack[j].mod = Top.mod /\ Len(stack') # Len(stack) - 1
        BY <1>1, <1>5, <2>2, <3>1 DEF InWork
      <3>3. QED
        BY <3>1, <3>2
    <2>3. CASE j = Len(stack) /\ i # Len(stack)
      <3>1. i \in 1..(Len(stack) - 1) /\ stack'[i] = stack[i] /\ stack'[j].mod = Top.mod
        BY <1>1, <1>5, <2>3
      <3>2. InWork(i, "setup") /\ stack[i].mod = Top.mod /\ Len(stack') # Len(stack) - 1
        BY <1>1, <1>5, <2>3, <3>1 DEF InWork
      <3>3. QED
        BY <3>1, <3>2
    <2>4. CASE i = Len(stack) /\ j = Len(stack)
      BY <2>4
    <2>5. QED
      BY <1>5, <2>1, <2>2, <2>3, <2>4
  <1>6. QED
    BY <1>4, <1>5 DEF OneSetupFrame

\* What a step of module_setup may change: the block of its own module, which
\* appears or grows, and which no other frame is at work on.
OnTopOnly ==
    /\ files' = files
    /\ \A m \in Modules : linked[m] => linked'[m]
    /\ \A m \in Modules \ {Top.mod} :
           linked'[m] = linked[m] /\ usage'[m] = usage[m] /\ found'[m] = found[m]
    /\ \/ \A i \in 1..(Len(stack) - 1) : InWork(i, "setup") => stack[i].mod # Top.mod
       \/ UNCHANGED heap

\* No other call of module_setup is at work on the module of the call on top.
LEMMA OwnModule ==
    ASSUME TypeOK, SetupFrames, OneSetupFrame, stack # <<>>, Top.op = "setup",
           Top.pc # "enter" \/ ~linked[Top.mod]
    PROVE  \A i \in 1..(Len(stack) - 1) : InWork(i, "setup") => stack[i].mod # Top.mod
  <1>1. Len(stack) \in Nat \ {0} /\ Top = stack[Len(stack)]
    BY TopFrame
  <1>2. CASE Top.pc # "enter"
    <2>1. InWork(Len(stack), "setup") /\ Len(stack) \in 1..Len(stack)
      BY <1>1, <1>2 DEF InWork
    <2>2. QED
      BY <1>1, <2>1 DEF OneSetupFrame
  <1>3. CASE ~linked[Top.mod]
    BY <1>1, <1>3 DEF SetupFrames, SetupFrame, Zero
  <1>4. QED
    BY <1>2, <1>3

\* module_setup returns: its caller waits for this module.
LEMMA SetupCaller ==
    ASSUME TypeOK, TypeOK', StackOrder, StackShape, stack # <<>>, Top.op = "setup", Return,
           stack' # <<>>
    PROVE  /\ Top'.mod \in Modules
           /\ \/ Top'.op = "setup" /\ Top'.pc = "lib" /\ Top.mod = Lib(Top'.mod, Top'.idx)
              \/ Top'.op = "exec" /\ Top'.pc = "setup" /\ Top.mod = Top'.mod
  <1>1. HasCalled(Top', Top) /\ Shape(Top') /\ Top'.op \in {"exec", Top.op}
    BY AfterReturn
  <1>2. Top' \in Frame
    BY NewTop
  <1>3. QED
    BY <1>1, <1>2 DEF HasCalled, Frame

\* module_setup returns.
LEMMA SetupReturns ==
    ASSUME TypeOK, TypeOK', StackOrder, StackShape, SetupInv, stack # <<>>, Top.op = "setup",
           Return, OnTopOnly, NEW n0, n0 = Top.mod,
           d7' = EXEC_OK => linked'[n0],
           d7' = EXEC_OK =>
               /\ Loading
               /\ \/ LibsLinked(n0, Len(Imports(n0)))'
                  \/ UNCHANGED heap /\ Top.pc = "enter"
    PROVE  SetupInv'
  <1>1. /\ Len(stack) \in Nat \ {0} /\ Top = stack[Len(stack)] /\ Top \in Frame
        /\ Top.mod \in Modules
    BY TopFrame DEF Frame
  <1>2. /\ Len(stack') = Len(stack) - 1
        /\ \A i \in 1..(Len(stack) - 1) : stack'[i] = stack[i]
    BY ReturnStack
  <1>3. SetupFrames' /\ OneSetupFrame'
    BY <1>1, <1>2, SetupFramesKept DEF OnTopOnly, heap, SetupInv
  <1>4. SetupResult'
    <2>1. CASE stack' = <<>>
      BY <2>1 DEF SetupResult
    <2>2. CASE stack' # <<>>
      <3>1. /\ Top'.mod \in Modules
            /\ \/ Top'.op = "setup" /\ Top'.pc = "lib" /\ Top.mod = Lib(Top'.mod, Top'.idx)
               \/ Top'.op = "exec" /\ Top'.pc = "setup" /\ Top.mod = Top'.mod
        BY <2>2, SetupCaller
      <3>2. QED
        BY <1>1, <3>1 DEF SetupResult, Lib, Imports, OnTopOnly
    <2>3. QED
      BY <2>1, <2>2
  <1>5. Complete'
    <2>1. SUFFICES ASSUME Loading', NEW m \in Modules, Zero(m)',
                          ~\E i \in 1..Len(stack') : InWork(i, "setup")' /\ stack'[i].mod = m
                   PROVE  LibsLinked(m, Len(Imports(m)))'
      BY DEF Complete
    <2>2. d7' = EXEC_OK /\ Loading
      <3>1. stack' # <<>>
        BY <2>1 DEF Loading
      <3>2. \/ Top'.op = "setup" /\ Top'.pc = "lib"
            \/ Top'.op = "exec" /\ Top'.pc = "setup"
        BY <3>1, SetupCaller
      <3>3. QED
        BY <2>1, <3>2 DEF Loading
    <2>3. CASE m = n0 /\ LibsLinked(n0, Len(Imports(n0)))'
      BY <2>3
    <2>4. CASE m # Top.mod \/ (UNCHANGED heap /\ Top.pc = "enter")
      <3>1. Zero(m)
        BY <2>1, <2>4 DEF Zero, OnTopOnly, heap
      <3>2. ~\E i \in 1..Len(stack) : InWork(i, "setup") /\ stack[i].mod = m
        <4>1. SUFFICES ASSUME NEW i \in 1..Len(stack), InWork(i, "setup"), stack[i].mod = m
                       PROVE  FALSE
          OBVIOUS
        <4>2. i # Len(stack)
          BY <1>1, <2>4, <4>1 DEF InWork
        <4>3. i \in 1..(Len(stack) - 1) /\ i \in 1..Len(stack')
          BY <1>1, <1>2, <4>2
        <4>4. InWork(i, "setup")' /\ stack'[i].mod = m
          BY <1>2, <4>1, <4>3 DEF InWork
        <4>5. QED
          BY <2>1, <4>3, <4>4
      <3>3. LibsLinked(m, Len(Imports(m)))
        BY <2>2, <3>1, <3>2 DEF Complete, SetupInv
      <3>4. QED
        BY <3>3 DEF LibsLinked, Lib, Imports, OnTopOnly
    <2>5. QED
      BY <2>2, <2>3, <2>4
  <1>6. QED
    BY <1>3, <1>4, <1>5 DEF SetupInv

\* module_setup goes on, or calls itself for a library.
LEMMA SetupWorks ==
    ASSUME TypeOK, TypeOK', StackOrder, StackShape, SetupInv, Loading,
           stack # <<>>, Top.op = "setup",
           Top.pc # "enter" \/ ~linked[Top.mod], OnTopOnly,
           \A i \in 1..(Len(stack) - 1) : i \in 1..Len(stack') => stack'[i] = stack[i],
           \A i \in 1..Len(stack') : i > Len(stack) => stack'[i].pc = "enter",
           Len(stack) \in 1..Len(stack'), NEW f, stack'[Len(stack)] = f, SetupFrame(f)',
           f.mod = Top.mod, f.op = "setup", f.pc # "enter",
           Top'.op = "setup", Top'.pc \in {"enter", "find"}, d7' # EXEC_OK
    PROVE  SetupInv'
  <1>1. /\ Len(stack) \in Nat \ {0} /\ Top = stack[Len(stack)] /\ Top \in Frame
        /\ Top.mod \in Modules
    BY TopFrame DEF Frame
  <1>2. Len(stack') \in Nat
    BY LenProperties DEF TypeOK
  <1>3. SetupFrames' /\ OneSetupFrame'
    <2>1. \A i \in 1..(Len(stack) - 1) : InWork(i, "setup") => stack[i].mod # Top.mod
      BY OwnModule DEF SetupInv
    <2>2. \A i \in 1..Len(stack') : InWork(i, "setup")' =>
               \/ i \in 1..(Len(stack) - 1) /\ stack'[i] = stack[i]
               \/ i = Len(stack) /\ stack'[i].mod = Top.mod /\ SetupFrame(stack[i])'
      <3>1. SUFFICES ASSUME NEW i \in 1..Len(stack'), InWork(i, "setup")'
                     PROVE \/ i \in 1..(Len(stack) - 1) /\ stack'[i] = stack[i]
                           \/ i = Len(stack) /\ stack'[i].mod = Top.mod /\ SetupFrame(stack[i])'
        OBVIOUS
      <3>2. ~(i > Len(stack))
        BY <3>1 DEF InWork
      <3>3. CASE i = Len(stack)
        <4>1. SetupFrame(stack[i])'
          BY <3>3 DEF SetupFrame
        <4>2. QED
          BY <3>3, <4>1
      <3>4. CASE i # Len(stack)
        BY <1>1, <1>2, <3>2, <3>4
      <3>5. QED
        BY <3>3, <3>4
    <2>3. QED
      BY <2>1, <2>2, SetupFramesKept DEF OnTopOnly, SetupInv
  <1>4. SetupResult'
    BY DEF SetupResult, Lib, Imports
  <1>5. Complete'
    <2>1. SUFFICES ASSUME NEW m \in Modules, Zero(m)',
                          ~\E i \in 1..Len(stack') : InWork(i, "setup")' /\ stack'[i].mod = m
                   PROVE  LibsLinked(m, Len(Imports(m)))'
      BY DEF Complete
    <2>2. m # Top.mod
      <3>1. \A i : i = Len(stack) => InWork(i, "setup")' /\ stack'[i].mod = Top.mod
        BY DEF InWork
      <3>2. QED
        BY <2>1, <3>1
    <2>3. Zero(m)
      BY <2>1, <2>2 DEF Zero, OnTopOnly
    <2>4. ~\E i \in 1..Len(stack) : InWork(i, "setup") /\ stack[i].mod = m
      <3>1. SUFFICES ASSUME NEW i \in 1..Len(stack), InWork(i, "setup"), stack[i].mod = m
                     PROVE  FALSE
        OBVIOUS
      <3>2. i \in 1..(Len(stack) - 1) /\ i \in 1..Len(stack')
        BY <1>1, <1>2, <2>2, <3>1
      <3>3. InWork(i, "setup")' /\ stack'[i].mod = m
        BY <3>1, <3>2 DEF InWork
      <3>4. QED
        BY <2>1, <3>2, <3>3
    <2>5. LibsLinked(m, Len(Imports(m)))
      BY <2>3, <2>4 DEF Complete, SetupInv
    <2>6. QED
      BY <2>5 DEF LibsLinked, Lib, Imports, OnTopOnly
  <1>6. QED
    BY <1>3, <1>4, <1>5 DEF SetupInv

\* module_setup returns with an error and leaves the heap as it was.
LEMMA FailedSetup ==
    ASSUME TypeOK, TypeOK', StackOrder, StackShape, SetupInv, stack # <<>>, Top.op = "setup",
           Return, d7' # EXEC_OK, files' = files, UNCHANGED heap
    PROVE  SetupInv'
  <1>1. OnTopOnly
    BY DEF OnTopOnly, heap
  <1>2. QED
    BY <1>1, SetupReturns

\* What the frame on top knows when it is past its tests.
LEMMA TopSetup ==
    ASSUME TypeOK, StackShape, SetupInv, stack # <<>>, Top.op = "setup", Top.pc # "enter"
    PROVE  /\ Top.mod \in Modules /\ Top.idx \in 1..Len(Imports(Top.mod))
           /\ Len(Imports(Top.mod)) \in Nat /\ Top.idx \in Nat
           /\ linked[Top.mod] /\ usage[Top.mod] = 0
           /\ found[Top.mod] = IF Top.pc = "find" THEN Top.idx - 1 ELSE Top.idx
           /\ LibsLinked(Top.mod, Top.idx - 1)
  <1>1. /\ Len(stack) \in Nat \ {0} /\ Top = stack[Len(stack)] /\ Top \in Frame
        /\ Top.mod \in Modules /\ Top.idx \in Nat
    BY TopFrame DEF Frame
  <1>2. Shape(Top)
    BY <1>1 DEF StackShape
  <1>3. InWork(Len(stack), "setup") /\ Len(stack) \in 1..Len(stack)
    BY <1>1 DEF InWork
  <1>4. SetupFrame(Top)
    BY <1>1, <1>3 DEF SetupInv, SetupFrames
  <1>5. QED
    BY <1>1, <1>2, <1>4, ImportList DEF Shape, SetupFrame, Zero

\* One more import is done with.
LEMMA NextLibSetup ==
    ASSUME TypeOK, TypeOK', StackOrder, StackShape, SetupInv, Loading,
           stack # <<>>, Top.op = "setup", Top.pc # "enter", OnTopOnly,
           NextLib, linked' = linked, usage' = usage,
           NEW n0, n0 = Top.mod, NEW l0, l0 = Top.idx,
           found'[n0] = l0, Lib(n0, l0) \in Modules => linked[Lib(n0, l0)]
    PROVE  SetupInv'
  <1>1. /\ n0 \in Modules /\ l0 \in 1..Len(Imports(n0)) /\ l0 \in Nat
        /\ linked[n0] /\ usage[n0] = 0 /\ LibsLinked(n0, l0 - 1)
    BY TopSetup
  <1>2. LibsLinked(n0, l0)
    <2>1. SUFFICES ASSUME NEW l \in 1..l0, Lib(n0, l) \in Modules PROVE linked[Lib(n0, l)]
      BY DEF LibsLinked
    <2>2. l = l0 \/ l \in 1..(l0 - 1)
      BY <1>1
    <2>3. QED
      BY <1>1, <2>1, <2>2 DEF LibsLinked
  <1>3. CASE l0 = Len(Imports(n0))
    <2>1. Return /\ d7' = EXEC_OK
      BY <1>3 DEF NextLib
    <2>2. LibsLinked(n0, Len(Imports(n0)))'
      BY <1>2, <1>3 DEF LibsLinked, Lib, Imports, OnTopOnly
    <2>3. QED
      BY <1>1, <2>1, <2>2, SetupReturns
  <1>4. CASE l0 # Len(Imports(n0))
    <2>1. Goto("find", l0 + 1) /\ d7' = EXEC_LIB_NOT_FOUND
      BY <1>4 DEF NextLib
    <2>2. "find" \in Places /\ l0 + 1 \in Nat
      BY <1>1 DEF Places
    <2> DEFINE f == [op |-> "setup", mod |-> n0, pc |-> "find", idx |-> l0 + 1]
    <2>3. /\ Len(stack') = Len(stack)
          /\ \A i \in 1..(Len(stack) - 1) : stack'[i] = stack[i]
          /\ stack'[Len(stack)] = f
      BY <2>1, <2>2, GotoStack
    <2>4. Top' = f
      BY <2>1, <2>2, AfterGoto
    <2>5. f.op = "setup" /\ f.mod = n0 /\ f.pc = "find" /\ f.idx = l0 + 1
      OBVIOUS
    <2> HIDE DEF f
    <2>6. SetupFrame(f)'
      <3>1. Zero(n0)'
        BY <1>1 DEF Zero
      <3>2. LibsLinked(n0, l0 + 1 - 1)'
        <4>1. l0 + 1 - 1 = l0
          BY <1>1
        <4>2. QED
          BY <1>2, <4>1 DEF LibsLinked, Lib, Imports, OnTopOnly
      <3>3. QED
        BY <1>1, <2>5, <3>1, <3>2 DEF SetupFrame
    <2>7. Len(stack) \in Nat \ {0}
      BY TopFrame
    <2>8. d7' # EXEC_OK
      BY <2>1 DEF EXEC_LIB_NOT_FOUND, EXEC_OK
    <2>9. QED
      BY <2>3, <2>4, <2>5, <2>6, <2>7, <2>8, SetupWorks
  <1>5. QED
    BY <1>3, <1>4

\* Every step of module_setup.
LEMMA SetupStepsKeep ==
    ASSUME TypeOK, TypeOK', StackOrder, StackShape, SetupInv, SetupSteps
    PROVE  SetupInv'
  <1> SUFFICES ASSUME NEW n0, n0 = Top.mod, NEW l0, l0 = Top.idx PROVE SetupInv'
    OBVIOUS
  <1>1. stack # <<>> /\ Top.op = "setup"
    BY DEF SetupSteps, SetupAlreadyDone, SetupTooOld, SetupIncompatible, SetupNoMemory,
         SetupAllocates, SetupLibMissing, SetupRangeError, SetupPseudolib, SetupRecurses,
         SetupLibDone, Allocates, FindsLib, At
  <1>2. /\ n0 \in Modules /\ Len(stack) \in Nat \ {0} /\ Top = stack[Len(stack)]
    BY <1>1, TopFrame DEF Frame
  <1>3. Top.pc \in {"enter", "find"} => d7 # EXEC_OK
    BY <1>1 DEF SetupInv, SetupResult
  <1>4. Top.pc \in {"enter", "find"} => Loading
    BY <1>1 DEF Loading
  <1>5. CASE SetupAlreadyDone
    <2>1. Return /\ d7' = EXEC_OK /\ linked[n0] /\ files' = files /\ UNCHANGED heap
          /\ Top.pc = "enter"
      BY <1>5 DEF SetupAlreadyDone, SetupFails, At
    <2>2. OnTopOnly /\ linked'[n0]
      BY <2>1 DEF OnTopOnly, heap
    <2>3. QED
      BY <1>1, <1>4, <2>1, <2>2, SetupReturns
  <1>6. CASE SetupTooOld \/ SetupIncompatible \/ SetupNoMemory \/ SetupLibMissing
    <2>1. Return /\ files' = files /\ UNCHANGED heap /\ d7' # EXEC_OK
      BY <1>3, <1>6 DEF SetupTooOld, SetupIncompatible, SetupNoMemory, SetupLibMissing,
           Allocates, SetupFails, At, EXEC_OK, EXEC_INCOMPATIBLE, EXEC_NO_MEM
    <2>2. QED
      BY <1>1, <2>1, FailedSetup
  <1>7. ASSUME Top.pc = "find", found' = [found EXCEPT ![n0] = l0],
               UNCHANGED <<files, linked, usage>>
        PROVE  OnTopOnly /\ found'[n0] = l0
    <2>1. \A i \in 1..(Len(stack) - 1) : InWork(i, "setup") => stack[i].mod # Top.mod
      BY <1>1, <1>7, OwnModule DEF SetupInv
    <2>2. QED
      BY <1>2, <1>7, <2>1 DEF OnTopOnly, TypeOK
  <1>8. CASE SetupRangeError
    <2>1. /\ Return /\ d7' # EXEC_OK /\ OnTopOnly
      BY <1>7, <1>8 DEF SetupRangeError, At, EXEC_OK, EXEC_LIB_RANGE_ERR
    <2>2. QED
      BY <1>1, <2>1, SetupReturns
  <1>9. CASE SetupPseudolib
    <2>1. /\ NextLib /\ OnTopOnly /\ linked' = linked /\ usage' = usage /\ found'[n0] = l0
          /\ Top.pc = "find" /\ Lib(n0, l0) \in Pseudolibs
      BY <1>7, <1>9 DEF SetupPseudolib, FindsLib, At
    <2>2. Lib(n0, l0) \notin Modules
      BY <2>1, NamesAssumption
    <2>3. QED
      BY <1>1, <1>4, <2>1, <2>2, NextLibSetup
  <1>10. CASE SetupRecurses
    <2>1. /\ OnTopOnly /\ linked' = linked /\ usage' = usage /\ found'[n0] = l0
          /\ Top.pc = "find" /\ Lib(n0, l0) \in Modules /\ d7' # EXEC_OK
          /\ GoCall("lib", l0, "setup", Lib(n0, l0))
      BY <1>7, <1>10 DEF SetupRecurses, FindsLib, At, EXEC_OK, EXEC_LIB_RANGE_ERR
    <2>2. /\ l0 \in 1..Len(Imports(n0)) /\ l0 \in Nat
          /\ linked[n0] /\ usage[n0] = 0 /\ LibsLinked(n0, l0 - 1)
      BY <1>1, <2>1, TopSetup
    <2>3. "lib" \in Places /\ "setup" \in Routines
      BY DEF Places, Routines
    <2> DEFINE f == [op |-> "setup", mod |-> n0, pc |-> "lib", idx |-> l0]
    <2>4. /\ Len(stack') = Len(stack) + 1
          /\ \A i \in 1..(Len(stack) - 1) : stack'[i] = stack[i]
          /\ stack'[Len(stack)] = f
          /\ stack'[Len(stack) + 1] = [op |-> "setup", mod |-> Lib(n0, l0), pc |-> "enter", idx |-> 0]
      BY <1>1, <2>1, <2>2, <2>3, GoCallStack
    <2>5. Top' = [op |-> "setup", mod |-> Lib(n0, l0), pc |-> "enter", idx |-> 0]
      BY <1>1, <2>1, <2>2, <2>3, AfterCall
    <2>6. f.op = "setup" /\ f.mod = n0 /\ f.pc = "lib" /\ f.idx = l0
      OBVIOUS
    <2> HIDE DEF f
    <2>7. SetupFrame(f)'
      <3>1. Zero(n0)'
        BY <2>1, <2>2 DEF Zero
      <3>2. LibsLinked(n0, l0 - 1)'
        BY <2>1, <2>2 DEF LibsLinked, Lib, Imports, OnTopOnly
      <3>3. QED
        BY <2>1, <2>2, <2>6, <3>1, <3>2 DEF SetupFrame
    <2>8. /\ \A i \in 1..Len(stack') : i > Len(stack) => stack'[i].pc = "enter"
          /\ Len(stack) \in 1..Len(stack')
          /\ Top'.op = "setup" /\ Top'.pc = "enter"
      BY <1>2, <2>4, <2>5
    <2>9. QED
      BY <1>1, <1>2, <1>4, <2>1, <2>4, <2>6, <2>7, <2>8, SetupWorks
  <1>11. CASE SetupLibDone
    <2>1. Top.pc = "lib" /\ files' = files /\ UNCHANGED heap
      BY <1>11 DEF SetupLibDone, At
    <2>2. CASE d7 = EXEC_OK
      <3>1. NextLib /\ linked' = linked /\ usage' = usage /\ OnTopOnly /\ Loading
        BY <1>1, <1>11, <2>1, <2>2 DEF SetupLibDone, OnTopOnly, heap, Loading
      <3>2. found'[n0] = l0
        BY <1>1, <2>1, TopSetup DEF heap
      <3>3. Lib(n0, l0) \in Modules => linked[Lib(n0, l0)]
        BY <1>1, <2>1, <2>2 DEF SetupInv, SetupResult
      <3>4. QED
        BY <1>1, <2>1, <3>1, <3>2, <3>3, NextLibSetup
    <2>3. CASE d7 # EXEC_OK
      <3>1. Return /\ d7' # EXEC_OK
        BY <1>11, <2>3 DEF SetupLibDone
      <3>2. QED
        BY <1>1, <2>1, <3>1, FailedSetup
    <2>4. QED
      BY <2>2, <2>3
  <1>12. CASE SetupAllocates
    <2>1. /\ Top.pc = "enter" /\ ~linked[n0] /\ files' = files
          /\ linked' = [linked EXCEPT ![n0] = TRUE]
          /\ usage' = [usage EXCEPT ![n0] = 0]
          /\ found' = [found EXCEPT ![n0] = 0]
      BY <1>12 DEF SetupAllocates, Allocates, At
    <2>2. linked'[n0] /\ usage'[n0] = 0 /\ found'[n0] = 0 /\ OnTopOnly
      <3>1. \A i \in 1..(Len(stack) - 1) : InWork(i, "setup") => stack[i].mod # Top.mod
        BY <1>1, <2>1, OwnModule DEF SetupInv
      <3>2. QED
        BY <1>2, <2>1, <3>1 DEF OnTopOnly, TypeOK
    <2>3. CASE Imports(n0) = <<>>
      <3>1. Return /\ d7' = EXEC_OK
        BY <1>12, <2>3 DEF SetupAllocates
      <3>2. LibsLinked(n0, Len(Imports(n0)))'
        BY <2>1, <2>3, EmptySeq DEF LibsLinked, Lib, Imports
      <3>3. QED
        BY <1>1, <1>4, <2>1, <2>2, <3>1, <3>2, SetupReturns
    <2>4. CASE Imports(n0) # <<>>
      <3>1. Goto("find", 1) /\ d7' # EXEC_OK
        BY <1>12, <2>4 DEF SetupAllocates, EXEC_OK, EXEC_LIB_NOT_FOUND
      <3>2. "find" \in Places /\ 1 \in Nat
        BY DEF Places
      <3> DEFINE f == [op |-> "setup", mod |-> n0, pc |-> "find", idx |-> 1]
      <3>3. /\ Len(stack') = Len(stack)
            /\ \A i \in 1..(Len(stack) - 1) : stack'[i] = stack[i]
            /\ stack'[Len(stack)] = f
        BY <1>1, <3>1, <3>2, GotoStack
      <3>4. Top' = f
        BY <1>1, <3>1, <3>2, AfterGoto
      <3>5. f.op = "setup" /\ f.mod = n0 /\ f.pc = "find" /\ f.idx = 1
        OBVIOUS
      <3> HIDE DEF f
      <3>6. SetupFrame(f)'
        <4>1. Zero(n0)'
          BY <2>2 DEF Zero
        <4>2. LibsLinked(n0, 1 - 1)'
          BY DEF LibsLinked
        <4>3. QED
          BY <2>2, <3>5, <4>1, <4>2 DEF SetupFrame
      <3>7. QED
        BY <1>1, <1>2, <1>4, <2>1, <2>2, <3>1, <3>3, <3>4, <3>5, <3>6, SetupWorks
    <2>5. QED
      BY <2>3, <2>4
  <1>13. QED
    BY <1>5, <1>6, <1>8, <1>9, <1>10, <1>11, <1>12 DEF SetupSteps

\* Above the exec calls the stack is of one routine.
LEMMA NewFramesBelow ==
    ASSUME TypeOK', StackOrder', stack' # <<>>
    PROVE  \A i \in 1..Len(stack') : stack'[i].op \in {"exec", Top'.op}
  BY NewTop DEF StackOrder

\* A step that does not touch what SetupInv is about.
LEMMA SetupUnchanged ==
    ASSUME SetupInv, UNCHANGED <<files, stack, heap, d7>>
    PROVE  SetupInv'
  <1>1. linked' = linked /\ usage' = usage /\ found' = found
    BY DEF heap
  <1>2. SetupFrames' /\ OneSetupFrame'
    BY <1>1 DEF SetupInv, SetupFrames, OneSetupFrame, InWork, SetupFrame, Zero, LibsLinked,
         Lib, Imports
  <1>3. SetupResult'
    BY <1>1 DEF SetupInv, SetupResult, Top, Lib, Imports
  <1>4. Complete'
    BY <1>1 DEF SetupInv, Complete, Loading, Top, InWork, Zero, LibsLinked, Lib, Imports
  <1>5. QED
    BY <1>2, <1>3, <1>4 DEF SetupInv

\* The next program is loaded when nothing is half loaded.
LEMMA ExecLoadsSetup ==
    ASSUME TypeOK, TypeOK', RelocInv, StackShape, Reach, NEW n \in Modules, ExecLoads(n)
    PROVE  SetupInv'
  <1>1. /\ stack = <<>> \/ (Top.op = "exec" /\ Top.pc # "setup")
        /\ UNCHANGED heap /\ files' = files /\ d7' = CallerD7
    BY DEF ExecLoads, Quiet, Idle, InProgram, At
  <1>2. d7' # EXEC_OK
    BY <1>1, CallerAssumption DEF EXEC_OK
  <1>3. /\ Len(stack') = Len(stack) + 2
        /\ \A i \in 1..Len(stack) : stack'[i] = stack[i]
        /\ stack'[Len(stack) + 1] = ExecFrame(n)
        /\ stack'[Len(stack) + 2] = Call("setup", n)
        /\ Len(stack) \in Nat
    BY ExecStack, LenProperties DEF TypeOK
  <1>4. \A i \in 1..Len(stack') : ~InWork(i, "setup")'
    <2>1. \A i \in 1..Len(stack) : stack[i].op = "exec"
      BY <1>1, FramesBelow, EmptySeq DEF RelocInv
    <2>2. /\ stack'[Len(stack) + 1].op = "exec" /\ stack'[Len(stack) + 2].pc = "enter"
      BY <1>3 DEF ExecFrame, Call
    <2>3. ASSUME NEW i \in 1..Len(stack') PROVE ~(stack'[i].op = "setup" /\ stack'[i].pc # "enter")
      <3>1. i \in 1..Len(stack) \/ i = Len(stack) + 1 \/ i = Len(stack) + 2
        BY <1>3
      <3>2. QED
        BY <1>3, <2>1, <2>2, <3>1
    <2>4. QED
      BY <2>3 DEF InWork
  <1>5. Top'.op = "setup" /\ Top'.pc = "enter"
    BY AfterExec
  <1>6. \A m \in Modules : ~Zero(m)'
    <2>1. \A m \in Modules : ~Zero(m)
      BY <1>1, NoneZero DEF RelocInv
    <2>2. QED
      BY <1>1, <2>1 DEF Zero, heap
  <1>7. SetupFrames' /\ OneSetupFrame'
    BY <1>4 DEF SetupFrames, OneSetupFrame
  <1>8. SetupResult'
    BY <1>2, <1>5 DEF SetupResult
  <1>9. Complete'
    BY <1>6 DEF Complete
  <1>10. QED
    BY <1>7, <1>8, <1>9 DEF SetupInv

\* Exec is back from module_setup, or from load_cleanup, only when it returned.
LEMMA BackFrom ==
    ASSUME TypeOK, TypeOK', StackOrder, StackShape, [Next]_vars,
           stack' # <<>>, Top'.op = "exec", NEW op \in {"setup", "cleanup"}, Top'.pc = op
    PROVE  \/ op = "setup" /\ SetupSteps
           \/ op = "cleanup" /\ CleanupSteps
           \/ UNCHANGED <<files, stack, heap, d7, abandoned>>
  <1>1. ASSUME stack # <<>>, Return PROVE Top.op = op
    <2>1. HasCalled(Top', Top) /\ Top'.op \in {"exec", Top.op}
      BY <1>1, AfterReturn
    <2>2. QED
      BY <2>1 DEF HasCalled
  <1>2. ASSUME stack # <<>>, NEW pc \in Places, NEW k \in Nat, Goto(pc, k)
        PROVE  Top.op = "exec" /\ pc = op
    BY <1>2, AfterGoto
  <1>3. ASSUME stack # <<>>, NEW pc \in Places, NEW k \in Nat,
               NEW r \in Routines, NEW m \in Modules, GoCall(pc, k, r, m)
        PROVE  r = "exec"
    BY <1>3, AfterCall
  <1>4. /\ {"setup", "cleanup", "reloc", "unload", "run", "caught", "find", "lib", "libs"}
              \subseteq Places
        /\ {"setup", "cleanup", "reloc", "unload"} \subseteq Routines
        /\ 0 \in Nat /\ 1 \in Nat
    BY DEF Places, Routines
  <1>5. ASSUME stack # <<>>
        PROVE  Top \in Frame /\ Top.mod \in Modules /\ Top.idx \in Nat /\ Top.idx + 1 \in Nat
    BY <1>5, TopFrame DEF Frame
  <1>6. ~(ExecFails \/ ExecReturns)
    BY <1>1 DEF ExecFails, ExecReturns, At
  <1>7. ~(ExecRuns \/ ProgramThrows)
    BY <1>2, <1>4 DEF ExecRuns, ProgramThrows, InProgram, At
  <1>8. ~ThrowStop
    BY AfterThrow
  <1>9. ~\E m \in Modules : ExecLoads(m)
    BY AfterExec
  <1>10. ~(LoadRelocates \/ LoadCleansUp \/ ProgramReturns)
    BY <1>3, <1>4, <1>5 DEF LoadRelocates, LoadCleansUp, ProgramReturns, InProgram, At
  <1>11. CASE SetupSteps
    <2>1. /\ stack # <<>> /\ Top.op = "setup"
          /\ \/ Return
             \/ \E pc \in Places, k \in Nat : Goto(pc, k)
             \/ \E pc \in Places, k \in Nat, m \in Modules : GoCall(pc, k, "setup", m)
      BY <1>4, <1>5, <1>11 DEF SetupSteps, SetupAlreadyDone, SetupTooOld, SetupIncompatible,
           SetupNoMemory, SetupAllocates, Allocates, SetupLibMissing, SetupRangeError, SetupPseudolib,
           SetupRecurses, SetupLibDone, SetupFails, FindsLib, NextLib, At
    <2>2. QED
      BY <1>1, <1>2, <1>3, <1>4, <1>11, <2>1
  <1>12. CASE CleanupSteps \/ RelocSteps \/ UnloadSteps
    <2>1. /\ stack # <<>> /\ Top.op \in {"cleanup", "reloc", "unload"}
          /\ Top.op = "cleanup" => CleanupSteps
          /\ \/ Return
             \/ \E pc \in Places, k \in Nat : Goto(pc, k)
             \/ \E pc \in Places, k \in Nat, r \in {"cleanup", "reloc", "unload"}, m \in Modules :
                    GoCall(pc, k, r, m)
      BY <1>4, <1>5, <1>12 DEF CleanupSteps, CleanupNothing, CleanupStarts, CleanupLib, CleanupFrees,
           FreeLinkinfo, RelocSteps, RelocShared, RelocFirst, RecurseLib, RelocAdds,
           UnloadSteps, UnloadShared, UnloadLast, UnloadFrees, At
    <2>2. QED
      BY <1>1, <1>2, <1>3, <1>4, <2>1
  <1>13. QED
    BY <1>6, <1>7, <1>8, <1>9, <1>10, <1>11, <1>12
       DEF Next, KernelStep, ProgramStep, ThrowStep, Halted, ExecSteps, ExecRefused, QuitThrown, vars, heap

\* The steps that come back to exec while it sets a program up.
LEMMA BackInExec ==
    ASSUME TypeOK, TypeOK', StackOrder, StackShape, [Next]_vars,
           stack' # <<>>, Top'.op = "exec", Top'.pc = "setup"
    PROVE  SetupSteps \/ UNCHANGED <<files, stack, heap, d7, abandoned>>
  BY BackFrom

\* module_reloc frees nothing, and a module it counts stays counted.
LEMMA RelocKeeps ==
    ASSUME TypeOK, CountInv, stack # <<>>, RelocSteps \/ LoadRelocates
    PROVE  /\ files' = files /\ linked' = linked /\ found' = found
           /\ \A m \in Modules : Zero(m)' => Zero(m)
  <1>1. Top.mod \in Modules
    BY TopFrame DEF Frame
  <1>2. \A m \in Modules : usage[m] \in Int /\ usage[m] >= 0
    BY DEF TypeOK, CountInv, CountOf
  <1>3. /\ files' = files /\ linked' = linked /\ found' = found
        /\ \/ usage' = usage
           \/ usage' = [usage EXCEPT ![Top.mod] = @ + 1]
           \/ usage' = [usage EXCEPT ![Top.mod] = 1]
    BY DEF RelocSteps, LoadRelocates, RelocShared, RelocFirst, RecurseLib, RelocAdds, heap
  <1>4. \A m \in Modules : usage'[m] = 0 => usage[m] = 0
    BY <1>1, <1>2, <1>3 DEF TypeOK
  <1>5. QED
    BY <1>3, <1>4 DEF Zero

\* The module_reloc that is on top was called by a load that had not failed.
LEMMA RelocLoads ==
    ASSUME TypeOK, StackOrder, SetupInv, stack # <<>>,
           \/ Top.op = "reloc"
           \/ Top.op = "exec" /\ Top.pc = "setup" /\ d7 = EXEC_OK,
           NEW m \in Modules, Zero(m)
    PROVE  LibsLinked(m, Len(Imports(m)))
  <1>1. \A i \in 1..Len(stack) : ~InWork(i, "setup")
    BY FramesBelow DEF InWork
  <1>2. Loading
    BY DEF Loading
  <1>3. QED
    BY <1>1, <1>2 DEF SetupInv, Complete

\* Every step keeps what is known of module_setup.
LEMMA NextSetup ==
    ASSUME TypeOK, TypeOK', RelocInv, StackOrder', StackShape, CountInv, SetupInv, Reach,
           [Next]_vars
    PROVE  SetupInv'
  <1>1. CASE SetupSteps
    BY <1>1, SetupStepsKeep DEF RelocInv
  <1>2. CASE \E m \in Modules : ExecLoads(m)
    BY <1>2, ExecLoadsSetup
  <1>3. CASE UNCHANGED <<files, stack, heap, d7>>
    BY <1>3, SetupUnchanged
  <1>4. CASE stack' = <<>>
    <2>1. Len(stack') = 0
      BY <1>4, EmptySeq
    <2>2. SetupFrames' /\ OneSetupFrame' /\ SetupResult' /\ Complete'
      BY <1>4, <2>1 DEF SetupFrames, OneSetupFrame, SetupResult, Complete, Loading
    <2>3. QED
      BY <2>2 DEF SetupInv
  <1>5. CASE stack' # <<>> /\ Top'.op = "setup"
    <2>1. StepOf(Top'.op)
      BY <1>5, PhaseSteps DEF RelocInv
    <2>2. SetupSteps \/ (\E m \in Modules : ExecLoads(m)) \/ UNCHANGED <<files, stack, heap, d7>>
      BY <1>5, <2>1 DEF StepOf, vars, heap
    <2>3. QED
      BY <1>1, <1>2, <1>3, <2>2
  <1>6. ASSUME stack' # <<>>, Top'.op # "setup"
        PROVE  SetupFrames' /\ OneSetupFrame'
    <2>1. \A i \in 1..Len(stack') : ~InWork(i, "setup")'
      BY <1>6, NewFramesBelow DEF InWork
    <2>2. QED
      BY <2>1 DEF SetupFrames, OneSetupFrame
  <1>7. CASE stack' # <<>> /\ Top'.op = "exec" /\ Top'.pc = "setup"
    BY <1>1, <1>3, <1>7, BackInExec DEF RelocInv
  <1>8. CASE stack' # <<>> /\ Top'.op = "reloc"
    <2>1. StepOf(Top'.op)
      BY <1>8, PhaseSteps DEF RelocInv
    <2>2. CASE UNCHANGED vars
      BY <1>3, <2>2 DEF vars, heap
    <2>3. CASE RelocSteps \/ LoadRelocates
      <3>1. /\ stack # <<>>
            /\ \/ Top.op = "reloc"
               \/ Top.op = "exec" /\ Top.pc = "setup" /\ d7 = EXEC_OK
        BY <2>3 DEF RelocSteps, LoadRelocates, RelocShared, RelocFirst, RecurseLib, RelocAdds, At
      <3>2. /\ files' = files /\ linked' = linked
            /\ \A m \in Modules : Zero(m)' => Zero(m)
        BY <2>3, <3>1, RelocKeeps
      <3>3. \A m \in Modules : Zero(m) => LibsLinked(m, Len(Imports(m)))
        BY <3>1, RelocLoads DEF RelocInv
      <3>4. \A m \in Modules : Zero(m)' => LibsLinked(m, Len(Imports(m)))'
        BY <3>2, <3>3 DEF LibsLinked, Lib, Imports
      <3>5. Complete'
        BY <3>4 DEF Complete
      <3>6. SetupResult'
        BY <1>8 DEF SetupResult
      <3>7. QED
        BY <1>6, <1>8, <3>5, <3>6 DEF SetupInv
    <2>4. QED
      BY <1>8, <2>1, <2>2, <2>3 DEF StepOf
  <1>9. CASE /\ stack' # <<>>
             /\ Top'.op \in {"cleanup", "unload"} \/ (Top'.op = "exec" /\ Top'.pc # "setup")
    <2>1. SetupResult' /\ Complete'
      BY <1>9 DEF SetupResult, Complete, Loading
    <2>2. QED
      BY <1>6, <1>9, <2>1 DEF SetupInv
  <1>10. stack' # <<>> => Top'.op \in Routines
    BY NewTop DEF Frame
  <1>11. QED
    BY <1>4, <1>5, <1>7, <1>8, <1>9, <1>10 DEF Routines

-----------------------------------------------------------------------------
(* module_reloc works on modules that are set up. *)

\* What module_reloc works on stays set up.
LEMMA NextRelocsLinked ==
    ASSUME TypeOK, TypeOK', RelocInv, StackOrder', StackShape, CountInv, SetupInv, RelocsLinked,
           [Next]_vars
    PROVE  RelocsLinked'
  <1> SUFFICES ASSUME NEW n0, n0 = Top.mod, NEW l0, l0 = Top.idx PROVE RelocsLinked'
    OBVIOUS
  <1>1. CASE stack' = <<>>
    <2>1. Len(stack') = 0
      BY <1>1, EmptySeq
    <2>2. QED
      BY <2>1 DEF RelocsLinked
  <1>2. CASE stack' # <<>> /\ Top'.op # "reloc"
    BY <1>2, NewFramesBelow DEF RelocsLinked
  <1>3. CASE UNCHANGED vars
    BY <1>3 DEF vars, RelocsLinked, RelocFrame, LibsLinked, Lib, Imports
  <1>4. CASE RelocSteps \/ LoadRelocates
    <2>1. /\ stack # <<>>
          /\ \/ Top.op = "reloc"
             \/ Top.op = "exec" /\ Top.pc = "setup" /\ d7 = EXEC_OK
      BY <1>4 DEF RelocSteps, LoadRelocates, RelocShared, RelocFirst, RecurseLib, RelocAdds, At
    <2>2. /\ n0 \in Modules /\ Len(stack) \in Nat \ {0} /\ Top = stack[Len(stack)]
          /\ Len(stack) \in 1..Len(stack) /\ l0 \in Nat /\ l0 + 1 \in Nat
      BY <2>1, TopFrame DEF Frame
    <2>3. files' = files /\ linked' = linked
      BY <1>4, <2>1, RelocKeeps
    <2>4. \A f : RelocFrame(f) => RelocFrame(f)'
      BY <2>3 DEF RelocFrame, LibsLinked, Lib, Imports
    <2>5. SUFFICES \A i \in 1..Len(stack') : stack'[i].op = "reloc" =>
                       \E f : stack'[i] = f /\ RelocFrame(f)'
      BY DEF RelocsLinked, RelocFrame
    <2>6. ASSUME NEW i \in 1..(Len(stack) - 1), stack'[i] = stack[i], stack'[i].op = "reloc"
          PROVE  \E f : stack'[i] = f /\ RelocFrame(f)'
      BY <2>2, <2>4, <2>6 DEF RelocsLinked
    <2>7. Top.op = "reloc" => RelocFrame(Top)
      BY <2>2 DEF RelocsLinked
    <2>8. {"reloc", "libs"} \subseteq Places /\ "reloc" \in Routines /\ 0 \in Nat /\ 1 \in Nat
      BY DEF Places, Routines
    <2>9. CASE RelocShared \/ RelocAdds
      <3>1. Len(stack') = Len(stack) - 1 /\ \A i \in 1..(Len(stack) - 1) : stack'[i] = stack[i]
        BY <2>1, <2>9, ReturnStack DEF RelocShared, RelocAdds
      <3>2. QED
        BY <2>2, <2>6, <3>1
    <2>10. CASE RelocFirst
      <3>1. Goto("libs", 1) /\ linked[n0] /\ usage[n0] = 0 /\ Top.op = "reloc"
        BY <2>10 DEF RelocFirst, At
      <3>2. LibsLinked(n0, Len(Imports(n0)))
        BY <2>1, <2>2, <3>1, RelocLoads DEF Zero, RelocInv
      <3> DEFINE f == [op |-> "reloc", mod |-> n0, pc |-> "libs", idx |-> 1]
      <3>3. /\ Len(stack') = Len(stack)
            /\ \A i \in 1..(Len(stack) - 1) : stack'[i] = stack[i]
            /\ stack'[Len(stack)] = f
        BY <2>1, <2>8, <3>1, GotoStack
      <3>4. RelocFrame(f)
        BY <3>1, <3>2 DEF RelocFrame
      <3> HIDE DEF f
      <3>5. QED
        BY <2>2, <2>4, <2>6, <3>3, <3>4
    <2>11. CASE RecurseLib("reloc")
      <3>1. /\ Top.op = "reloc" /\ Top.pc = "libs" /\ l0 <= Len(Imports(n0))
            /\ IF Lib(n0, l0) \in Modules THEN GoCall("libs", l0 + 1, "reloc", Lib(n0, l0))
               ELSE Goto("libs", l0 + 1)
        BY <2>11 DEF RecurseLib, At
      <3>2. l0 \in 1..Len(Imports(n0))
        BY <2>1, <3>1, RecurseStack
      <3>3. linked[n0] /\ LibsLinked(n0, Len(Imports(n0)))
        BY <2>7, <3>1 DEF RelocFrame
      <3> DEFINE f == [op |-> "reloc", mod |-> n0, pc |-> "libs", idx |-> l0 + 1]
                 g == [op |-> "reloc", mod |-> Lib(n0, l0), pc |-> "enter", idx |-> 0]
      <3>4. RelocFrame(f)
        BY <3>3 DEF RelocFrame
      <3>5. CASE Lib(n0, l0) \in Modules
        <4>1. GoCall("libs", l0 + 1, "reloc", Lib(n0, l0))
          BY <3>1, <3>5
        <4>2. /\ Len(stack') = Len(stack) + 1
              /\ \A i \in 1..(Len(stack) - 1) : stack'[i] = stack[i]
              /\ stack'[Len(stack)] = f
              /\ stack'[Len(stack) + 1] = g
          BY <2>1, <2>2, <2>8, <3>1, <3>5, <4>1, GoCallStack
        <4>3. RelocFrame(g)
          BY <3>2, <3>3, <3>5 DEF RelocFrame, LibsLinked
        <4> HIDE DEF f, g
        <4>4. ASSUME NEW i \in 1..Len(stack')
              PROVE  i \in 1..(Len(stack) - 1) \/ i = Len(stack) \/ i = Len(stack) + 1
          BY <2>2, <4>2
        <4>5. QED
          BY <2>4, <2>6, <3>4, <4>2, <4>3, <4>4
      <3>6. CASE Lib(n0, l0) \notin Modules
        <4>1. Goto("libs", l0 + 1)
          BY <3>1, <3>6
        <4>2. /\ Len(stack') = Len(stack)
              /\ \A i \in 1..(Len(stack) - 1) : stack'[i] = stack[i]
              /\ stack'[Len(stack)] = f
          BY <2>1, <2>2, <2>8, <3>1, <4>1, GotoStack
        <4> HIDE DEF f, g
        <4>3. QED
          BY <2>2, <2>4, <2>6, <3>4, <4>2
      <3>7. QED
        BY <3>5, <3>6
    <2>12. CASE LoadRelocates
      <3>1. GoCall("reloc", 0, "reloc", n0) /\ Top.op = "exec" /\ Top.pc = "setup" /\ d7 = EXEC_OK
        BY <2>12 DEF LoadRelocates, At
      <3>2. linked[n0]
        BY <2>1, <3>1 DEF SetupInv, SetupResult
      <3> DEFINE g == [op |-> "reloc", mod |-> n0, pc |-> "enter", idx |-> 0]
      <3>3. /\ Len(stack') = Len(stack) + 1
            /\ \A i \in 1..(Len(stack) - 1) : stack'[i] = stack[i]
            /\ stack'[Len(stack)] = [op |-> Top.op, mod |-> Top.mod, pc |-> "reloc", idx |-> 0]
            /\ stack'[Len(stack) + 1] = g
        BY <2>1, <2>2, <2>8, <3>1, GoCallStack
      <3>4. RelocFrame(g) /\ stack'[Len(stack)].op = "exec"
        BY <3>1, <3>2, <3>3 DEF RelocFrame
      <3> HIDE DEF g
      <3>5. ASSUME NEW i \in 1..Len(stack')
            PROVE  i \in 1..(Len(stack) - 1) \/ i = Len(stack) \/ i = Len(stack) + 1
        BY <2>2, <3>3
      <3>6. QED
        BY <2>4, <2>6, <3>3, <3>4, <3>5
    <2>13. QED
      BY <1>4, <2>9, <2>10, <2>11, <2>12 DEF RelocSteps
  <1>5. CASE stack' # <<>> /\ Top'.op = "reloc"
    <2>1. StepOf(Top'.op)
      BY <1>5, PhaseSteps DEF RelocInv
    <2>2. QED
      BY <1>3, <1>4, <1>5, <2>1 DEF StepOf
  <1>6. QED
    BY <1>1, <1>2, <1>5

-----------------------------------------------------------------------------
(* load_cleanup takes away what nothing counts, one module at a time. *)

\* Only one load_cleanup is past its test on a module it is about to free.
LEMMA OneCleanup ==
    ASSUME TypeOK, StackOrder, StackShape, CleanupFramesOK, stack # <<>>,
           Top.op = "cleanup", Top.pc = "libs", Top.idx > found[Top.mod],
           NEW i \in 1..(Len(stack) - 1), InWork(i, "cleanup")
    PROVE  stack[i].mod # Top.mod
  <1> SUFFICES ASSUME stack[i].mod = Top.mod PROVE FALSE
    OBVIOUS
  <1> DEFINE l == stack[i].idx - 1
  <1>1. /\ Len(stack) \in Nat \ {0} /\ Top = stack[Len(stack)] /\ Top \in Frame
        /\ Top.mod \in Modules /\ Top.idx \in Nat
        /\ i \in 1..Len(stack) /\ i + 1 \in 1..Len(stack) /\ i < i + 1
        /\ found[Top.mod] \in Nat
    <2>1. /\ Len(stack) \in Nat \ {0} /\ Top = stack[Len(stack)] /\ Top \in Frame
          /\ Top.mod \in Modules /\ Top.idx \in Nat
      BY TopFrame DEF Frame
    <2>2. i \in 1..Len(stack) /\ i + 1 \in 1..Len(stack) /\ i < i + 1
      BY <2>1
    <2>3. found[Top.mod] \in Nat
      BY <2>1 DEF TypeOK
    <2>4. QED
      BY <2>1, <2>2, <2>3
  <1>2. stack[i] \in Frame /\ stack[i].idx \in Nat
    <2>1. stack[i] \in Frame
      BY <1>1, ElementOfSeq DEF TypeOK
    <2>2. QED
      BY <2>1 DEF Frame
  <1>3. HasCalled(stack[i], stack[i + 1]) /\ stack[i].op = "cleanup" /\ stack[i].pc # "enter"
    BY <1>1 DEF StackShape, InWork
  <1>4. /\ stack[i].idx > 1 /\ stack[i + 1].op = "cleanup"
        /\ stack[i + 1].mod = Lib(Top.mod, l)
    BY <1>3 DEF HasCalled
  <1>5. InWork(i + 1, "cleanup")
    <2>1. stack[i + 1].pc # "enter"
      BY <1>1, UnderTop
    <2>2. QED
      BY <1>4, <2>1 DEF InWork
  <1>6. Zero(stack[i + 1].mod) /\ stack[i + 1].mod \in Modules
    BY <1>1, <1>5, FrameMods DEF CleanupFramesOK, CleanupFrame
  <1>7. stack[i].idx <= found[Top.mod] + 1
    BY <1>1 DEF CleanupFramesOK, CleanupFrame
  <1>8. l \in 1..(Top.idx - 1)
    BY <1>1, <1>2, <1>4, <1>7
  <1>9. InWork(Len(stack), "cleanup") /\ Len(stack) \in 1..Len(stack) /\ ~(Len(stack) < Len(stack))
    BY <1>1 DEF InWork
  <1>10. ~(Lib(Top.mod, l) \in Modules /\ Zero(Lib(Top.mod, l)))
    <2> HIDE DEF l
    <2>1. QED
      BY <1>1, <1>8, <1>9 DEF CleanupFramesOK
  <1>11. QED
    BY <1>4, <1>6, <1>10

\* A frame of load_cleanup that waits or works, after a step.
CleanupOK(i) ==
    /\ CleanupFrame(stack[i])
    /\ \A l \in 1..(stack[i].idx - 1) :
           Lib(stack[i].mod, l) \in Modules /\ Zero(Lib(stack[i].mod, l))
               => i < Len(stack) /\ l = stack[i].idx - 1

\* CleanupFramesOK, one frame at a time.
LEMMA CleanupAll == CleanupFramesOK <=> \A i \in 1..Len(stack) : InWork(i, "cleanup") => CleanupOK(i)
  BY DEF CleanupFramesOK, CleanupOK

\* A frame under the top that stays there.
LEMMA CleanupUnder ==
    ASSUME TypeOK, CleanupFramesOK, files' = files, UNCHANGED heap,
           NEW i \in 1..(Len(stack) - 1), i < Len(stack'), stack'[i] = stack[i],
           Len(stack) \in Nat, InWork(i, "cleanup")'
    PROVE  CleanupOK(i)'
  <1>1. InWork(i, "cleanup") /\ i \in 1..Len(stack)
    BY DEF InWork
  <1>2. CleanupOK(i)
    BY <1>1, CleanupAll
  <1>3. \A m : Zero(m)' = Zero(m)
    BY DEF Zero, heap
  <1>4. found' = found /\ \A m : \A l : Lib(m, l)' = Lib(m, l)
    BY DEF heap, Lib, Imports
  <1>5. \A f : CleanupFrame(f) => CleanupFrame(f)'
    BY <1>3, <1>4 DEF CleanupFrame
  <1> SUFFICES ASSUME NEW f, f = stack[i] PROVE CleanupOK(i)'
    OBVIOUS
  <1>6. CleanupFrame(stack[i])'
    <2>1. CleanupFrame(f)'
      BY <1>2, <1>5 DEF CleanupOK
    <2>2. QED
      BY <2>1 DEF CleanupFrame, Zero
  <1>7. \A l \in 1..(f.idx - 1) :
           Lib(f.mod, l) \in Modules /\ Zero(Lib(f.mod, l)) => l = f.idx - 1
    BY <1>2 DEF CleanupOK
  <1>8. QED
    BY <1>6, <1>7, <1>4 DEF CleanupOK, Zero, Lib, Imports, heap

\* load_cleanup returns: what it worked on is counted, or gone.
LEMMA CleanupBack ==
    ASSUME TypeOK, TypeOK', StackOrder, StackShape, CleanupFramesOK, files' = files,
           stack # <<>>, Return, Top.op = "cleanup",
           \A m \in Modules : Zero(m)' => Zero(m),
           \A i \in 1..(Len(stack) - 1) : InWork(i, "cleanup") =>
               /\ Zero(stack[i].mod) => linked'[stack[i].mod] /\ usage'[stack[i].mod] = 0
               /\ found'[stack[i].mod] = found[stack[i].mod],
           ~(linked'[Top.mod] /\ usage'[Top.mod] = 0)
    PROVE  CleanupFramesOK'
  <1>1. /\ Len(stack) \in Nat \ {0} /\ Top = stack[Len(stack)] /\ Top \in Frame
        /\ Top.mod \in Modules
    BY TopFrame DEF Frame
  <1>2. /\ Len(stack') = Len(stack) - 1
        /\ \A i \in 1..(Len(stack) - 1) : stack'[i] = stack[i]
    BY ReturnStack
  <1>3. SUFFICES ASSUME NEW i \in 1..(Len(stack) - 1), InWork(i, "cleanup")
                 PROVE  CleanupOK(i)'
    BY <1>2 DEF CleanupFramesOK, CleanupOK, InWork
  <1> SUFFICES ASSUME NEW f, f = stack[i] PROVE CleanupOK(i)'
    OBVIOUS
  <1>4. /\ i \in 1..Len(stack) /\ i + 1 \in 1..Len(stack) /\ stack'[i] = f
        /\ f.op = "cleanup" /\ f.pc # "enter" /\ stack[i] \in Frame
    BY <1>1, <1>2, <1>3, ElementOfSeq DEF InWork, TypeOK
  <1>5. f.mod \in Modules /\ f.idx \in Nat
    BY <1>4 DEF Frame
  <1>6. CleanupOK(i)
    BY <1>3, <1>4, CleanupAll
  <1>7. Zero(f.mod) /\ f.idx <= found[f.mod] + 1
    BY <1>6 DEF CleanupOK, CleanupFrame
  <1>8. linked'[f.mod] /\ usage'[f.mod] = 0 /\ found'[f.mod] = found[f.mod]
    BY <1>3, <1>7
  <1>9. ASSUME NEW l \in 1..(f.idx - 1), Lib(f.mod, l) \in Modules, Zero(Lib(f.mod, l))'
        PROVE  i < Len(stack') /\ l = f.idx - 1
    <2>1. Zero(Lib(f.mod, l))
      <3>1. SUFFICES ASSUME NEW m, m = Lib(f.mod, l) PROVE Zero(m)
        OBVIOUS
      <3>2. Zero(m)'
        BY <1>9, <3>1 DEF Zero, Lib, Imports
      <3>3. QED
        BY <1>9, <3>1, <3>2
    <2>2. l = f.idx - 1
      BY <1>6, <1>9, <2>1 DEF CleanupOK
    <2>3. i < Len(stack')
      <3>1. SUFFICES ASSUME i = Len(stack) - 1 PROVE FALSE
        BY <1>1, <1>2
      <3>2. HasCalled(stack[i], stack[i + 1]) /\ i + 1 = Len(stack)
        BY <1>1, <3>1 DEF StackShape
      <3>3. Top.mod = Lib(f.mod, f.idx - 1)
        BY <1>1, <1>4, <3>2 DEF HasCalled
      <3>4. linked'[Lib(f.mod, l)] /\ usage'[Lib(f.mod, l)] = 0
        BY <1>9 DEF Zero, Lib, Imports
      <3>5. QED
        BY <2>2, <3>3, <3>4
    <2>4. QED
      BY <2>2, <2>3
  <1>10. CleanupFrame(stack[i])'
    BY <1>4, <1>7, <1>8 DEF CleanupFrame, Zero
  <1>11. QED
    BY <1>4, <1>9, <1>10 DEF CleanupOK, Zero, Lib, Imports

\* Every step keeps what is known of load_cleanup.
LEMMA NextCleanupFrames ==
    ASSUME TypeOK, TypeOK', RelocInv, StackOrder', StackShape, CountInv, CleanupFramesOK,
           [Next]_vars
    PROVE  CleanupFramesOK'
  <1> SUFFICES ASSUME NEW n0, n0 = Top.mod, NEW l0, l0 = Top.idx PROVE CleanupFramesOK'
    OBVIOUS
  <1>1. CASE stack' = <<>>
    <2>1. Len(stack') = 0
      BY <1>1, EmptySeq
    <2>2. QED
      BY <2>1 DEF CleanupFramesOK
  <1>2. CASE stack' # <<>> /\ Top'.op # "cleanup"
    BY <1>2, NewFramesBelow DEF CleanupFramesOK, InWork
  <1>3. CASE UNCHANGED vars
    BY <1>3 DEF vars, CleanupFramesOK, CleanupFrame, InWork, Zero, Lib, Imports
  <1>4. CASE LoadCleansUp
    <2>1. stack # <<>> /\ Top.op = "exec" /\ GoCall("cleanup", 0, "cleanup", n0)
      BY <1>4 DEF LoadCleansUp, At
    <2>2. /\ n0 \in Modules /\ Len(stack) \in Nat \ {0} /\ Top = stack[Len(stack)]
      BY <2>1, TopFrame DEF Frame
    <2>3. "cleanup" \in Places /\ 0 \in Nat /\ "cleanup" \in Routines
      BY DEF Places, Routines
    <2>4. /\ Len(stack') = Len(stack) + 1
          /\ \A i \in 1..(Len(stack) - 1) : stack'[i] = stack[i]
          /\ stack'[Len(stack)] = [op |-> Top.op, mod |-> Top.mod, pc |-> "cleanup", idx |-> 0]
          /\ stack'[Len(stack) + 1] = [op |-> "cleanup", mod |-> n0, pc |-> "enter", idx |-> 0]
      BY <2>1, <2>2, <2>3, GoCallStack
    <2>5. stack'[Len(stack)].op = "exec" /\ stack'[Len(stack) + 1].pc = "enter"
      BY <2>1, <2>4
    <2>6. \A i \in 1..(Len(stack) - 1) : stack'[i].op = "exec"
      BY <2>1, <2>2, <2>4, FramesBelow DEF RelocInv
    <2>7. ASSUME NEW i \in 1..Len(stack') PROVE ~(stack'[i].op = "cleanup" /\ stack'[i].pc # "enter")
      <3>1. i \in 1..(Len(stack) - 1) \/ i = Len(stack) \/ i = Len(stack) + 1
        BY <2>2, <2>4
      <3>2. QED
        BY <2>5, <2>6, <3>1
    <2>8. QED
      BY <2>7 DEF CleanupFramesOK, InWork
  <1>5. CASE CleanupSteps
    <2>1. stack # <<>> /\ Top.op = "cleanup"
      BY <1>5 DEF CleanupSteps, CleanupNothing, CleanupStarts, CleanupLib, CleanupFrees, At
    <2>2. /\ n0 \in Modules /\ Len(stack) \in Nat \ {0} /\ Top = stack[Len(stack)]
          /\ l0 \in Nat /\ l0 + 1 \in Nat /\ Top \in Frame
          /\ Len(stack) \in 1..Len(stack) /\ found[n0] \in Nat
      <3>1. /\ n0 \in Modules /\ Len(stack) \in Nat \ {0} /\ Top = stack[Len(stack)]
            /\ l0 \in Nat /\ Top \in Frame
        BY <2>1, TopFrame DEF Frame
      <3>2. found[n0] \in Nat
        BY <3>1 DEF TypeOK
      <3>3. QED
        BY <3>1, <3>2
    <2>3. "libs" \in Places /\ 1 \in Nat
      BY DEF Places
    <2>4. CASE CleanupNothing
      <3>1. /\ Return /\ files' = files /\ UNCHANGED heap
            /\ ~(linked[n0] /\ usage[n0] = 0)
        BY <2>4 DEF CleanupNothing
      <3>2. linked' = linked /\ usage' = usage /\ found' = found
        BY <3>1 DEF heap
      <3>3. QED
        BY <2>1, <3>1, <3>2, CleanupBack DEF RelocInv, Zero
    <2>5. CASE CleanupFrees
      <3>1. /\ Return /\ files' = files /\ usage' = usage
            /\ linked' = [linked EXCEPT ![n0] = FALSE]
            /\ found' = [found EXCEPT ![n0] = 0]
            /\ Top.pc = "libs" /\ Top.idx > found[Top.mod]
        BY <2>5 DEF CleanupFrees, FreeLinkinfo, At
      <3>2. ~linked'[n0] /\ \A m \in Modules \ {n0} : linked'[m] = linked[m] /\ found'[m] = found[m]
        BY <2>2, <3>1 DEF TypeOK
      <3>3. \A m \in Modules : Zero(m)' => Zero(m)
        BY <2>2, <3>1, <3>2 DEF Zero
      <3>4. ASSUME NEW i \in 1..(Len(stack) - 1), InWork(i, "cleanup")
            PROVE  /\ Zero(stack[i].mod) => linked'[stack[i].mod] /\ usage'[stack[i].mod] = 0
                   /\ found'[stack[i].mod] = found[stack[i].mod]
        <4>1. stack[i].mod # n0
          BY <2>1, <3>1, <3>4, OneCleanup DEF RelocInv
        <4>2. stack[i].mod \in Modules
          BY <2>2, FrameMods
        <4>3. QED
          BY <3>1, <3>2, <4>1, <4>2 DEF Zero
      <3>5. QED
        BY <2>1, <3>1, <3>2, <3>3, <3>4, CleanupBack DEF RelocInv
    <2>6. CASE CleanupStarts
      <3>1. Goto("libs", 1) /\ linked[n0] /\ usage[n0] = 0 /\ files' = files /\ UNCHANGED heap
        BY <2>6 DEF CleanupStarts
      <3> DEFINE f == [op |-> "cleanup", mod |-> n0, pc |-> "libs", idx |-> 1]
      <3>2. /\ Len(stack') = Len(stack)
            /\ \A i \in 1..(Len(stack) - 1) : stack'[i] = stack[i]
            /\ stack'[Len(stack)] = f
        BY <2>1, <2>3, <3>1, GotoStack
      <3>3. f.mod = n0 /\ f.idx = 1
        OBVIOUS
      <3> HIDE DEF f
      <3>4. ASSUME NEW i, i = Len(stack) PROVE CleanupOK(i)'
        <4>1. linked' = linked /\ usage' = usage /\ found' = found
          BY <3>1 DEF heap
        <4>2. CleanupFrame(stack[i])'
          BY <2>2, <3>1, <3>2, <3>3, <3>4, <4>1 DEF CleanupFrame, Zero
        <4>3. 1..(stack'[i].idx - 1) = {}
          BY <3>2, <3>3, <3>4
        <4>4. QED
          BY <4>2, <4>3 DEF CleanupOK
      <3>5. SUFFICES ASSUME NEW i \in 1..Len(stack'), InWork(i, "cleanup")' PROVE CleanupOK(i)'
        BY DEF CleanupFramesOK, CleanupOK
      <3>6. CASE i = Len(stack)
        BY <3>4, <3>6
      <3>7. CASE i # Len(stack)
        <4>1. i \in 1..(Len(stack) - 1) /\ i < Len(stack')
          BY <2>2, <3>2, <3>5, <3>7
        <4>2. QED
          BY <2>2, <3>1, <3>2, <3>5, <4>1, CleanupUnder
      <3>8. QED
        BY <3>6, <3>7
    <2>7. CASE CleanupLib
      <3>1. /\ Top.pc = "libs" /\ l0 <= found[n0] /\ files' = files /\ UNCHANGED heap
            /\ IF Lib(n0, l0) \in Modules THEN GoCall("libs", l0 + 1, "cleanup", Lib(n0, l0))
               ELSE Goto("libs", l0 + 1)
        BY <2>7 DEF CleanupLib, At
      <3>2. l0 <= Len(Imports(n0))
        <4>1. found[n0] <= Len(Imports(n0)) /\ Len(Imports(n0)) \in Nat
          BY <2>2, ImportList DEF StackShape, FoundBound
        <4>2. QED
          BY <2>2, <3>1, <4>1
      <3>3. /\ l0 \in 1..Len(Imports(n0))
            /\ Len(stack') = Len(stack) + (IF Lib(n0, l0) \in Modules THEN 1 ELSE 0)
            /\ \A i \in 1..(Len(stack) - 1) : stack'[i] = stack[i]
            /\ stack'[Len(stack)].op = "cleanup" /\ stack'[Len(stack)].mod = n0
            /\ stack'[Len(stack)].pc = "libs" /\ stack'[Len(stack)].idx = l0 + 1
            /\ Lib(n0, l0) \in Modules => stack'[Len(stack) + 1].pc = "enter"
        BY <2>1, <3>1, <3>2, RecurseStack
      <3>4. CleanupOK(Len(stack))
        BY <2>1, <2>2, <3>1, CleanupAll DEF InWork
      <3>5. linked' = linked /\ usage' = usage /\ found' = found
        BY <3>1 DEF heap
      <3>6. ASSUME NEW i, i = Len(stack) PROVE CleanupOK(i)'
        <4>1. CleanupFrame(stack[i])'
          <5>1. Zero(n0) /\ l0 + 1 <= found[n0] + 1
            BY <2>2, <3>1, <3>4 DEF CleanupOK, CleanupFrame
          <5>2. QED
            BY <3>3, <3>5, <3>6, <5>1 DEF CleanupFrame, Zero
        <4>2. ASSUME NEW l \in 1..l0, Lib(n0, l) \in Modules, Zero(Lib(n0, l))
              PROVE  i < Len(stack') /\ l = l0
          <5>1. l = l0 \/ l \in 1..(l0 - 1)
            BY <2>2, <4>2
          <5>2. l \notin 1..(l0 - 1)
            <6>1. SUFFICES ASSUME l \in 1..(l0 - 1) PROVE FALSE
              OBVIOUS
            <6>2. Len(stack) < Len(stack)
              BY <2>2, <3>4, <4>2, <6>1 DEF CleanupOK
            <6>3. QED
              BY <2>2, <6>2
          <5>3. l = l0
            BY <5>1, <5>2
          <5>4. QED
            BY <2>2, <3>3, <3>6, <4>2, <5>3
        <4> SUFFICES ASSUME NEW k, k = l0 + 1, NEW f, f = stack'[i]
                     PROVE  CleanupOK(i)'
          OBVIOUS
        <4>3. f.mod = n0 /\ f.idx = k
          BY <3>3, <3>6
        <4>4. \A l \in 1..(k - 1) : Lib(n0, l) \in Modules /\ Zero(Lib(n0, l))
                  => i < Len(stack') /\ l = k - 1
          <5>1. k - 1 = l0
            BY <2>2
          <5>2. QED
            BY <4>2, <5>1
        <4>5. \A l \in 1..(f.idx - 1) : Lib(f.mod, l) \in Modules /\ Zero(Lib(f.mod, l))
                  => i < Len(stack') /\ l = f.idx - 1
          BY <4>3, <4>4 DEF Zero, Lib, Imports
        <4>6. QED
          BY <3>1, <3>5, <4>1, <4>5 DEF CleanupOK, Zero, Lib, Imports
      <3>7. SUFFICES ASSUME NEW i \in 1..Len(stack'), InWork(i, "cleanup")' PROVE CleanupOK(i)'
        BY DEF CleanupFramesOK, CleanupOK
      <3>8. CASE i = Len(stack)
        BY <3>6, <3>8
      <3>9. CASE i # Len(stack)
        <4>1. i # Len(stack) + 1
          BY <2>2, <3>3, <3>7 DEF InWork
        <4>2. i \in 1..(Len(stack) - 1) /\ i < Len(stack')
          BY <2>2, <3>3, <3>7, <3>9, <4>1
        <4>3. QED
          BY <2>2, <3>1, <3>3, <3>7, <4>2, CleanupUnder
      <3>10. QED
        BY <3>8, <3>9
    <2>8. QED
      BY <1>5, <2>4, <2>5, <2>6, <2>7 DEF CleanupSteps
  <1>6. CASE stack' # <<>> /\ Top'.op = "cleanup"
    <2>1. StepOf(Top'.op)
      BY <1>6, PhaseSteps DEF RelocInv
    <2>2. QED
      BY <1>3, <1>4, <1>5, <1>6, <2>1 DEF StepOf
  <1>7. QED
    BY <1>1, <1>2, <1>6

\* module_unload leaves a module's block alone until its libraries are left.
LEMMA NextUnloadFrames ==
    ASSUME TypeOK, TypeOK', RelocInv, StackOrder', StackShape, CountInv, UnloadFrames,
           [Next]_vars
    PROVE  UnloadFrames'
  <1> SUFFICES ASSUME NEW n0, n0 = Top.mod, NEW l0, l0 = Top.idx PROVE UnloadFrames'
    OBVIOUS
  <1>1. CASE stack' = <<>>
    <2>1. Len(stack') = 0
      BY <1>1, EmptySeq
    <2>2. QED
      BY <2>1 DEF UnloadFrames
  <1>2. CASE stack' # <<>> /\ Top'.op # "unload"
    BY <1>2, NewFramesBelow DEF UnloadFrames, InWork
  <1>3. CASE UNCHANGED vars
    BY <1>3 DEF vars, UnloadFrames, InWork, Zero
  <1>4. ASSUME stack # <<>>
        PROVE  /\ n0 \in Modules /\ Len(stack) \in Nat \ {0} /\ Top = stack[Len(stack)]
               /\ l0 \in Nat /\ l0 + 1 \in Nat /\ Len(stack) \in 1..Len(stack)
               /\ usage[n0] \in Int
    <2>1. n0 \in Modules /\ Len(stack) \in Nat \ {0} /\ Top = stack[Len(stack)] /\ l0 \in Nat
      BY <1>4, TopFrame DEF Frame
    <2>2. QED
      BY <2>1 DEF TypeOK
  <1>5. {"unload", "libs"} \subseteq Places /\ 0 \in Nat /\ 1 \in Nat /\ "unload" \in Routines
    BY DEF Places, Routines
  <1>6. \A i \in 1..Len(stack) : stack[i].mod \in Modules
    BY FrameMods
  <1>7. CASE ProgramReturns
    <2>1. stack # <<>> /\ Top.op = "exec" /\ GoCall("unload", 0, "unload", n0)
      BY <1>7 DEF ProgramReturns, InProgram, At
    <2>2. /\ Len(stack') = Len(stack) + 1
          /\ \A i \in 1..(Len(stack) - 1) : stack'[i] = stack[i]
          /\ stack'[Len(stack)] = [op |-> Top.op, mod |-> Top.mod, pc |-> "unload", idx |-> 0]
          /\ stack'[Len(stack) + 1] = [op |-> "unload", mod |-> n0, pc |-> "enter", idx |-> 0]
      BY <1>4, <1>5, <2>1, GoCallStack
    <2>3. stack'[Len(stack)].op = "exec" /\ stack'[Len(stack) + 1].pc = "enter"
      BY <2>1, <2>2
    <2>4. \A i \in 1..(Len(stack) - 1) : stack'[i].op = "exec"
      BY <1>4, <2>1, <2>2, FramesBelow DEF RelocInv
    <2>5. ASSUME NEW i \in 1..Len(stack') PROVE ~(stack'[i].op = "unload" /\ stack'[i].pc # "enter")
      <3>1. i \in 1..(Len(stack) - 1) \/ i = Len(stack) \/ i = Len(stack) + 1
        BY <1>4, <2>1, <2>2
      <3>2. QED
        BY <2>3, <2>4, <3>1
    <2>6. QED
      BY <2>5 DEF UnloadFrames, InWork
  <1>8. CASE UnloadShared
    <2>1. /\ stack # <<>> /\ Top.op = "unload" /\ Top.pc = "enter" /\ Return
          /\ usage[n0] # 1 /\ usage' = [usage EXCEPT ![n0] = @ - 1] /\ linked' = linked
      BY <1>8 DEF UnloadShared, At
    <2>2. /\ Len(stack') = Len(stack) - 1
          /\ \A i \in 1..(Len(stack) - 1) : stack'[i] = stack[i]
      BY <2>1, ReturnStack
    <2>3. usage[n0] > 0
      BY <2>1, UnloadCounted
    <2>4. ASSUME NEW m \in Modules, Zero(m) PROVE linked'[m] /\ usage'[m] = 0
      BY <1>4, <2>1, <2>3, <2>4 DEF TypeOK, Zero
    <2>5. QED
      BY <1>4, <1>6, <2>1, <2>2, <2>4 DEF UnloadFrames, InWork, Zero
  <1>9. CASE UnloadFrees
    <2>1. /\ stack # <<>> /\ Top.op = "unload" /\ Top.pc = "libs" /\ Return
          /\ linked' = [linked EXCEPT ![n0] = FALSE] /\ usage' = usage
      BY <1>9 DEF UnloadFrees, FreeLinkinfo, At
    <2>2. /\ Len(stack') = Len(stack) - 1
          /\ \A i \in 1..(Len(stack) - 1) : stack'[i] = stack[i]
      BY <2>1, ReturnStack
    <2>3. \A i \in 1..Len(stack) : Shape(stack[i])
      BY DEF StackShape
    <2>4. ASSUME NEW i \in 1..(Len(stack) - 1), InWork(i, "unload")
          PROVE  linked'[stack[i].mod] /\ usage'[stack[i].mod] = 0
      <3>1. Works(i, "unload") /\ Works(Len(stack), "unload")
        BY <1>4, <2>1, <2>3, <2>4 DEF Works, InWork, Shape
      <3>2. stack[i].mod # n0
        BY <1>4, <2>1, <2>4, <3>1 DEF CountInv, OneUnloadFrame
      <3>3. Zero(stack[i].mod) /\ stack[i].mod \in Modules
        BY <1>4, <1>6, <2>1, <2>4 DEF UnloadFrames
      <3>4. QED
        BY <2>1, <3>2, <3>3 DEF Zero, TypeOK
    <2>5. QED
      BY <2>2, <2>4 DEF UnloadFrames, InWork, Zero
  <1>10. CASE UnloadLast
    <2>1. /\ stack # <<>> /\ Top.op = "unload" /\ Goto("libs", 1) /\ linked[n0] /\ linked' = linked
          /\ usage' = [usage EXCEPT ![n0] = 0]
      BY <1>10 DEF UnloadLast, At
    <2>2. /\ Len(stack') = Len(stack)
          /\ \A i \in 1..(Len(stack) - 1) : stack'[i] = stack[i]
          /\ stack'[Len(stack)] = [op |-> Top.op, mod |-> Top.mod, pc |-> "libs", idx |-> 1]
      BY <1>5, <2>1, GotoStack
    <2>3. stack'[Len(stack)].mod = n0
      BY <2>2
    <2>4. ASSUME NEW m \in Modules, Zero(m) \/ m = n0 PROVE linked'[m] /\ usage'[m] = 0
      BY <1>4, <2>1, <2>4 DEF TypeOK, Zero
    <2>5. QED
      BY <1>4, <1>6, <2>1, <2>2, <2>3, <2>4 DEF UnloadFrames, InWork, Zero
  <1>11. CASE RecurseLib("unload")
    <2>1. /\ stack # <<>> /\ Top.op = "unload" /\ Top.pc = "libs" /\ l0 <= Len(Imports(n0))
          /\ IF Lib(n0, l0) \in Modules THEN GoCall("libs", l0 + 1, "unload", Lib(n0, l0))
             ELSE Goto("libs", l0 + 1)
          /\ linked' = linked /\ usage' = usage
      BY <1>11 DEF RecurseLib, At, heap
    <2>2. /\ Len(stack') = Len(stack) + (IF Lib(n0, l0) \in Modules THEN 1 ELSE 0)
          /\ \A i \in 1..(Len(stack) - 1) : stack'[i] = stack[i]
          /\ stack'[Len(stack)].op = "unload" /\ stack'[Len(stack)].mod = n0
          /\ Lib(n0, l0) \in Modules => stack'[Len(stack) + 1].pc = "enter"
      BY <2>1, RecurseStack
    <2>3. Zero(n0)
      BY <1>4, <2>1 DEF UnloadFrames, InWork
    <2>4. ASSUME NEW i \in 1..Len(stack'), stack'[i].op = "unload", stack'[i].pc # "enter"
          PROVE  Zero(stack'[i].mod)
      <3>1. i \in 1..(Len(stack) - 1) \/ i = Len(stack)
        BY <1>4, <2>1, <2>2, <2>4
      <3>2. QED
        BY <1>4, <2>1, <2>2, <2>3, <2>4, <3>1 DEF UnloadFrames, InWork
    <2>5. QED
      BY <2>1, <2>4 DEF UnloadFrames, InWork, Zero
  <1>12. CASE stack' # <<>> /\ Top'.op = "unload"
    <2>1. StepOf(Top'.op)
      BY <1>12, PhaseSteps DEF RelocInv
    <2>2. QED
      BY <1>3, <1>7, <1>8, <1>9, <1>10, <1>11, <1>12, <2>1 DEF StepOf, UnloadSteps
  <1>13. QED
    BY <1>1, <1>2, <1>12

-----------------------------------------------------------------------------
(***************************************************************************)
(* What the loader will come back to.  A step that drops the modules of X  *)
(* from what it still has to do has counted or started to free them, and   *)
(* owes the libraries they have found.                                     *)
(***************************************************************************)
LEMMA ReachMoves ==
    ASSUME TypeOK, TypeOK', Reach, files' = files, NEW X \in SUBSET Modules,
           \A k \in Modules : Owed(k) => k \in X \/ Owed(k)',
           \A k \in Modules \ X : Loose(k) => Loose(k)' /\ found[k] <= found'[k],
           \A k \in X : Loose(k) =>
               \A l \in 1..found[k] : \A n \in Modules : n = Lib(k, l) => Owed(n)',
           \A k \in Modules : Loose(k)' => Loose(k) /\ k \notin X
    PROVE  Reach'
  <1>1. SUFFICES ASSUME NEW S \in SUBSET Modules, Covers(S)', NEW k \in Modules, Loose(k)'
                 PROVE  k \in S
    BY DEF Reach
  <1>2. /\ \A n \in Modules : Owed(n)' => n \in S
        /\ \A n \in S : Loose(n)' =>
               \A l \in 1..found'[n] : Lib(n, l)' \in Modules => Lib(n, l)' \in S
    BY <1>1 DEF Covers
  <1>3. \A n, l : Lib(n, l)' = Lib(n, l)
    BY DEF Lib, Imports
  <1>4. \A n \in S \cup X : Loose(n) =>
            \A l \in 1..found[n] : Lib(n, l) \in Modules => Lib(n, l) \in S \cup X
    <2>1. SUFFICES ASSUME NEW n \in S \cup X, Loose(n), NEW l \in 1..found[n], Lib(n, l) \in Modules
                   PROVE  Lib(n, l) \in S \cup X
      OBVIOUS
    <2>2. CASE n \in X
      <3>1. \A o \in Modules : o = Lib(n, l) => o \in S
        BY <1>2, <2>1, <2>2
      <3>2. QED
        BY <2>1, <3>1
    <2>3. CASE n \notin X
      <3>1. n \in S /\ n \in Modules /\ Loose(n)' /\ found[n] <= found'[n]
        BY <2>1, <2>3
      <3>2. l \in 1..found'[n]
        <4>1. found[n] \in Nat /\ found'[n] \in Nat
          BY <3>1 DEF TypeOK
        <4>2. QED
          BY <3>1, <4>1
      <3>3. Lib(n, l)' \in Modules => Lib(n, l)' \in S
        <4>1. \A q \in 1..found'[n] : Lib(n, q)' \in Modules => Lib(n, q)' \in S
          BY <1>2, <3>1
        <4>2. QED
          BY <3>2, <4>1 DEF Lib, Imports
      <3>4. QED
        BY <1>3, <2>1, <3>3 DEF Lib, Imports
    <2>4. QED
      BY <2>2, <2>3
  <1>5. Covers(S \cup X) /\ S \cup X \in SUBSET Modules
    BY <1>2, <1>4 DEF Covers
  <1>6. Loose(k) /\ k \notin X
    BY <1>1
  <1>7. QED
    BY <1>5, <1>6 DEF Reach

\* What a frame owes does not change.
LEMMA OwesKept ==
    ASSUME files' = files, NEW f, NEW k,
           f.op = "cleanup" /\ f.pc = "libs" => found'[f.mod] = found[f.mod]
    PROVE  Owes(f, k) <=> Owes(f, k)'
  BY DEF Owes, Lib, Imports

\* The frames under the top stay where they are.
Under ==
    /\ stack # <<>>
    /\ files' = files
    /\ \A i \in 1..(Len(stack) - 1) : i \in 1..Len(stack') /\ stack'[i] = stack[i]

\* A step drops nothing but what the frame on top owes.
LEMMA OwedMoves ==
    ASSUME TypeOK, Under, NEW k, Owed(k),
           \A i \in 1..(Len(stack) - 1) : stack[i].op = "cleanup" /\ stack[i].pc = "libs" =>
               found'[stack[i].mod] = found[stack[i].mod]
    PROVE  Owes(Top, k) \/ Owed(k)'
  <1>1. Len(stack) \in Nat \ {0} /\ Top = stack[Len(stack)]
    BY TopFrame DEF Under
  <1>2. PICK i \in 1..Len(stack) : Owes(stack[i], k)
    BY DEF Owed
  <1>3. CASE i = Len(stack)
    BY <1>1, <1>2, <1>3
  <1>4. CASE i # Len(stack)
    <2>1. i \in 1..(Len(stack) - 1) /\ i \in 1..Len(stack') /\ stack'[i] = stack[i]
      BY <1>1, <1>4 DEF Under
    <2>2. ASSUME NEW f, f = stack[i] PROVE Owes(stack[i], k)'
      <3>1. Owes(f, k) /\ stack'[i] = f
        BY <1>2, <2>1, <2>2
      <3>2. f.op = "cleanup" /\ f.pc = "libs" => found'[f.mod] = found[f.mod]
        BY <2>1, <2>2
      <3>3. Owes(f, k)'
        BY <3>1, <3>2, OwesKept DEF Under
      <3>4. QED
        BY <3>1, <3>3 DEF Owes
    <2>3. QED
      BY <2>1, <2>2 DEF Owed
  <1>5. QED
    BY <1>3, <1>4

\* module_setup takes nothing away.
LEMMA NoGrey ==
    ASSUME TypeOK, StackOrder, stack # <<>>, Top.op \notin {"cleanup", "unload"}, NEW k
    PROVE  ~Grey(k)
  BY FramesBelow DEF Grey, InWork

\* Nothing is taken away unless load_cleanup or module_unload is on top.
LEMMA NewNoGrey ==
    ASSUME TypeOK', StackOrder', stack' # <<>>, Top'.op \notin {"cleanup", "unload"}, NEW k
    PROVE  ~Grey(k)'
  BY NewFramesBelow DEF Grey, InWork

\* What a step of module_setup does to the stack.
LEMMA SetupStack ==
    ASSUME TypeOK, TypeOK', StackOrder, StackShape, SetupSteps
    PROVE  Under /\ stack' # <<>> /\ Top'.op \in {"exec", "setup"} /\ Top.op = "setup"
  <1>1. /\ stack # <<>> /\ Top.op = "setup" /\ files' = files
        /\ \/ Return
           \/ \E pc \in {"find", "lib"}, k \in {1, Top.idx, Top.idx + 1} : Goto(pc, k)
           \/ \E pc \in {"find", "lib"}, m \in Modules : GoCall(pc, Top.idx, "setup", m)
    BY DEF SetupSteps, SetupAlreadyDone, SetupTooOld, SetupIncompatible, SetupNoMemory,
         SetupAllocates, SetupLibMissing, SetupRangeError, SetupPseudolib, SetupRecurses,
         SetupLibDone, SetupFails, Allocates, FindsLib, NextLib, At
  <1>2. /\ Len(stack) \in Nat \ {0} /\ Top = stack[Len(stack)] /\ Top \in Frame
        /\ Top.idx \in Nat /\ Top.idx + 1 \in Nat
    BY <1>1, TopFrame DEF Frame
  <1>3. {"find", "lib"} \subseteq Places /\ 1 \in Nat /\ "setup" \in Routines
    BY DEF Places, Routines
  <1>4. CASE Return
    <2>1. /\ Len(stack') = Len(stack) - 1
          /\ \A i \in 1..(Len(stack) - 1) : stack'[i] = stack[i]
      BY <1>1, <1>4, ReturnStack
    <2>2. stack' # <<>>
      <3>1. SUFFICES ASSUME Len(stack) = 1 PROVE FALSE
        BY <1>2, <2>1, EmptySeq
      <3>2. stack[1].op = "exec"
        BY <1>1 DEF StackShape
      <3>3. QED
        BY <1>1, <1>2, <3>1, <3>2
    <2>3. Top'.op \in {"exec", "setup"}
      BY <1>1, <1>4, <2>2, AfterReturn
    <2>4. QED
      BY <1>1, <1>2, <2>1, <2>2, <2>3 DEF Under
  <1>5. ASSUME NEW pc \in Places, NEW k \in Nat, Goto(pc, k)
        PROVE  Under /\ stack' # <<>> /\ Top'.op \in {"exec", "setup"}
    <2>1. /\ Len(stack') = Len(stack)
          /\ \A i \in 1..(Len(stack) - 1) : stack'[i] = stack[i]
      BY <1>1, <1>5, GotoStack
    <2>2. stack' # <<>> /\ Top'.op = "setup"
      BY <1>1, <1>5, AfterGoto
    <2>3. QED
      BY <1>1, <1>2, <2>1, <2>2 DEF Under
  <1>6. ASSUME NEW pc \in Places, NEW k \in Nat, NEW m \in Modules, GoCall(pc, k, "setup", m)
        PROVE  Under /\ stack' # <<>> /\ Top'.op \in {"exec", "setup"}
    <2>1. /\ Len(stack') = Len(stack) + 1
          /\ \A i \in 1..(Len(stack) - 1) : stack'[i] = stack[i]
      BY <1>1, <1>3, <1>6, GoCallStack
    <2>2. stack' # <<>> /\ Top'.op = "setup"
      BY <1>1, <1>3, <1>6, AfterCall
    <2>3. QED
      BY <1>1, <1>2, <2>1, <2>2 DEF Under
  <1>7. QED
    BY <1>1, <1>2, <1>3, <1>4, <1>5, <1>6

\* module_setup: the library that is set up is found by its importer.
LEMMA SetupReaches ==
    ASSUME TypeOK, TypeOK', RelocInv, StackOrder', StackShape, CountInv, SetupInv, Reach,
           SetupSteps
    PROVE  Reach'
  <1> SUFFICES ASSUME NEW n0, n0 = Top.mod, NEW l0, l0 = Top.idx PROVE Reach'
    OBVIOUS
  <1>1. /\ Under /\ stack # <<>> /\ files' = files
        /\ stack' # <<>> /\ Top'.op \in {"exec", "setup"} /\ Top.op = "setup"
    BY SetupStack DEF Under, RelocInv
  <1>2. \A k : ~Grey(k) /\ ~Grey(k)'
    BY <1>1, NoGrey, NewNoGrey DEF RelocInv
  <1>3. /\ n0 \in Modules /\ Len(stack) \in Nat \ {0} /\ Top = stack[Len(stack)]
        /\ Len(stack) \in 1..Len(stack) /\ l0 \in Nat
    BY <1>1, TopFrame DEF Frame
  <1>4. \A i \in 1..Len(stack) : stack[i].op \in {"exec", "setup"}
    BY <1>1, FramesBelow DEF RelocInv
  <1>5. \A k \in Modules : Owed(k) => Owed(k)'
    <2>1. SUFFICES ASSUME NEW k \in Modules, Owed(k) PROVE Owed(k)'
      OBVIOUS
    <2>2. Owes(Top, k) \/ Owed(k)'
      BY <1>1, <1>3, <1>4, <2>1, OwedMoves
    <2>3. QED
      BY <1>1, <2>2 DEF Owes
  <1>6. \A k \in Modules : found[k] \in Nat /\ found'[k] \in Nat
    BY DEF TypeOK
  <1>7. CASE SetupAllocates
    <2>1. /\ ~linked[n0] /\ linked' = [linked EXCEPT ![n0] = TRUE]
          /\ usage' = [usage EXCEPT ![n0] = 0] /\ found' = [found EXCEPT ![n0] = 0]
          /\ Top.pc = "enter"
      BY <1>7 DEF SetupAllocates, Allocates, At
    <2>2. \A k \in Modules \ {n0} :
              linked'[k] = linked[k] /\ usage'[k] = usage[k] /\ found'[k] = found[k]
      BY <2>1 DEF TypeOK
    <2>3. \A k \in Modules \ {n0} : (Loose(k)' <=> Loose(k)) /\ found'[k] = found[k]
      BY <1>2, <2>2 DEF Loose, Zero
    <2>4. ~Loose(n0)
      BY <2>1 DEF Loose, Zero
    <2>5. SUFFICES ASSUME NEW S \in SUBSET Modules, Covers(S)', NEW k \in Modules, Loose(k)'
                   PROVE  k \in S
      BY DEF Reach
    <2>6. /\ \A n \in Modules : Owed(n)' => n \in S
          /\ \A n \in S : Loose(n)' =>
                 \A l \in 1..found'[n] : Lib(n, l) \in Modules => Lib(n, l) \in S
      BY <1>1, <2>5 DEF Covers, Lib, Imports
    <2>7. Covers(S)
      <3>1. \A n \in S : Loose(n) => Loose(n)' /\ found'[n] = found[n]
        BY <2>3, <2>4, <2>5
      <3>2. QED
        BY <1>5, <2>6, <3>1 DEF Covers
    <2>8. CASE k # n0
      BY <2>3, <2>5, <2>7, <2>8 DEF Reach
    <2>9. CASE k = n0
      <3> DEFINE i == Len(stack) - 1
      <3>1. i \in 1..(Len(stack) - 1) /\ i \in 1..Len(stack) /\ i + 1 = Len(stack)
        <4>1. Len(stack) # 1
          <5>1. stack[1].op = "exec"
            BY <1>1 DEF StackShape
          <5>2. QED
            BY <1>1, <1>3, <5>1
        <4>2. \A n \in Nat \ {0} : n # 1 => /\ n - 1 \in 1..(n - 1)
                                             /\ n - 1 \in 1..n
                                             /\ n - 1 + 1 = n
          OBVIOUS
        <4>3. QED
          BY <1>3, <4>1, <4>2
      <3>2. HasCalled(stack[i], stack[i + 1]) /\ Shape(stack[i])
        BY <3>1 DEF StackShape
      <3>3. HasCalled(stack[i], Top) /\ stack[i].op \in {"exec", "setup"}
        BY <1>3, <1>4, <3>1, <3>2
      <3> HIDE DEF i
      <3>4. CASE stack[i].op = "exec"
        <4>1. Owes(stack[i], n0)
          BY <1>1, <3>3, <3>4 DEF HasCalled, Owes
        <4>2. Owed(n0)
          BY <3>1, <4>1 DEF Owed
        <4>3. QED
          BY <1>3, <1>5, <2>6, <2>9, <4>2
      <3>5. CASE stack[i].op = "setup"
        <4>1. stack[i].pc = "lib" /\ n0 = Lib(stack[i].mod, stack[i].idx) /\ InWork(i, "setup")
          BY <3>3, <3>5 DEF HasCalled, InWork
        <4>2. SetupFrame(stack[i]) /\ stack[i].mod \in Modules /\ stack[i] \in Frame
          BY <3>1, <4>1, FrameMods, ElementOfSeq DEF SetupInv, SetupFrames, TypeOK
        <4>3. /\ Zero(stack[i].mod) /\ found[stack[i].mod] = stack[i].idx
              /\ stack[i].idx \in Nat /\ stack[i].idx >= 1
          <5>1. Zero(stack[i].mod) /\ found[stack[i].mod] = stack[i].idx
            BY <4>1, <4>2 DEF SetupFrame
          <5>2. stack[i].idx \in 1..Len(Imports(stack[i].mod)) /\ stack[i].idx \in Nat
            BY <3>2, <4>1, <4>2 DEF Shape, Frame
          <5>3. QED
            BY <5>1, <5>2, <4>2, ImportList
        <4>4. Loose(stack[i].mod)
          BY <1>2, <4>3 DEF Loose
        <4>5. stack[i].mod \in S
          BY <2>7, <4>2, <4>4 DEF Reach
        <4>6. stack[i].idx \in 1..found[stack[i].mod]
          BY <4>3
        <4>7. QED
          BY <1>3, <2>7, <2>9, <4>1, <4>4, <4>5, <4>6 DEF Covers
      <3>6. QED
        BY <3>3, <3>4, <3>5
    <2>10. QED
      BY <2>8, <2>9
  <1>8. ASSUME linked' = linked, usage' = usage, \A k \in Modules : found[k] <= found'[k]
        PROVE  Reach'
    <2>1. \A k \in Modules : Loose(k)' <=> Loose(k)
      BY <1>2, <1>8 DEF Loose, Zero
    <2>2. {} \in SUBSET Modules
      OBVIOUS
    <2>3. QED
      BY <1>1, <1>5, <1>8, <2>1, <2>2, ReachMoves
  <1>9. ASSUME linked' = linked, usage' = usage, Top.pc = "find",
               found' = [found EXCEPT ![n0] = l0]
        PROVE  \A k \in Modules : found[k] <= found'[k]
    <2>1. found[n0] = l0 - 1
      BY <1>1, <1>9, TopSetup
    <2>2. QED
      BY <1>3, <1>6, <1>9, <2>1
  <1>10. CASE SetupRangeError \/ SetupPseudolib \/ SetupRecurses
    <2>1. linked' = linked /\ usage' = usage /\ Top.pc = "find" /\ found' = [found EXCEPT ![n0] = l0]
      BY <1>10 DEF SetupRangeError, SetupPseudolib, SetupRecurses, FindsLib, At
    <2>2. QED
      BY <1>8, <1>9, <2>1
  <1>11. CASE \/ SetupAlreadyDone \/ SetupTooOld \/ SetupIncompatible \/ SetupNoMemory
              \/ SetupLibMissing \/ SetupLibDone
    <2>1. linked' = linked /\ usage' = usage /\ found' = found
      BY <1>11 DEF SetupAlreadyDone, SetupTooOld, SetupIncompatible, SetupNoMemory,
         SetupLibMissing, SetupLibDone, SetupFails, heap
    <2>2. QED
      BY <1>6, <1>8, <2>1
  <1>12. QED
    BY <1>7, <1>10, <1>11 DEF SetupSteps

Taking(f) == f.op \in {"cleanup", "unload"} /\ f.pc # "enter"

\* A step changes what is being taken away at the top of the stack only.
LEMMA GreyUnder ==
    ASSUME TypeOK, Under, NEW k
    PROVE  /\ Grey(k) => Grey(k)' \/ (Top.mod = k /\ Taking(Top))
           /\ Grey(k)' => Grey(k) \/ \E i \in 1..Len(stack') :
                  i >= Len(stack) /\ stack'[i].mod = k /\ Taking(stack'[i])
  <1>1. Len(stack) \in Nat \ {0} /\ Top = stack[Len(stack)]
    BY TopFrame DEF Under
  <1>2. \A i : (InWork(i, "cleanup") \/ InWork(i, "unload")) <=> Taking(stack[i])
    BY DEF InWork, Taking
  <1>3. \A i : (InWork(i, "cleanup")' \/ InWork(i, "unload")') <=> Taking(stack'[i])
    BY DEF InWork, Taking
  <1>4. ASSUME NEW i \in 1..Len(stack), stack[i].mod = k, Taking(stack[i])
        PROVE  Grey(k)' \/ (Top.mod = k /\ Taking(Top))
    <2>1. CASE i = Len(stack)
      BY <1>1, <1>4, <2>1
    <2>2. CASE i # Len(stack)
      <3>1. i \in 1..(Len(stack) - 1)
        BY <1>1, <1>4, <2>2
      <3>2. i \in 1..Len(stack') /\ stack'[i] = stack[i]
        BY <3>1 DEF Under
      <3>3. QED
        BY <1>3, <1>4, <3>2 DEF Grey
    <2>3. QED
      BY <2>1, <2>2
  <1>5. ASSUME NEW i \in 1..Len(stack'), stack'[i].mod = k, Taking(stack'[i])
        PROVE  Grey(k) \/ i >= Len(stack)
    <2>1. SUFFICES ASSUME ~(i >= Len(stack)) PROVE Grey(k)
      OBVIOUS
    <2>2. i \in 1..(Len(stack) - 1) /\ i \in 1..Len(stack)
      BY <1>1, <1>5, <2>1
    <2>3. stack'[i] = stack[i]
      BY <2>2 DEF Under
    <2>4. QED
      BY <1>2, <1>5, <2>2, <2>3 DEF Grey
  <1>6. QED
    BY <1>2, <1>3, <1>4, <1>5 DEF Grey

\* load_cleanup finds nothing to free.
LEMMA CleanupNothingReaches ==
    ASSUME TypeOK, TypeOK', Reach, CleanupNothing
    PROVE  Reach'
  <1> SUFFICES ASSUME NEW n0, n0 = Top.mod PROVE Reach'
    OBVIOUS
  <1>1. /\ stack # <<>> /\ Top.op = "cleanup" /\ Top.pc = "enter" /\ Return
        /\ ~(linked[n0] /\ usage[n0] = 0) /\ files' = files
        /\ linked' = linked /\ usage' = usage /\ found' = found
    BY DEF CleanupNothing, At, heap
  <1>2. /\ n0 \in Modules /\ Len(stack) \in Nat \ {0} /\ Top = stack[Len(stack)]
    BY <1>1, TopFrame DEF Frame
  <1>3. /\ Len(stack') = Len(stack) - 1
        /\ \A i \in 1..(Len(stack) - 1) : stack'[i] = stack[i]
    BY <1>1, ReturnStack
  <1>4. Under
    BY <1>1, <1>2, <1>3 DEF Under
  <1>5. \A k \in Modules : Owed(k) => k \in {n0} \/ Owed(k)'
    <2>1. \A k \in Modules : Owed(k) => Owes(Top, k) \/ Owed(k)'
      BY <1>1, <1>4, OwedMoves
    <2>2. QED
      BY <1>1, <2>1 DEF Owes
  <1>6. \A k : Zero(k)' <=> Zero(k)
    BY <1>1 DEF Zero
  <1>7. \A k : Grey(k)' <=> Grey(k)
    <2>1. SUFFICES ASSUME NEW k PROVE Grey(k)' <=> Grey(k)
      OBVIOUS
    <2>2. \A i \in 1..Len(stack') : ~(i >= Len(stack))
      BY <1>2, <1>3
    <2>3. ~Taking(Top)
      BY <1>1 DEF Taking
    <2>4. QED
      BY <1>4, <2>2, <2>3, GreyUnder
  <1>8. \A k : Loose(k)' <=> Loose(k)
    BY <1>6, <1>7 DEF Loose
  <1>9. ~Loose(n0)
    BY <1>1 DEF Loose, Zero
  <1>10. \A k \in Modules : found[k] <= found'[k]
    <2>1. \A k \in Modules : found[k] \in Nat
      BY DEF TypeOK
    <2>2. QED
      BY <1>1, <2>1
  <1>11. {n0} \in SUBSET Modules
    BY <1>2
  <1>12. QED
    BY <1>1, <1>5, <1>8, <1>9, <1>10, <1>11, ReachMoves

\* load_cleanup starts: it owes the libraries the module has found.
LEMMA CleanupStartsReaches ==
    ASSUME TypeOK, TypeOK', Reach, CleanupStarts
    PROVE  Reach'
  <1> SUFFICES ASSUME NEW n0, n0 = Top.mod PROVE Reach'
    OBVIOUS
  <1>1. /\ stack # <<>> /\ Top.op = "cleanup" /\ Top.pc = "enter" /\ Goto("libs", 1)
        /\ files' = files /\ linked' = linked /\ usage' = usage /\ found' = found
    BY DEF CleanupStarts, At, heap
  <1>2. /\ n0 \in Modules /\ Len(stack) \in Nat \ {0} /\ Top = stack[Len(stack)]
        /\ "libs" \in Places /\ 1 \in Nat
    BY <1>1, TopFrame DEF Frame, Places
  <1>3. /\ Len(stack') = Len(stack)
        /\ \A i \in 1..(Len(stack) - 1) : stack'[i] = stack[i]
        /\ stack'[Len(stack)] = [op |-> Top.op, mod |-> Top.mod, pc |-> "libs", idx |-> 1]
    BY <1>1, <1>2, GotoStack
  <1>4. Under
    BY <1>1, <1>2, <1>3 DEF Under
  <1>5. /\ stack'[Len(stack)].op = "cleanup" /\ stack'[Len(stack)].mod = n0
        /\ stack'[Len(stack)].pc = "libs" /\ stack'[Len(stack)].idx = 1
        /\ Len(stack) \in 1..Len(stack')
    BY <1>1, <1>2, <1>3
  <1>6. \A k \in Modules : Owed(k) => k \in {n0} \/ Owed(k)'
    <2>1. \A k \in Modules : Owed(k) => Owes(Top, k) \/ Owed(k)'
      BY <1>1, <1>4, OwedMoves
    <2>2. QED
      BY <1>1, <2>1 DEF Owes
  <1>7. ASSUME NEW l \in 1..found[n0], NEW n \in Modules, n = Lib(n0, l) PROVE Owed(n)'
    <2>1. ASSUME NEW i, i = Len(stack) PROVE Owes(stack[i], n)' /\ i \in 1..Len(stack')
      BY <1>1, <1>5, <1>7, <2>1 DEF Owes, Lib, Imports
    <2>2. QED
      BY <2>1 DEF Owed
  <1>8. Grey(n0)'
    <2>1. ASSUME NEW i, i = Len(stack)
          PROVE  i \in 1..Len(stack') /\ stack'[i].mod = n0 /\ InWork(i, "cleanup")'
      BY <1>5, <2>1 DEF InWork
    <2>2. QED
      BY <2>1 DEF Grey
  <1>9. ASSUME NEW k, k # n0 PROVE Grey(k)' <=> Grey(k)
    <2>1. ASSUME NEW i \in 1..Len(stack'), i >= Len(stack) PROVE stack'[i].mod = n0
      BY <1>2, <1>3, <1>5, <2>1
    <2>2. QED
      BY <1>4, <1>9, <2>1, GreyUnder
  <1>10. /\ \A k \in Modules \ {n0} : Loose(k) => Loose(k)'
         /\ \A k \in Modules : Loose(k)' => Loose(k) /\ k \notin {n0}
    BY <1>1, <1>8, <1>9 DEF Loose, Zero
  <1>11. \A k \in Modules : found[k] <= found'[k]
    <2>1. \A k \in Modules : found[k] \in Nat
      BY DEF TypeOK
    <2>2. QED
      BY <1>1, <2>1
  <1>12. {n0} \in SUBSET Modules
    BY <1>2
  <1>13. \A k \in {n0} : Loose(k) =>
               \A l \in 1..found[k] : \A n \in Modules : n = Lib(k, l) => Owed(n)'
    BY <1>7
  <1>14. QED
    BY <1>1, <1>6, <1>10, <1>11, <1>12, <1>13, ReachMoves

\* load_cleanup and module_reloc move on to the next library: they still owe
\* the same ones.
LEMMA RecurseReaches ==
    ASSUME TypeOK, TypeOK', StackShape, Reach, NEW op \in {"cleanup", "reloc"},
           stack # <<>>, Top.op = op, Top.pc = "libs",
           Top.idx <= Len(Imports(Top.mod)), UNCHANGED <<files, heap>>,
           IF Lib(Top.mod, Top.idx) \in Modules
           THEN GoCall("libs", Top.idx + 1, op, Lib(Top.mod, Top.idx))
           ELSE Goto("libs", Top.idx + 1)
    PROVE  Reach'
  <1> SUFFICES ASSUME NEW n0, n0 = Top.mod, NEW l0, l0 = Top.idx,
                      NEW hi, hi = IF op = "cleanup" THEN found[n0] ELSE Len(Imports(n0))
               PROVE Reach'
    OBVIOUS
  <1>1. /\ n0 \in Modules /\ Len(stack) \in Nat \ {0} /\ Top = stack[Len(stack)]
        /\ l0 \in 1..Len(Imports(n0)) /\ l0 \in Nat
        /\ Len(stack') = Len(stack) + (IF Lib(n0, l0) \in Modules THEN 1 ELSE 0)
        /\ \A i \in 1..(Len(stack) - 1) : stack'[i] = stack[i]
        /\ stack'[Len(stack)].op = op /\ stack'[Len(stack)].mod = n0
        /\ stack'[Len(stack)].pc = "libs" /\ stack'[Len(stack)].idx = l0 + 1
        /\ Lib(n0, l0) \in Modules =>
              /\ stack'[Len(stack) + 1].op = op /\ stack'[Len(stack) + 1].pc = "enter"
              /\ stack'[Len(stack) + 1].mod = Lib(n0, l0)
    BY RecurseStack
  <1>2. linked' = linked /\ usage' = usage /\ found' = found /\ files' = files
    BY DEF heap
  <1>3. Under /\ Len(stack) \in 1..Len(stack')
    BY <1>1, <1>2 DEF Under
  <1>4. hi \in Nat
    <2>1. found[n0] \in Nat /\ Len(Imports(n0)) \in Nat
      BY <1>1, ImportList DEF TypeOK
    <2>2. QED
      BY <2>1
  <1>5. \A k \in Modules : Owed(k) => Owed(k)'
    <2>1. SUFFICES ASSUME NEW k \in Modules, Owes(Top, k) PROVE Owed(k)'
      BY <1>2, <1>3, OwedMoves
    <2>2. PICK l \in l0..hi : k = Lib(n0, l)
      BY <2>1 DEF Owes
    <2>3. CASE l = l0
      <3>1. ASSUME NEW i, i = Len(stack) + 1 PROVE Owes(stack[i], k)' /\ i \in 1..Len(stack')
        BY <1>1, <2>1, <2>2, <2>3, <3>1 DEF Owes
      <3>2. QED
        BY <3>1 DEF Owed
    <2>4. CASE l # l0
      <3>1. l \in (l0 + 1)..hi
        BY <1>1, <1>4, <2>2, <2>4
      <3>2. ASSUME NEW i, i = Len(stack) PROVE Owes(stack[i], k)' /\ i \in 1..Len(stack')
        <4>1. /\ stack'[i].op = op /\ stack'[i].mod = n0 /\ stack'[i].pc = "libs"
              /\ stack'[i].idx = l0 + 1 /\ i \in 1..Len(stack')
          BY <1>1, <1>3, <3>2
        <4>2. k = Lib(n0, l)'
          BY <1>2, <2>2 DEF Lib, Imports
        <4>3. op = "cleanup" => l \in (l0 + 1)..found'[n0]
          BY <1>2, <3>1
        <4>4. op = "reloc" => l \in (l0 + 1)..Len(Imports(n0)')
          BY <1>2, <3>1 DEF Imports
        <4>5. CASE op = "cleanup"
          BY <4>1, <4>2, <4>3, <4>5 DEF Owes, Lib, Imports
        <4>6. CASE op = "reloc"
          BY <4>1, <4>2, <4>4, <4>6 DEF Owes, Lib, Imports
        <4>7. QED
          BY <4>1, <4>5, <4>6
      <3>3. QED
        BY <3>2 DEF Owed
    <2>5. QED
      BY <2>3, <2>4
  <1>6. \A k : Grey(k)' <=> Grey(k)
    <2>1. SUFFICES ASSUME NEW k PROVE Grey(k)' <=> Grey(k)
      OBVIOUS
    <2>2. ASSUME Top.mod = k, Taking(Top) PROVE Grey(k)'
      <3>1. ASSUME NEW i, i = Len(stack)
            PROVE  /\ i \in 1..Len(stack') /\ stack'[i].mod = k
                   /\ InWork(i, "cleanup")' \/ InWork(i, "unload")'
        BY <1>1, <1>3, <2>2, <3>1 DEF InWork, Taking
      <3>2. QED
        BY <3>1 DEF Grey
    <2>3. ASSUME NEW i \in 1..Len(stack'), i >= Len(stack), stack'[i].mod = k, Taking(stack'[i])
          PROVE  Grey(k)
      <3>1. i = Len(stack)
        <4>1. i = Len(stack) \/ (Lib(n0, l0) \in Modules /\ i = Len(stack) + 1)
          BY <1>1, <2>3
        <4>2. QED
          BY <1>1, <2>3, <4>1 DEF Taking
      <3>2. k = n0 /\ op = "cleanup"
        BY <1>1, <2>3, <3>1 DEF Taking
      <3>3. stack[i].mod = k /\ InWork(i, "cleanup") /\ i \in 1..Len(stack)
        BY <1>1, <3>1, <3>2 DEF InWork
      <3>4. QED
        BY <3>3 DEF Grey
    <2>4. QED
      BY <1>3, <2>2, <2>3, GreyUnder
  <1>7. \A k : Loose(k)' <=> Loose(k)
    BY <1>2, <1>6 DEF Loose, Zero
  <1>8. \A k \in Modules : found[k] <= found'[k]
    <2>1. \A k \in Modules : found[k] \in Nat
      BY DEF TypeOK
    <2>2. QED
      BY <1>2, <2>1
  <1>9. {} \in SUBSET Modules
    OBVIOUS
  <1>10. QED
    BY <1>2, <1>5, <1>7, <1>8, <1>9, ReachMoves

\* load_cleanup frees the module when it is done with the libraries.
LEMMA CleanupFreesReaches ==
    ASSUME TypeOK, TypeOK', StackOrder, StackShape, CleanupFramesOK, Reach, CleanupFrees
    PROVE  Reach'
  <1> SUFFICES ASSUME NEW n0, n0 = Top.mod PROVE Reach'
    OBVIOUS
  <1>1. /\ stack # <<>> /\ Top.op = "cleanup" /\ Top.pc = "libs" /\ Return
        /\ Top.idx > found[Top.mod] /\ files' = files /\ usage' = usage
        /\ linked' = [linked EXCEPT ![n0] = FALSE] /\ found' = [found EXCEPT ![n0] = 0]
    BY DEF CleanupFrees, FreeLinkinfo, At
  <1>2. /\ n0 \in Modules /\ Len(stack) \in Nat \ {0} /\ Top = stack[Len(stack)]
        /\ Top.idx \in Nat /\ Len(stack) \in 1..Len(stack)
    BY <1>1, TopFrame DEF Frame
  <1>3. /\ Len(stack') = Len(stack) - 1
        /\ \A i \in 1..(Len(stack) - 1) : stack'[i] = stack[i]
    BY <1>1, ReturnStack
  <1>4. Under
    BY <1>1, <1>2, <1>3 DEF Under
  <1>5. /\ ~linked'[n0]
        /\ \A k \in Modules \ {n0} : linked'[k] = linked[k] /\ found'[k] = found[k]
    BY <1>1, <1>2 DEF TypeOK
  <1>6. \A k \in Modules : Owed(k) => k \in {} \/ Owed(k)'
    <2>1. ASSUME NEW i \in 1..(Len(stack) - 1), stack[i].op = "cleanup", stack[i].pc = "libs"
          PROVE  found'[stack[i].mod] = found[stack[i].mod]
      <3>1. InWork(i, "cleanup")
        BY <2>1 DEF InWork
      <3>2. stack[i].mod # n0
        BY <1>1, <3>1, OneCleanup
      <3>3. stack[i].mod \in Modules
        <4>1. i \in 1..Len(stack)
          BY <1>2
        <4>2. QED
          BY <4>1, FrameMods
      <3>4. QED
        BY <1>5, <3>2, <3>3
    <2>2. \A k \in Modules : Owed(k) => Owes(Top, k) \/ Owed(k)'
      BY <1>4, <2>1, OwedMoves
    <2>3. \A k \in Modules : ~Owes(Top, k)
      <3>1. found[n0] \in Nat
        BY <1>2 DEF TypeOK
      <3>2. Top.idx..found[n0] = {}
        BY <1>1, <1>2, <3>1
      <3>3. QED
        BY <1>1, <3>2 DEF Owes
    <2>4. QED
      BY <2>2, <2>3
  <1>7. Grey(n0)
    <2>1. InWork(Len(stack), "cleanup")
      BY <1>1, <1>2 DEF InWork
    <2>2. QED
      BY <1>2, <2>1 DEF Grey
  <1>8. ASSUME NEW k, k # n0 PROVE Grey(k)' <=> Grey(k)
    <2>1. \A i \in 1..Len(stack') : ~(i >= Len(stack))
      BY <1>2, <1>3
    <2>2. QED
      BY <1>4, <1>8, <2>1, GreyUnder
  <1>9. /\ \A k \in Modules \ {} : Loose(k) => Loose(k)' /\ found[k] <= found'[k]
    <2>1. SUFFICES ASSUME NEW k \in Modules, Loose(k) PROVE Loose(k)' /\ found[k] <= found'[k]
      OBVIOUS
    <2>2. k # n0
      BY <1>7, <2>1 DEF Loose
    <2>3. found[k] \in Nat
      BY DEF TypeOK
    <2>4. QED
      BY <1>1, <1>5, <1>8, <2>1, <2>2, <2>3 DEF Loose, Zero
  <1>10. \A k \in Modules : Loose(k)' => Loose(k) /\ k \notin {}
    BY <1>1, <1>5, <1>8 DEF Loose, Zero
  <1>11. {} \in SUBSET Modules
    OBVIOUS
  <1>12. QED
    BY <1>1, <1>6, <1>9, <1>10, <1>11, ReachMoves

\* module_reloc on a module in use.
LEMMA RelocSharedReaches ==
    ASSUME TypeOK, TypeOK', StackOrder, StackOrder', StackShape, CountInv, Reach, RelocShared
    PROVE  Reach'
  <1> SUFFICES ASSUME NEW n0, n0 = Top.mod PROVE Reach'
    OBVIOUS
  <1>1. /\ stack # <<>> /\ Top.op = "reloc" /\ Top.pc = "enter" /\ Return
        /\ usage[n0] # 0 /\ files' = files /\ usage' = [usage EXCEPT ![n0] = @ + 1]
        /\ linked' = linked /\ found' = found
    BY DEF RelocShared, At
  <1>2. /\ n0 \in Modules /\ Len(stack) \in Nat \ {0} /\ Top = stack[Len(stack)]
    BY <1>1, TopFrame DEF Frame
  <1>3. /\ Len(stack') = Len(stack) - 1
        /\ \A i \in 1..(Len(stack) - 1) : stack'[i] = stack[i]
    BY <1>1, ReturnStack
  <1>4. Under
    BY <1>1, <1>2, <1>3 DEF Under
  <1>5. \A k \in Modules : Owed(k) => k \in {n0} \/ Owed(k)'
    <2>1. \A k \in Modules : Owed(k) => Owes(Top, k) \/ Owed(k)'
      BY <1>1, <1>4, OwedMoves
    <2>2. QED
      BY <1>1, <2>1 DEF Owes
  <1>6. \A k \in Modules : Zero(k)' <=> Zero(k)
    <2>1. usage[n0] > 0
      BY <1>1, <1>2 DEF CountInv, CountOf, TypeOK
    <2>2. \A k \in Modules : usage'[k] = IF k = n0 THEN usage[k] + 1 ELSE usage[k]
      BY <1>1 DEF TypeOK
    <2>3. \A k \in Modules : usage'[k] = 0 <=> usage[k] = 0
      BY <1>1, <1>2, <2>1, <2>2 DEF TypeOK
    <2>4. QED
      BY <1>1, <2>3 DEF Zero
  <1>7. \A k : ~Grey(k)' /\ ~Grey(k)
    <2>1. SUFFICES ASSUME NEW k PROVE ~Grey(k)' /\ ~Grey(k)
      OBVIOUS
    <2>2. ~Grey(k)
      BY <1>1, NoGrey
    <2>3. \A i \in 1..Len(stack') : ~(i >= Len(stack))
      BY <1>2, <1>3
    <2>4. QED
      BY <1>4, <2>2, <2>3, GreyUnder
  <1>8. \A k \in Modules : Loose(k)' <=> Loose(k)
    BY <1>6, <1>7 DEF Loose
  <1>9. ~Loose(n0)
    BY <1>1 DEF Loose, Zero
  <1>10. \A k \in Modules : found[k] <= found'[k]
    <2>1. \A k \in Modules : found[k] \in Nat
      BY DEF TypeOK
    <2>2. QED
      BY <1>1, <2>1
  <1>11. {n0} \in SUBSET Modules
    BY <1>2
  <1>12. QED
    BY <1>1, <1>5, <1>8, <1>9, <1>10, <1>11, ReachMoves

\* module_reloc counts a module and owes its libraries.
LEMMA RelocFirstReaches ==
    ASSUME TypeOK, TypeOK', StackOrder, StackShape, Reach, RelocFirst
    PROVE  Reach'
  <1> SUFFICES ASSUME NEW n0, n0 = Top.mod PROVE Reach'
    OBVIOUS
  <1>1. /\ stack # <<>> /\ Top.op = "reloc" /\ Top.pc = "enter" /\ Goto("libs", 1)
        /\ files' = files /\ linked' = linked /\ usage' = [usage EXCEPT ![n0] = 1]
        /\ found' = found
    BY DEF RelocFirst, At
  <1>2. /\ n0 \in Modules /\ Len(stack) \in Nat \ {0} /\ Top = stack[Len(stack)]
        /\ "libs" \in Places /\ 1 \in Nat
    BY <1>1, TopFrame DEF Frame, Places
  <1>3. /\ Len(stack') = Len(stack)
        /\ \A i \in 1..(Len(stack) - 1) : stack'[i] = stack[i]
        /\ stack'[Len(stack)] = [op |-> Top.op, mod |-> Top.mod, pc |-> "libs", idx |-> 1]
    BY <1>1, <1>2, GotoStack
  <1>4. Under
    BY <1>1, <1>2, <1>3 DEF Under
  <1>5. /\ stack'[Len(stack)].op = "reloc" /\ stack'[Len(stack)].mod = n0
        /\ stack'[Len(stack)].pc = "libs" /\ stack'[Len(stack)].idx = 1
        /\ Len(stack) \in 1..Len(stack')
    BY <1>1, <1>2, <1>3
  <1>6. \A k \in Modules : Owed(k) => k \in {n0} \/ Owed(k)'
    <2>1. \A k \in Modules : Owed(k) => Owes(Top, k) \/ Owed(k)'
      BY <1>1, <1>4, OwedMoves
    <2>2. QED
      BY <1>1, <2>1 DEF Owes
  <1>7. ASSUME NEW l \in 1..found[n0], NEW n \in Modules, n = Lib(n0, l) PROVE Owed(n)'
    <2>1. l \in 1..Len(Imports(n0))
      <3>1. found[n0] \in Nat /\ Len(Imports(n0)) \in Nat /\ found[n0] <= Len(Imports(n0))
        BY <1>2, ImportList DEF TypeOK, StackShape, FoundBound
      <3>2. QED
        BY <1>7, <3>1
    <2>2. ASSUME NEW i, i = Len(stack) PROVE Owes(stack[i], n)' /\ i \in 1..Len(stack')
      BY <1>1, <1>5, <1>7, <2>1, <2>2 DEF Owes, Lib, Imports
    <2>3. QED
      BY <2>2 DEF Owed
  <1>8. \A k : ~Grey(k)' /\ ~Grey(k)
    <2>1. SUFFICES ASSUME NEW k PROVE ~Grey(k)' /\ ~Grey(k)
      OBVIOUS
    <2>2. ~Grey(k)
      BY <1>1, NoGrey
    <2>3. ASSUME NEW i \in 1..Len(stack'), i >= Len(stack) PROVE ~Taking(stack'[i])
      <3>1. i = Len(stack)
        BY <1>2, <1>3, <2>3
      <3>2. QED
        BY <1>5, <3>1 DEF Taking
    <2>4. QED
      BY <1>4, <2>2, <2>3, GreyUnder
  <1>9. /\ \A k \in Modules \ {n0} : Loose(k) => Loose(k)'
        /\ \A k \in Modules : Loose(k)' => Loose(k) /\ k \notin {n0}
    <2>1. usage'[n0] = 1 /\ \A k \in Modules \ {n0} : usage'[k] = usage[k]
      BY <1>1, <1>2 DEF TypeOK
    <2>2. QED
      BY <1>1, <1>8, <2>1 DEF Loose, Zero
  <1>10. \A k \in Modules : found[k] <= found'[k]
    <2>1. \A k \in Modules : found[k] \in Nat
      BY DEF TypeOK
    <2>2. QED
      BY <1>1, <2>1
  <1>11. {n0} \in SUBSET Modules
    BY <1>2
  <1>12. \A k \in {n0} : Loose(k) =>
               \A l \in 1..found[k] : \A n \in Modules : n = Lib(k, l) => Owed(n)'
    BY <1>7
  <1>13. QED
    BY <1>1, <1>6, <1>9, <1>10, <1>11, <1>12, ReachMoves

\* Frames that owe nothing leave, or exec calls a routine for what it owes.
LEMMA RelocAddsReaches ==
    ASSUME TypeOK, TypeOK', StackOrder, StackShape, Reach, RelocAdds
    PROVE  Reach'
  <1> SUFFICES ASSUME NEW n0, n0 = Top.mod PROVE Reach'
    OBVIOUS
  <1>1. /\ stack # <<>> /\ Top.op = "reloc" /\ Top.pc = "libs" /\ Return
        /\ Top.idx > Len(Imports(n0)) /\ files' = files
        /\ linked' = linked /\ usage' = usage /\ found' = found
    BY DEF RelocAdds, At
  <1>2. /\ n0 \in Modules /\ Len(stack) \in Nat \ {0} /\ Top = stack[Len(stack)]
        /\ Top.idx \in Nat
    BY <1>1, TopFrame DEF Frame
  <1>3. /\ Len(stack') = Len(stack) - 1
        /\ \A i \in 1..(Len(stack) - 1) : stack'[i] = stack[i]
    BY <1>1, ReturnStack
  <1>4. Under
    BY <1>1, <1>2, <1>3 DEF Under
  <1>5. \A k \in Modules : Owed(k) => k \in {} \/ Owed(k)'
    <2>1. \A k \in Modules : Owed(k) => Owes(Top, k) \/ Owed(k)'
      BY <1>1, <1>4, OwedMoves
    <2>2. Top.idx..Len(Imports(n0)) = {}
      <3>1. Len(Imports(n0)) \in Nat
        BY <1>2, ImportList
      <3>2. QED
        BY <1>1, <1>2, <3>1
    <2>3. QED
      BY <1>1, <2>1, <2>2 DEF Owes
  <1>6. \A k : ~Grey(k)' /\ ~Grey(k)
    <2>1. SUFFICES ASSUME NEW k PROVE ~Grey(k)' /\ ~Grey(k)
      OBVIOUS
    <2>2. ~Grey(k)
      BY <1>1, NoGrey
    <2>3. \A i \in 1..Len(stack') : ~(i >= Len(stack))
      BY <1>2, <1>3
    <2>4. QED
      BY <1>4, <2>2, <2>3, GreyUnder
  <1>7. \A k : Loose(k)' <=> Loose(k)
    BY <1>1, <1>6 DEF Loose, Zero
  <1>8. \A k \in Modules : found[k] <= found'[k]
    <2>1. \A k \in Modules : found[k] \in Nat
      BY DEF TypeOK
    <2>2. QED
      BY <1>1, <2>1
  <1>9. {} \in SUBSET Modules
    OBVIOUS
  <1>10. QED
    BY <1>1, <1>5, <1>7, <1>8, <1>9, ReachMoves

\* exec calls module_reloc or load_cleanup for the program.
LEMMA LoadReaches ==
    ASSUME TypeOK, TypeOK', StackOrder, StackShape, Reach, LoadRelocates \/ LoadCleansUp
    PROVE  Reach'
  <1> SUFFICES ASSUME NEW n0, n0 = Top.mod PROVE Reach'
    OBVIOUS
  <1>1. PICK op \in {"reloc", "cleanup"} :
        /\ stack # <<>> /\ Top.op = "exec" /\ Top.pc = "setup" /\ GoCall(op, 0, op, n0)
        /\ files' = files /\ linked' = linked /\ usage' = usage /\ found' = found
    BY DEF LoadRelocates, LoadCleansUp, At, heap
  <1>2. /\ n0 \in Modules /\ Len(stack) \in Nat \ {0} /\ Top = stack[Len(stack)]
        /\ op \in Places /\ op \in Routines /\ 0 \in Nat
    BY <1>1, TopFrame DEF Frame, Places, Routines
  <1>3. /\ Len(stack') = Len(stack) + 1
        /\ \A i \in 1..(Len(stack) - 1) : stack'[i] = stack[i]
        /\ stack'[Len(stack)] = [op |-> Top.op, mod |-> Top.mod, pc |-> op, idx |-> 0]
        /\ stack'[Len(stack) + 1] = [op |-> op, mod |-> n0, pc |-> "enter", idx |-> 0]
    BY <1>1, <1>2, GoCallStack
  <1>4. /\ stack'[Len(stack)].op = "exec"
        /\ stack'[Len(stack) + 1].op = op /\ stack'[Len(stack) + 1].mod = n0
        /\ stack'[Len(stack) + 1].pc = "enter"
    BY <1>1, <1>3
  <1>5. Under
    BY <1>1, <1>2, <1>3 DEF Under
  <1>6. \A k \in Modules : Owed(k) => k \in {} \/ Owed(k)'
    <2>1. \A k \in Modules : Owed(k) => Owes(Top, k) \/ Owed(k)'
      BY <1>1, <1>5, OwedMoves
    <2>2. ASSUME NEW i, i = Len(stack) + 1 PROVE Owes(stack[i], n0)' /\ i \in 1..Len(stack')
      BY <1>2, <1>3, <1>4, <2>2 DEF Owes
    <2>3. Owed(n0)'
      BY <2>2 DEF Owed
    <2>4. \A k : Owes(Top, k) => k = n0
      BY <1>1 DEF Owes
    <2>5. QED
      BY <2>1, <2>3, <2>4
  <1>7. \A k : ~Grey(k)' /\ ~Grey(k)
    <2>1. SUFFICES ASSUME NEW k PROVE ~Grey(k)' /\ ~Grey(k)
      OBVIOUS
    <2>2. ~Grey(k)
      BY <1>1, NoGrey
    <2>3. ASSUME NEW i \in 1..Len(stack'), i >= Len(stack) PROVE ~Taking(stack'[i])
      <3>1. i = Len(stack) \/ i = Len(stack) + 1
        BY <1>2, <1>3, <2>3
      <3>2. QED
        BY <1>4, <3>1 DEF Taking
    <2>4. QED
      BY <1>5, <2>2, <2>3, GreyUnder
  <1>8. \A k : Loose(k)' <=> Loose(k)
    BY <1>1, <1>7 DEF Loose, Zero
  <1>9. \A k \in Modules : found[k] <= found'[k]
    <2>1. \A k \in Modules : found[k] \in Nat
      BY DEF TypeOK
    <2>2. QED
      BY <1>1, <2>1
  <1>10. {} \in SUBSET Modules
    OBVIOUS
  <1>11. QED
    BY <1>1, <1>6, <1>8, <1>9, <1>10, ReachMoves

\* module_unload.
LEMMA UnloadReaches ==
    ASSUME TypeOK, TypeOK', RelocInv, StackOrder', StackShape, CountInv, UnloadFrames, Reach,
           UnloadSteps
    PROVE  Reach'
  <1> SUFFICES ASSUME NEW n0, n0 = Top.mod, NEW l0, l0 = Top.idx PROVE Reach'
    OBVIOUS
  <1>1. stack # <<>> /\ Top.op = "unload" /\ files' = files
    BY DEF UnloadSteps, UnloadShared, UnloadLast, RecurseLib, UnloadFrees, FreeLinkinfo, At
  <1>2. /\ n0 \in Modules /\ Len(stack) \in Nat \ {0} /\ Top = stack[Len(stack)]
        /\ "libs" \in Places /\ 1 \in Nat
    BY <1>1, TopFrame DEF Frame, Places
  <1>3. \A k \in Modules : Zero(k) => Grey(k)
    BY <1>1, OwedByRun, NothingOwed DEF RelocInv
  <1>4. SUFFICES \A k \in Modules : Zero(k)' => Grey(k)'
    BY DEF Reach, Loose
  <1>5. ASSUME Under, NEW k \in Modules, Zero(k), Top.mod # k \/ ~Taking(Top) PROVE Grey(k)'
    BY <1>3, <1>5, GreyUnder
  <1>6. CASE UnloadShared
    <2>1. /\ Top.pc = "enter" /\ Return /\ linked' = linked
          /\ usage[n0] # 1 /\ usage' = [usage EXCEPT ![n0] = @ - 1]
      BY <1>6 DEF UnloadShared, At
    <2>2. Under
      BY <1>1, <1>2, <2>1, ReturnStack DEF Under
    <2>3. usage[n0] > 0 /\ usage[n0] \in Int
      BY <1>1, <1>2, <2>1, UnloadCounted DEF TypeOK
    <2>4. \A k \in Modules : Zero(k)' => Zero(k)
      <3>1. \A k \in Modules : usage'[k] = IF k = n0 THEN usage[k] - 1 ELSE usage[k]
        BY <2>1 DEF TypeOK
      <3>2. \A k \in Modules : usage'[k] = 0 => usage[k] = 0
        BY <2>1, <2>3, <3>1
      <3>3. QED
        BY <2>1, <3>2 DEF Zero
    <2>5. ~Taking(Top)
      BY <2>1 DEF Taking
    <2>6. QED
      BY <1>5, <2>2, <2>4, <2>5
  <1>7. CASE UnloadLast
    <2>1. /\ Top.pc = "enter" /\ Goto("libs", 1) /\ linked' = linked
          /\ usage' = [usage EXCEPT ![n0] = 0]
      BY <1>7 DEF UnloadLast, At
    <2>2. /\ Len(stack') = Len(stack)
          /\ \A i \in 1..(Len(stack) - 1) : stack'[i] = stack[i]
          /\ stack'[Len(stack)] = [op |-> Top.op, mod |-> Top.mod, pc |-> "libs", idx |-> 1]
      BY <1>1, <1>2, <2>1, GotoStack
    <2>3. Under /\ Len(stack) \in 1..Len(stack')
      BY <1>1, <1>2, <2>2 DEF Under
    <2>4. Grey(n0)'
      <3>1. ASSUME NEW i, i = Len(stack)
            PROVE  i \in 1..Len(stack') /\ stack'[i].mod = n0 /\ InWork(i, "unload")'
        BY <1>1, <2>2, <2>3, <3>1 DEF InWork
      <3>2. QED
        BY <3>1 DEF Grey
    <2>5. \A k \in Modules \ {n0} : Zero(k)' => Zero(k)
      BY <2>1 DEF Zero, TypeOK
    <2>6. ~Taking(Top)
      BY <2>1 DEF Taking
    <2>7. QED
      BY <1>5, <2>3, <2>4, <2>5, <2>6
  <1>8. CASE RecurseLib("unload")
    <2>1. /\ Top.pc = "libs" /\ l0 <= Len(Imports(n0)) /\ linked' = linked /\ usage' = usage
          /\ IF Lib(n0, l0) \in Modules THEN GoCall("libs", l0 + 1, "unload", Lib(n0, l0))
             ELSE Goto("libs", l0 + 1)
      BY <1>8 DEF RecurseLib, At, heap
    <2>2. /\ Len(stack') = Len(stack) + (IF Lib(n0, l0) \in Modules THEN 1 ELSE 0)
          /\ \A i \in 1..(Len(stack) - 1) : stack'[i] = stack[i]
          /\ stack'[Len(stack)].op = "unload" /\ stack'[Len(stack)].mod = n0
          /\ stack'[Len(stack)].pc = "libs"
      BY <1>1, <2>1, RecurseStack
    <2>3. Under /\ Len(stack) \in 1..Len(stack')
      BY <1>1, <1>2, <2>2 DEF Under
    <2>4. Grey(n0)'
      <3>1. ASSUME NEW i, i = Len(stack)
            PROVE  i \in 1..Len(stack') /\ stack'[i].mod = n0 /\ InWork(i, "unload")'
        BY <1>1, <2>2, <2>3, <3>1 DEF InWork
      <3>2. QED
        BY <3>1 DEF Grey
    <2>5. \A k \in Modules : Zero(k)' => Zero(k)
      BY <2>1 DEF Zero
    <2>6. QED
      BY <1>5, <2>3, <2>4, <2>5
  <1>9. CASE UnloadFrees
    <2>1. Return /\ linked' = [linked EXCEPT ![n0] = FALSE] /\ usage' = usage
      BY <1>9 DEF UnloadFrees, FreeLinkinfo, At
    <2>2. Under
      BY <1>1, <1>2, <2>1, ReturnStack DEF Under
    <2>3. ~Zero(n0)' /\ \A k \in Modules \ {n0} : Zero(k)' => Zero(k)
      BY <1>2, <2>1 DEF Zero, TypeOK
    <2>4. QED
      BY <1>5, <2>2, <2>3
  <1>10. QED
    BY <1>6, <1>7, <1>8, <1>9 DEF UnloadSteps

\* A step loses no module that is set up and not counted.
LEMMA NextReach ==
    ASSUME TypeOK, TypeOK', RelocInv, StackOrder', StackShape, CountInv, WorkInv, [Next]_vars
    PROVE  Reach'
  <1>1. SetupInv /\ RelocsLinked /\ CleanupFramesOK /\ UnloadFrames /\ Reach /\ StackOrder
    BY DEF WorkInv, RelocInv
  <1>2. CASE UNCHANGED vars
    <2>1. UNCHANGED <<files, stack, linked, usage, found>>
      BY <1>2 DEF vars
    <2>2. \A k : Loose(k)' <=> Loose(k)
      BY <2>1 DEF Loose, Zero, Grey, InWork
    <2>3. \A k : Owed(k)' <=> Owed(k)
      BY <2>1 DEF Owed, Owes, Lib, Imports
    <2>4. \A k \in Modules : found[k] <= found'[k]
      <3>1. \A k \in Modules : found[k] \in Nat
        BY DEF TypeOK
      <3>2. QED
        BY <2>1, <3>1
    <2>5. {} \in SUBSET Modules
      OBVIOUS
    <2>6. QED
      BY <1>1, <2>1, <2>2, <2>3, <2>4, <2>5, ReachMoves
  <1>3. CASE /\ stack = <<>> \/ (Top.op = "exec" /\ Top.pc # "setup")
             /\ linked' = linked /\ usage' = usage
    <2>1. \A k \in Modules : ~Zero(k)'
      <3>1. \A k \in Modules : ~Zero(k)
        BY <1>1, <1>3, NoneZero
      <3>2. QED
        BY <1>3, <3>1 DEF Zero
    <2>2. QED
      BY <2>1 DEF Reach, Loose
  <1>4. CASE \/ ExecFails \/ ExecRuns \/ ExecReturns \/ ProgramStep \/ ThrowStep
    <2>1. /\ stack = <<>> \/ (Top.op = "exec" /\ Top.pc # "setup")
          /\ linked' = linked /\ usage' = usage
      BY <1>4 DEF ExecFails, ExecRuns, ExecReturns, ProgramStep, ThrowStep, ExecRefused, ExecLoads,
           ProgramReturns, ProgramThrows, ThrowStop, QuitThrown, Quiet, Idle, InProgram, At, heap
    <2>2. QED
      BY <1>3, <2>1
  <1>5. CASE LoadRelocates \/ LoadCleansUp
    BY <1>1, <1>5, LoadReaches
  <1>6. CASE SetupSteps
    BY <1>1, <1>6, SetupReaches
  <1>7. CASE CleanupNothing \/ CleanupStarts \/ CleanupFrees
    BY <1>1, <1>7, CleanupNothingReaches, CleanupStartsReaches, CleanupFreesReaches
  <1>8. CASE CleanupLib
    <2>1. /\ stack # <<>> /\ Top.op = "cleanup" /\ Top.pc = "libs" /\ Top.idx <= found[Top.mod]
          /\ UNCHANGED <<files, heap>>
          /\ IF Lib(Top.mod, Top.idx) \in Modules
             THEN GoCall("libs", Top.idx + 1, "cleanup", Lib(Top.mod, Top.idx))
             ELSE Goto("libs", Top.idx + 1)
      BY <1>8 DEF CleanupLib, At
    <2>2. Top.idx <= Len(Imports(Top.mod))
      <3>1. Top.mod \in Modules /\ Top.idx \in Nat
        BY <2>1, TopFrame DEF Frame
      <3>2. /\ found[Top.mod] <= Len(Imports(Top.mod)) /\ Len(Imports(Top.mod)) \in Nat
            /\ found[Top.mod] \in Nat
        BY <3>1, ImportList DEF StackShape, FoundBound, TypeOK
      <3>3. QED
        BY <2>1, <3>1, <3>2
    <2>3. QED
      BY <1>1, <2>1, <2>2, RecurseReaches
  <1>9. CASE RecurseLib("reloc")
    <2>1. /\ stack # <<>> /\ Top.op = "reloc" /\ Top.pc = "libs" /\ Top.idx <= Len(Imports(Top.mod))
          /\ UNCHANGED <<files, heap>>
          /\ IF Lib(Top.mod, Top.idx) \in Modules
             THEN GoCall("libs", Top.idx + 1, "reloc", Lib(Top.mod, Top.idx))
             ELSE Goto("libs", Top.idx + 1)
      BY <1>9 DEF RecurseLib, At
    <2>2. QED
      BY <1>1, <2>1, RecurseReaches
  <1>10. CASE RelocShared \/ RelocFirst \/ RelocAdds
    BY <1>1, <1>10, RelocSharedReaches, RelocFirstReaches, RelocAddsReaches
  <1>11. CASE UnloadSteps
    BY <1>1, <1>11, UnloadReaches
  <1>12. QED
    BY <1>2, <1>4, <1>5, <1>6, <1>7, <1>8, <1>9, <1>10, <1>11
       DEF Next, KernelStep, Halted, ExecSteps, CleanupSteps, RelocSteps

-----------------------------------------------------------------------------
(* The inductive invariant of the loader. *)
LoaderInv == RelocInv /\ StackShape /\ CountInv /\ WorkInv

\* At first nothing is counted,
LEMMA InitCounts == Init => CountInv
  <1> SUFFICES ASSUME Init PROVE CountInv
    OBVIOUS
  <1>1. stack = <<>> /\ abandoned = <<>> /\ Len(stack) = 0 /\ Len(abandoned) = 0
    BY EmptySeq DEF Init
  <1>2. OneUnloadFrame
    BY <1>1 DEF OneUnloadFrame
  <1>3. ASSUME NEW m \in Modules PROVE CountOf(m)
    <2>1. ExecHolds(m) = {} /\ GoneHolds(m) = {}
      BY <1>1 DEF ExecHolds, GoneHolds
    <2>2. \A n \in Modules : \A l : ~Holds(n, l)
      BY <1>1 DEF Init, Holds
    <2>3. ImportHolds(m) = {}
      <3>1. \A x : x \notin ImportHolds(m)
        BY <2>2, ImportRefs
      <3>2. QED
        BY <3>1
    <2>4. Pending(m) = 0 /\ usage[m] = 0
      BY <1>1 DEF Pending, Init
    <2>5. QED
      BY <2>1, <2>3, <2>4, FS_EmptySet DEF CountOf
  <1>4. QED
    BY <1>2, <1>3 DEF CountInv

\* and nothing is at work.
LEMMA InitWork == Init => WorkInv
  <1> SUFFICES ASSUME Init PROVE WorkInv
    OBVIOUS
  <1>1. stack = <<>> /\ Len(stack) = 0 /\ \A m \in Modules : ~linked[m]
    BY EmptySeq DEF Init
  <1>2. SetupInv
    BY <1>1 DEF SetupInv, SetupFrames, OneSetupFrame, SetupResult, Complete, Loading
  <1>3. RelocsLinked /\ CleanupFramesOK /\ UnloadFrames
    BY <1>1 DEF RelocsLinked, CleanupFramesOK, UnloadFrames
  <1>4. Reach
    BY <1>1 DEF Reach, Loose, Zero
  <1>5. QED
    BY <1>2, <1>3, <1>4 DEF WorkInv

\* So the invariant holds at first,
LEMMA InitLoader == Init => LoaderInv
  BY InitReloc, InitShape, InitCounts, InitWork DEF LoaderInv

\* and every step keeps it.
LEMMA NextLoader ==
    ASSUME TypeOK, LoaderInv, [Next]_vars
    PROVE  TypeOK' /\ LoaderInv'
  <1>1. TypeOK'
    BY NextType
  <1>2. RelocInv /\ StackShape /\ CountInv /\ WorkInv
    BY DEF LoaderInv
  <1>3. RelocInv' /\ StackOrder'
    BY <1>2, NextReloc DEF RelocInv
  <1>4. StackShape'
    BY <1>2, NextShape
  <1>5. CountInv'
    BY <1>1, <1>2, NextCounts
  <1>6. /\ SetupInv /\ RelocsLinked /\ CleanupFramesOK /\ UnloadFrames /\ Reach
    BY <1>2 DEF WorkInv
  <1>7. SetupInv'
    BY <1>1, <1>2, <1>3, <1>6, NextSetup
  <1>8. RelocsLinked' /\ CleanupFramesOK' /\ UnloadFrames'
    BY <1>1, <1>2, <1>3, <1>6, NextRelocsLinked, NextCleanupFrames, NextUnloadFrames
  <1>9. Reach'
    BY <1>1, <1>2, <1>3, NextReach
  <1>10. WorkInv'
    BY <1>7, <1>8, <1>9 DEF WorkInv
  <1>11. QED
    BY <1>1, <1>3, <1>4, <1>5, <1>10 DEF LoaderInv

(***************************************************************************)
(* What is known of the loader in every state: the shape of its stack,     *)
(* the usage counts with the references they stand for, what each routine  *)
(* knows of its module, and that a load loses no module it set up.         *)
(***************************************************************************)
THEOREM LoaderInvAlways == Spec => [](TypeOK /\ LoaderInv)
  <1>1. Init => TypeOK /\ LoaderInv
    BY InitType, InitLoader
  <1>2. (TypeOK /\ LoaderInv) /\ [Next]_vars => (TypeOK /\ LoaderInv)'
    BY NextLoader
  <1>3. QED
    BY <1>1, <1>2, PTL DEF Spec

\* A module in use has its linkinfo block, and so has what it imports.
LEMMA PresentNow ==
    ASSUME TypeOK, LoaderInv
    PROVE  LinkinfoPresent
  <1>1. CASE At("reloc", "enter")
    <2>1. stack # <<>> /\ Top.op = "reloc"
      BY <1>1 DEF At
    <2>2. RelocFrame(Top)
      BY <2>1, TopFrame DEF LoaderInv, WorkInv, RelocsLinked
    <2>3. QED
      BY <2>2 DEF RelocFrame, LinkinfoPresent
  <1>2. CASE At("unload", "enter")
    BY <1>2, UnloadCounted DEF At, LoaderInv, LinkinfoPresent
  <1>3. QED
    BY <1>1, <1>2 DEF LinkinfoPresent

(***************************************************************************)
(* kernel.asm:462-496, 548-575: module_reloc and module_unload follow a    *)
(* handle in the library list without looking whether its block is there;  *)
(* it is, for every library of a module they have counted.                 *)
(***************************************************************************)
THEOREM LinkinfoPresentAlways == Spec => []LinkinfoPresent
  BY LoaderInvAlways, PresentNow, PTL

-----------------------------------------------------------------------------
(***************************************************************************)
(* What running programs need.  Between two loads it is read off the       *)
(* counts; while the loader works, a module that is needed is not touched. *)
(***************************************************************************)
Resting == stack = <<>> \/ (Top.op = "exec" /\ Top.pc # "setup")

\* The libraries of a module, by the places in its import list.
LEMMA LibsAre ==
    ASSUME TypeOK, NEW n \in Modules, NEW m
    PROVE  m \in LibsOf(n) <=> m \in Modules /\ \E l \in 1..Len(Imports(n)) : Lib(n, l) = m
  <1>1. DOMAIN Imports(n) = 1..Len(Imports(n))
    BY ImportList, LenProperties
  <1>2. QED
    BY <1>1 DEF LibsOf

\* Between two loads there are only programs on the stack, and nothing is pending.
LEMMA RestingStack ==
    ASSUME TypeOK, StackOrder, StackShape, Resting
    PROVE  /\ \A i \in 1..Len(stack) :
                 /\ stack[i].op = "exec"
                 /\ i < Len(stack) => stack[i].pc = "run"
           /\ \A m : Pending(m) = 0
  <1>1. CASE stack = <<>>
    <2>1. Len(stack) = 0
      BY <1>1, EmptySeq
    <2>2. QED
      BY <1>1, <2>1 DEF Pending
  <1>2. CASE stack # <<>>
    <2>1. Top.op = "exec"
      BY <1>2 DEF Resting
    <2>2. \A i \in 1..Len(stack) :
               /\ stack[i].op \in {"exec", Top.op}
               /\ i < Len(stack) /\ stack[i].op = "exec" => stack[i].pc \in {"run", Top.op}
      BY <1>2, UnderTop
    <2>3. \A i \in 1..Len(stack) : Shape(stack[i])
      BY DEF StackShape
    <2>4. \A i \in 1..Len(stack) : stack[i].op = "exec" => stack[i].pc # "exec" /\ stack[i].pc # "enter"
      BY <2>3 DEF Shape
    <2>5. \A m : Pending(m) = 0
      BY <1>2, <2>1 DEF Pending
    <2>6. QED
      BY <2>1, <2>2, <2>4, <2>5
  <1>3. QED
    BY <1>1, <1>2

\* At rest a module in memory is counted and relocated, and so is what it imports.
LEMMA RestingModules ==
    ASSUME TypeOK, LoaderInv, Resting, NEW m \in Modules
    PROVE  /\ linked[m] <=> relocs[m] = 1
           /\ linked[m] <=> usage[m] > 0
           /\ \A l : Holds(m, l) <=> relocs[m] = 1
  <1>1. \A i \in 1..Len(stack) : stack[i].op = "exec"
    BY RestingStack DEF LoaderInv, RelocInv
  <1>2. \A i \in 1..Len(stack) : ~Works(i, "reloc") /\ ~Works(i, "unload")
    BY <1>1 DEF Works
  <1>3. ~Zero(m)
    BY NoneZero DEF LoaderInv, RelocInv, WorkInv, Resting
  <1>4. usage[m] >= 0 /\ usage[m] \in Int
    BY DEF LoaderInv, CountInv, CountOf, TypeOK
  <1>5. usage[m] > 0 => relocs[m] = 1
    BY <1>2 DEF LoaderInv, RelocInv, CountedRelocated
  <1>6. relocs[m] = 1 => linked[m] /\ usage[m] > 0
    BY DEF LoaderInv, RelocInv, RelocatedOnce
  <1>7. QED
    BY <1>2, <1>3, <1>4, <1>5, <1>6 DEF Zero, Holds

\* Between two loads, a module that is held is in memory and relocated.
LEMMA RestingHeld ==
    ASSUME TypeOK, LoaderInv, Resting, NEW m \in Modules,
           ExecHolds(m) # {} \/ GoneHolds(m) # {} \/ ImportHolds(m) # {}
    PROVE  linked[m] /\ relocs[m] = 1
  <1>1. Pending(m) = 0
    BY RestingStack DEF LoaderInv, RelocInv
  <1>2. usage[m] > 0
    BY <1>1, HeldCounted DEF LoaderInv
  <1>3. QED
    BY <1>2, RestingModules

Root(m) ==
    \/ \E i \in 1..Len(stack) : /\ stack[i].op = "exec" /\ stack[i].pc \in {"run", "caught"}
                                /\ stack[i].mod = m
    \/ \E i \in 1..Len(abandoned) : abandoned[i] = m
Closed(S) == \A n \in S : LibsOf(n) \subseteq S
Kept == {k \in Modules : \A S \in SUBSET Modules :
            (\A m \in Modules : Root(m) => m \in S) /\ Closed(S) => k \in S}
Ready == \A k \in Kept : linked[k] /\ relocs[k] = 1

\* A program that has been started is held,
LEMMA RootHeld ==
    ASSUME NEW m, Root(m)
    PROVE  ExecHolds(m) # {} \/ GoneHolds(m) # {}
  BY DEF Root, ExecHolds, GoneHolds, HoldPlaces

\* and so is a library an import refers to.
LEMMA ImportHeld ==
    ASSUME NEW m, NEW n \in Modules, NEW l \in 1..Len(Imports(n)), Lib(n, l) = m, Holds(n, l)
    PROVE  ImportHolds(m) # {}
  <1>1. <<n, l>> \in ImportHolds(m)
    BY ImportRefs
  <1>2. QED
    BY <1>1

\* Between two loads, what a started program needs is ready.
LEMMA RestingReady == TypeOK /\ LoaderInv /\ Resting => Ready
  <1> SUFFICES ASSUME TypeOK, LoaderInv, Resting PROVE Ready
    OBVIOUS
  <1> DEFINE S == {m \in Modules : linked[m]}
  <1>1. S \in SUBSET Modules
    OBVIOUS
  <1>2. \A m \in Modules : Root(m) => m \in S
    BY RootHeld, RestingHeld
  <1>3. Closed(S)
    <2>1. SUFFICES ASSUME NEW n \in S, NEW m \in LibsOf(n) PROVE m \in S
      BY DEF Closed
    <2>2. n \in Modules /\ linked[n]
      BY <2>1
    <2>3. PICK l \in 1..Len(Imports(n)) : Lib(n, l) = m /\ m \in Modules
      BY <2>1, <2>2, LibsAre
    <2>4. Holds(n, l)
      BY <2>2, RestingModules
    <2>5. ImportHolds(m) # {}
      BY <2>2, <2>3, <2>4, ImportHeld
    <2>6. QED
      BY <2>3, <2>5, RestingHeld
  <1> HIDE DEF S
  <1>4. \A k \in Kept : k \in S
    BY <1>1, <1>2, <1>3 DEF Kept
  <1>5. QED
    BY <1>4, RestingModules DEF Ready, S

-----------------------------------------------------------------------------
(* No step of the loader touches what running programs need *)

\* What is needed contains the programs themselves and is closed under import.
LEMMA KeptClosed ==
    ASSUME TypeOK
    PROVE  /\ Kept \in SUBSET Modules
           /\ \A m \in Modules : Root(m) => m \in Kept
           /\ Closed(Kept)
  <1>1. Kept \in SUBSET Modules /\ \A m \in Modules : Root(m) => m \in Kept
    BY DEF Kept
  <1>2. Closed(Kept)
    <2>1. SUFFICES ASSUME NEW n \in Kept, NEW m \in LibsOf(n) PROVE m \in Kept
      BY DEF Closed
    <2>2. n \in Modules /\ m \in Modules
      BY <1>1, <2>1, LibsAre
    <2>3. SUFFICES ASSUME NEW S \in SUBSET Modules,
                          \A r \in Modules : Root(r) => r \in S, Closed(S)
                   PROVE  m \in S
      BY <2>2 DEF Kept
    <2>4. n \in S
      BY <2>1, <2>3 DEF Kept
    <2>5. QED
      BY <2>1, <2>3, <2>4 DEF Closed
  <1>3. QED
    BY <1>1, <1>2

\* Only starting a program adds to what is needed.
LEMMA KeptMoves ==
    ASSUME TypeOK, files' = files, \A m \in Modules : Root(m)' => Root(m), NEW k \in Kept'
    PROVE  k \in Kept
  <1>1. k \in Modules
    BY DEF Kept
  <1>2. SUFFICES ASSUME NEW S \in SUBSET Modules,
                        \A r \in Modules : Root(r) => r \in S, Closed(S)
                 PROVE  k \in S
    BY <1>1 DEF Kept
  <1>3. \A n : LibsOf(n)' = LibsOf(n)
    BY DEF LibsOf, Lib, Imports
  <1>4. \A n \in S : LibsOf(n)' \subseteq S
    BY <1>2, <1>3 DEF Closed
  <1>5. \A r \in Modules : Root(r)' => r \in S
    BY <1>2
  <1>6. QED
    BY <1>4, <1>5 DEF Kept, Closed

\* A step that starts no program and spares what the others need.
LEMMA ReadyKept ==
    ASSUME TypeOK, Ready, files' = files, \A m \in Modules : Root(m)' => Root(m),
           \A k \in Kept : linked[k] /\ relocs[k] = 1 => linked'[k] /\ relocs'[k] = 1
    PROVE  Ready'
  <1>1. \A k \in Kept' : k \in Kept
    BY KeptMoves
  <1>2. QED
    BY <1>1 DEF Ready

\* Routines other than exec start no program, whatever they do to the stack.
LEMMA RootReturn ==
    ASSUME TypeOK, stack # <<>>, Return, abandoned' = abandoned, NEW m, Root(m)'
    PROVE  Root(m)
  <1>1. /\ Len(stack) \in Nat \ {0} /\ Len(stack') = Len(stack) - 1
        /\ \A i \in 1..(Len(stack) - 1) : stack'[i] = stack[i]
    BY TopFrame, ReturnStack
  <1>2. QED
    BY <1>1 DEF Root

\* A step inside a routine starts no program,
LEMMA RootGoto ==
    ASSUME TypeOK, stack # <<>>, NEW pc \in Places, NEW k \in Nat, Goto(pc, k),
           Top.op # "exec" \/ pc \notin {"run", "caught"},
           abandoned' = abandoned, NEW m, Root(m)'
    PROVE  Root(m)
  <1>1. /\ Len(stack) \in Nat \ {0} /\ Len(stack') = Len(stack)
        /\ \A i \in 1..(Len(stack) - 1) : stack'[i] = stack[i]
        /\ stack'[Len(stack)] = [op |-> Top.op, mod |-> Top.mod, pc |-> pc, idx |-> k]
    BY TopFrame, GotoStack
  <1>2. ASSUME NEW i \in 1..Len(stack'), stack'[i].op = "exec", stack'[i].pc \in {"run", "caught"}
        PROVE  i \in 1..(Len(stack) - 1) /\ stack'[i] = stack[i]
    <2>1. i # Len(stack)
      BY <1>1, <1>2
    <2>2. QED
      BY <1>1, <2>1
  <1>3. \A i \in 1..(Len(stack) - 1) : i \in 1..Len(stack)
    BY <1>1
  <1>4. QED
    BY <1>2, <1>3 DEF Root

\* nor does a call,
LEMMA RootCall ==
    ASSUME TypeOK, stack # <<>>, NEW pc \in Places, NEW k \in Nat,
           NEW op \in Routines \ {"exec"}, NEW n \in Modules, GoCall(pc, k, op, n),
           Top.op # "exec" \/ pc \notin {"run", "caught"},
           abandoned' = abandoned, NEW m, Root(m)'
    PROVE  Root(m)
  <1>1. /\ Len(stack) \in Nat \ {0} /\ Len(stack') = Len(stack) + 1
        /\ \A i \in 1..(Len(stack) - 1) : stack'[i] = stack[i]
        /\ stack'[Len(stack)] = [op |-> Top.op, mod |-> Top.mod, pc |-> pc, idx |-> k]
        /\ stack'[Len(stack) + 1] = [op |-> op, mod |-> n, pc |-> "enter", idx |-> 0]
    BY TopFrame, GoCallStack
  <1>2. ASSUME NEW i \in 1..Len(stack'), stack'[i].op = "exec", stack'[i].pc \in {"run", "caught"}
        PROVE  i \in 1..(Len(stack) - 1) /\ stack'[i] = stack[i]
    <2>1. i # Len(stack) /\ i # Len(stack) + 1
      BY <1>1, <1>2
    <2>2. QED
      BY <1>1, <2>1
  <1>3. \A i \in 1..(Len(stack) - 1) : i \in 1..Len(stack)
    BY <1>1
  <1>4. QED
    BY <1>2, <1>3 DEF Root

\* nor exec before its program is loaded.
LEMMA RootExec ==
    ASSUME TypeOK, NEW n \in Modules, ExecLoads(n), NEW m, Root(m)'
    PROVE  Root(m)
  <1>1. /\ Len(stack) \in Nat /\ Len(stack') = Len(stack) + 2
        /\ \A i \in 1..Len(stack) : stack'[i] = stack[i]
        /\ stack'[Len(stack) + 1] = ExecFrame(n)
        /\ stack'[Len(stack) + 2] = Call("setup", n)
    BY ExecStack, LenProperties DEF TypeOK
  <1>2. abandoned' = abandoned
    BY DEF ExecLoads
  <1>3. ASSUME NEW i \in 1..Len(stack'), stack'[i].op = "exec", stack'[i].pc \in {"run", "caught"}
        PROVE  i \in 1..Len(stack) /\ stack'[i] = stack[i]
    <2>1. i # Len(stack) + 1 /\ i # Len(stack) + 2
      BY <1>1, <1>3 DEF ExecFrame, Call
    <2>2. QED
      BY <1>1, <2>1
  <1>4. QED
    BY <1>2, <1>3 DEF Root

\* The stack of a phase of the loader.
PhaseMove ==
    /\ stack # <<>> /\ files' = files /\ abandoned' = abandoned
    /\ \/ Return
       \/ \E pc \in Places, k \in Nat :
              Goto(pc, k) /\ (Top.op # "exec" \/ pc \notin {"run", "caught"})
       \/ \E pc \in Places, k \in Nat, op \in Routines \ {"exec"}, n \in Modules :
              GoCall(pc, k, op, n) /\ (Top.op # "exec" \/ pc \notin {"run", "caught"})

\* So no step of the loader routines starts a program,
LEMMA PhaseRoots ==
    ASSUME TypeOK, PhaseMove, NEW m, Root(m)'
    PROVE  Root(m)
  BY RootReturn, RootGoto, RootCall DEF PhaseMove

\* and these are their steps.
LEMMA PhaseMoves ==
    ASSUME TypeOK,
           \/ SetupSteps \/ CleanupSteps \/ RelocSteps \/ UnloadSteps
           \/ LoadCleansUp \/ LoadRelocates \/ ProgramReturns
    PROVE  PhaseMove
  <1>1. stack # <<>> /\ files' = files /\ abandoned' = abandoned
    BY DEF SetupSteps, SetupAlreadyDone, SetupTooOld, SetupIncompatible,
         SetupNoMemory, SetupAllocates, Allocates, SetupLibMissing, SetupRangeError, SetupPseudolib,
         SetupRecurses, SetupLibDone, SetupFails, FindsLib, CleanupSteps, CleanupNothing, CleanupStarts,
         CleanupLib, CleanupFrees, FreeLinkinfo, RelocSteps, RelocShared, RelocFirst, RecurseLib,
         RelocAdds, UnloadSteps, UnloadShared, UnloadLast, UnloadFrees, LoadCleansUp, LoadRelocates,
         ProgramReturns, InProgram, At
  <1>2. Top \in Frame /\ Top.mod \in Modules /\ Top.idx \in Nat /\ Top.idx + 1 \in Nat
    BY <1>1, TopFrame DEF Frame
  <1>3. /\ {"setup", "cleanup", "reloc", "unload", "run", "caught", "find", "lib", "libs"}
              \subseteq Places
        /\ {"setup", "cleanup", "reloc", "unload"} \subseteq Routines \ {"exec"}
        /\ 0 \in Nat /\ 1 \in Nat
    BY DEF Places, Routines
  <1>4. CASE SetupSteps
    <2>1. /\ Top.op # "exec"
          /\ \/ Return
             \/ Goto("find", 1)
             \/ Goto("find", Top.idx + 1)
             \/ /\ GoCall("lib", Top.idx, "setup", Lib(Top.mod, Top.idx))
                /\ Lib(Top.mod, Top.idx) \in Modules
      BY <1>4 DEF SetupSteps, SetupAlreadyDone, SetupTooOld, SetupIncompatible,
         SetupNoMemory, SetupAllocates, Allocates, SetupLibMissing, SetupRangeError, SetupPseudolib,
         SetupRecurses, SetupLibDone, SetupFails, FindsLib, NextLib, At
    <2>2. QED
      BY <1>1, <1>2, <1>3, <2>1 DEF PhaseMove
  <1>5. CASE CleanupSteps \/ RelocSteps \/ UnloadSteps
    <2>1. /\ Top.op # "exec"
          /\ \/ Return
             \/ Goto("libs", 1)
             \/ Goto("libs", Top.idx + 1)
             \/ \E op \in {"cleanup", "reloc", "unload"} :
                   /\ GoCall("libs", Top.idx + 1, op, Lib(Top.mod, Top.idx))
                   /\ Lib(Top.mod, Top.idx) \in Modules
      BY <1>5 DEF CleanupSteps, CleanupNothing, CleanupStarts, CleanupLib, CleanupFrees,
           FreeLinkinfo, RelocSteps, RelocShared, RelocFirst, RecurseLib, RelocAdds,
           UnloadSteps, UnloadShared, UnloadLast, UnloadFrees, At
    <2>2. QED
      BY <1>1, <1>2, <1>3, <2>1 DEF PhaseMove
  <1>6. CASE LoadCleansUp \/ LoadRelocates \/ ProgramReturns
    <2>1. \E op \in {"cleanup", "reloc", "unload"} : GoCall(op, 0, op, Top.mod)
      BY <1>6 DEF LoadCleansUp, LoadRelocates, ProgramReturns
    <2>2. QED
      BY <1>1, <1>2, <1>3, <2>1 DEF PhaseMove
  <1>7. QED
    BY <1>4, <1>5, <1>6

\* What is unloaded last is needed by nothing: nobody holds a reference on it.
LEMMA UnloadSpares ==
    ASSUME TypeOK, LoaderInv, Ready, UnloadLast
    PROVE  Top.mod \notin Kept
  <1>1. /\ stack # <<>> /\ Top.op = "unload" /\ Top.pc = "enter"
        /\ usage[Top.mod] = 1
    BY DEF UnloadLast, At
  <1>2. SUFFICES ASSUME NEW m0, m0 = Top.mod PROVE m0 \notin Kept
    OBVIOUS
  <1>3. m0 \in Modules
    BY <1>1, <1>2, TopFrame DEF Frame
  <1>4. /\ IsFiniteSet(ImportHolds(m0))
        /\ 1 + Pending(m0) = Cardinality(ExecHolds(m0)) + Cardinality(GoneHolds(m0))
                                 + Cardinality(ImportHolds(m0))
    BY <1>1, <1>2, <1>3 DEF LoaderInv, CountInv, CountOf
  <1>5. Pending(m0) = -1
    BY <1>1, <1>2, PendingNow
  <1>6. /\ IsFiniteSet(ExecHolds(m0)) /\ Cardinality(ExecHolds(m0)) \in Nat
        /\ IsFiniteSet(GoneHolds(m0)) /\ Cardinality(GoneHolds(m0)) \in Nat
        /\ Cardinality(ImportHolds(m0)) \in Nat
    BY <1>4, FinitePlaces, FS_CardinalityType
  <1>7. \A a, b, c \in Nat : 1 + (-1) = a + b + c => a = 0 /\ b = 0 /\ c = 0
    OBVIOUS
  <1>8. /\ Cardinality(ExecHolds(m0)) = 0 /\ Cardinality(GoneHolds(m0)) = 0
        /\ Cardinality(ImportHolds(m0)) = 0
    BY <1>4, <1>5, <1>6, <1>7
  <1>9. ExecHolds(m0) = {} /\ GoneHolds(m0) = {} /\ ImportHolds(m0) = {}
    BY <1>4, <1>6, <1>8, FS_EmptySet
  <1> DEFINE S == Kept \ {m0}
  <1>10. S \in SUBSET Modules
    BY KeptClosed
  <1>11. \A r \in Modules : Root(r) => r \in S
    BY <1>9, KeptClosed, RootHeld
  <1>12. Closed(S)
    <2>1. SUFFICES ASSUME NEW n \in S, NEW m \in LibsOf(n) PROVE m \in S
      BY DEF Closed
    <2>2. n \in Kept /\ n \in Modules /\ m \in Kept
      BY <2>1, KeptClosed DEF Closed
    <2>3. relocs[n] = 1
      BY <2>2 DEF Ready
    <2>4. PICK l \in 1..Len(Imports(n)) : Lib(n, l) = m
      BY <2>1, <2>2, LibsAre
    <2>5. Holds(n, l)
      BY <2>3 DEF Holds
    <2>6. ImportHolds(m) # {}
      BY <2>2, <2>4, <2>5, ImportHeld
    <2>7. QED
      BY <1>9, <2>2, <2>6
  <1> HIDE DEF S
  <1>13. ASSUME m0 \in Kept PROVE m0 \in S
    BY <1>10, <1>11, <1>12, <1>13 DEF Kept
  <1>14. QED
    BY <1>13 DEF S

\* The loader routines spare what a started program needs.
LEMMA HeapReady ==
    ASSUME TypeOK, TypeOK', LoaderInv, Ready,
           \/ SetupSteps \/ CleanupSteps \/ RelocSteps \/ UnloadSteps
           \/ LoadCleansUp \/ LoadRelocates \/ ProgramReturns,
           NEW k \in Kept
    PROVE  linked'[k] /\ relocs'[k] = 1
  <1>1. k \in Modules /\ linked[k] /\ relocs[k] = 1
    BY KeptClosed DEF Ready
  <1>2. ~Zero(k)
    BY <1>1 DEF LoaderInv, RelocInv, RelocatedOnce, Zero
  <1>3. linked \in [Modules -> BOOLEAN] /\ relocs \in [Modules -> Int]
    BY DEF TypeOK
  <1>4. CASE UNCHANGED <<linked, relocs>>
    BY <1>1, <1>4
  <1>5. CASE SetupAllocates
    BY <1>1, <1>3, <1>5 DEF SetupAllocates
  <1>6. CASE (CleanupFrees \/ UnloadFrees)
    <2>1. /\ stack # <<>> /\ Top.op \in {"cleanup", "unload"} /\ Top.pc = "libs"
          /\ linked' = [linked EXCEPT ![Top.mod] = FALSE] /\ relocs' = relocs
      BY <1>6 DEF CleanupFrees, UnloadFrees, FreeLinkinfo, At
    <2>2. Len(stack) \in 1..Len(stack) /\ Top = stack[Len(stack)]
      BY <2>1, TopFrame
    <2>3. Zero(Top.mod)
      BY <2>1, <2>2 DEF LoaderInv, WorkInv, CleanupFramesOK, CleanupFrame, UnloadFrames, InWork
    <2>4. k # Top.mod
      BY <1>2, <2>3
    <2>5. QED
      BY <1>1, <1>3, <2>1, <2>4
  <1>7. CASE RelocAdds
    <2>1. /\ stack # <<>> /\ Top.op = "reloc" /\ Top.pc = "libs"
          /\ relocs' = [relocs EXCEPT ![Top.mod] = @ + 1] /\ linked' = linked
      BY <1>7 DEF RelocAdds, At
    <2>2. Len(stack) \in 1..Len(stack) /\ Top = stack[Len(stack)]
      BY <2>1, TopFrame
    <2>3. relocs[Top.mod] = 0
      BY <2>1, <2>2 DEF LoaderInv, RelocInv, RelocFrames, Works
    <2>4. QED
      BY <1>1, <1>3, <2>1, <2>3
  <1>8. CASE UnloadLast
    <2>1. k # Top.mod
      BY <1>8, UnloadSpares
    <2>2. relocs' = [relocs EXCEPT ![Top.mod] = @ - 1] /\ linked' = linked
      BY <1>8 DEF UnloadLast
    <2>3. QED
      BY <1>1, <1>3, <2>1, <2>2
  <1>9. \/ UNCHANGED <<linked, relocs>>
        \/ SetupAllocates \/ CleanupFrees \/ UnloadFrees \/ RelocAdds \/ UnloadLast
    BY DEF SetupSteps, SetupAlreadyDone, SetupTooOld, SetupIncompatible,
         SetupNoMemory, SetupLibMissing, SetupRangeError, SetupPseudolib,
         SetupRecurses, SetupLibDone, SetupFails, FindsLib, CleanupSteps, CleanupNothing, CleanupStarts,
         CleanupLib, RelocSteps, RelocShared, RelocFirst, RecurseLib,
         UnloadSteps, UnloadShared, LoadCleansUp, LoadRelocates, ProgramReturns, heap
  <1>10. QED
    BY <1>4, <1>5, <1>6, <1>7, <1>8, <1>9

\* A step that touches nothing.
LEMMA StillReady ==
    ASSUME TypeOK, Ready, UNCHANGED <<files, linked, relocs>>,
           abandoned' = abandoned, stack' = stack
    PROVE  Ready'
  <1>1. \A m \in Modules : Root(m)' => Root(m)
    BY DEF Root
  <1>2. QED
    BY <1>1, ReadyKept

\* While the loader works, nothing it does unsettles what is needed.
LEMMA NextReady ==
    ASSUME TypeOK, TypeOK', LoaderInv, LoaderInv', Ready, [Next]_vars
    PROVE  Ready'
  <1>1. CASE Resting'
    BY <1>1, RestingReady, PTL
  <1>2. CASE ~Resting'
    <2>1. stack' # <<>>
      BY <1>2 DEF Resting
    <2>2. StackOrder /\ StackShape
      BY DEF LoaderInv, RelocInv
    <2>3. CASE \/ SetupSteps \/ CleanupSteps \/ RelocSteps \/ UnloadSteps
               \/ LoadCleansUp \/ LoadRelocates \/ ProgramReturns
      <3>1. PhaseMove
        BY <2>3, PhaseMoves
      <3>2. files' = files
        BY <3>1 DEF PhaseMove
      <3>3. \A m \in Modules : Root(m)' => Root(m)
        BY <3>1, PhaseRoots
      <3>4. \A k \in Kept : linked'[k] /\ relocs'[k] = 1
        BY <2>3, HeapReady
      <3>5. QED
        BY <3>2, <3>3, <3>4, ReadyKept
    <2>4. CASE \E n \in Modules : ExecLoads(n)
      <3>1. files' = files /\ linked' = linked /\ relocs' = relocs
        BY <2>4 DEF ExecLoads, heap
      <3>2. \A m \in Modules : Root(m)' => Root(m)
        BY <2>4, RootExec
      <3>3. QED
        BY <3>1, <3>2, ReadyKept
    <2>5. CASE UNCHANGED vars
      BY <2>5, StillReady DEF vars
    <2>6. CASE Top'.op # "exec"
      <3>1. StepOf(Top'.op)
        BY <2>1, <2>2, <2>6, PhaseSteps
      <3>2. QED
        BY <2>3, <2>4, <2>5, <3>1 DEF StepOf
    <2>7. CASE Top'.op = "exec"
      <3>1. Top'.pc = "setup"
        BY <1>2, <2>1, <2>7 DEF Resting
      <3>2. SetupSteps \/ UNCHANGED <<files, stack, heap, d7, abandoned>>
        BY <2>1, <2>2, <2>7, <3>1, BackInExec
      <3>3. CASE UNCHANGED <<files, stack, heap, d7, abandoned>>
        BY <3>3, StillReady DEF heap
      <3>4. QED
        BY <2>3, <3>2, <3>3
    <2>8. QED
      BY <2>6, <2>7
  <1>3. QED
    BY <1>1, <1>2

(***************************************************************************)
(* From its start until it has returned or for ever, if it is thrown away, *)
(* a program finds every module it needs in memory and relocated.          *)
(***************************************************************************)
THEOREM ReadyAlways == Spec => []Ready
  <1>1. Init => TypeOK /\ LoaderInv
    BY InitType, InitLoader
  <1>2. Init => Resting
    BY DEF Init, Resting
  <1>3. Init => Ready
    BY <1>1, <1>2, RestingReady
  <1>4. TypeOK /\ LoaderInv /\ TypeOK' /\ LoaderInv' /\ Ready /\ [Next]_vars => Ready'
    BY NextReady
  <1>5. QED
    BY <1>3, <1>4, LoaderInvAlways, PTL DEF Spec

\* A program that was started, and all it imports, is needed.
LEMMA StartedKept ==
    ASSUME TypeOK, NEW i \in Started, NEW m \in Needs(stack[i].mod)
    PROVE  m \in Kept
  <1>1. DOMAIN stack = 1..Len(stack)
    BY LenProperties DEF TypeOK
  <1>2. i \in 1..Len(stack) /\ stack[i].op = "exec" /\ stack[i].pc \in {"run", "caught"}
    BY <1>1 DEF Started, Execs
  <1>3. SUFFICES ASSUME NEW p, p = stack[i].mod PROVE m \in Kept
    OBVIOUS
  <1>4. p \in Modules /\ Root(p)
    BY <1>2, <1>3, FrameMods DEF Root
  <1>5. m \in Modules
    BY <1>3 DEF Needs
  <1>6. SUFFICES ASSUME NEW S \in SUBSET Modules,
                        \A r \in Modules : Root(r) => r \in S, Closed(S)
                 PROVE  m \in S
    BY <1>5 DEF Kept
  <1>7. p \in S
    BY <1>4, <1>6
  <1>8. QED
    BY <1>3, <1>6, <1>7 DEF Needs, Closed

(***************************************************************************)
(* While a program runs, every module it needs is in memory and relocated, *)
(* whatever the loader is doing for the programs it executes.              *)
(***************************************************************************)
THEOREM RunningProgramsReadyAlways == Spec => []RunningProgramsReady
  <1>1. TypeOK /\ Ready => RunningProgramsReady
    BY StartedKept DEF Ready, RunningProgramsReady
  <1>2. QED
    BY <1>1, TypeCorrect, ReadyAlways, PTL

\* When no load is under way there are only running programs on the stack.
LEMMA QuietRests ==
    ASSUME TypeOK, LoaderInv, Quiet
    PROVE  /\ Resting
           /\ \A i \in 1..Len(stack) : stack[i].op = "exec" /\ stack[i].pc = "run"
  <1>1. Resting
    BY DEF Quiet, Idle, InProgram, At, Resting
  <1>2. \A i \in 1..Len(stack) : stack[i].op = "exec" /\ (i < Len(stack) => stack[i].pc = "run")
    BY <1>1, RestingStack DEF LoaderInv, RelocInv
  <1>3. CASE stack = <<>>
    BY <1>1, <1>3, EmptySeq
  <1>4. CASE stack # <<>>
    <2>1. Top.pc = "run" /\ Len(stack) \in Nat /\ Top = stack[Len(stack)]
      BY <1>4, TopFrame DEF Quiet, Idle, InProgram, At
    <2>2. QED
      BY <1>1, <1>2, <2>1
  <1>5. QED
    BY <1>3, <1>4

\* Then the holders are what UsageCountsReferences counts.
LEMMA QuietCounts ==
    ASSUME TypeOK, LoaderInv, Quiet, NEW m \in Modules
    PROVE  /\ Active(m) = Cardinality(ExecHolds(m)) + Cardinality(GoneHolds(m))
           /\ UNION {{<<n, i>> : i \in {j \in DOMAIN Imports(n) : Lib(n, j) = m}}
                        : n \in {k \in Modules : linked[k]}} = ImportHolds(m)
  <1>1. DOMAIN stack = 1..Len(stack) /\ DOMAIN abandoned = 1..Len(abandoned)
    BY LenProperties DEF TypeOK
  <1>2. \A i : i \in {j \in Started : stack[j].mod = m} <=> i \in ExecHolds(m)
    BY <1>1, QuietRests DEF Started, Execs, ExecHolds, HoldPlaces
  <1>3. {i \in Started : stack[i].mod = m} = ExecHolds(m)
    BY <1>2, SameSets
  <1>4. {i \in DOMAIN abandoned : abandoned[i] = m} = GoneHolds(m)
    BY <1>1 DEF GoneHolds
  <1>5. ASSUME NEW x
        PROVE  x \in UNION {{<<n, i>> : i \in {j \in DOMAIN Imports(n) : Lib(n, j) = m}}
                               : n \in {k \in Modules : linked[k]}}
               <=> x \in ImportHolds(m)
    <2>1. \A n \in Modules : DOMAIN Imports(n) = 1..Len(Imports(n))
      BY ImportList, LenProperties
    <2>2. \A n \in Modules : \A l : Holds(n, l) <=> linked[n]
      BY QuietRests, RestingModules
    <2>3. x \in ImportHolds(m) <=> \E n \in Modules : \E l \in 1..Len(Imports(n)) :
                                      Lib(n, l) = m /\ Holds(n, l) /\ x = <<n, l>>
      BY ImportRefs
    <2>4. x \in UNION {{<<n, i>> : i \in {j \in DOMAIN Imports(n) : Lib(n, j) = m}}
                               : n \in {k \in Modules : linked[k]}}
          <=> \E n \in Modules : linked[n] /\ \E l \in DOMAIN Imports(n) : Lib(n, l) = m /\ x = <<n, l>>
      OBVIOUS
    <2>5. QED
      BY <2>1, <2>2, <2>3, <2>4
  <1>6. UNION {{<<n, i>> : i \in {j \in DOMAIN Imports(n) : Lib(n, j) = m}}
                  : n \in {k \in Modules : linked[k]}} = ImportHolds(m)
    BY <1>5, SameSets
  <1>7. QED
    BY <1>3, <1>4, <1>6 DEF Active

(***************************************************************************)
(* When no load is under way, a usage count is the number of the exec      *)
(* calls that hold the module and of the imports of it in memory.          *)
(***************************************************************************)
THEOREM UsageCountsReferencesAlways == Spec => []UsageCountsReferences
  <1>1. ASSUME TypeOK, LoaderInv PROVE UsageCountsReferences
    <2>1. SUFFICES ASSUME Quiet, NEW m \in Modules
                   PROVE  usage[m] = Active(m)
                            + Cardinality(UNION {{<<n, i>> : i \in {j \in DOMAIN Imports(n) : Lib(n, j) = m}}
                                                 : n \in {k \in Modules : linked[k]}})
      BY DEF UsageCountsReferences
    <2>2. Pending(m) = 0
      BY <1>1, <2>1, QuietRests, RestingStack DEF LoaderInv, RelocInv
    <2>3. usage[m] + Pending(m) =
             Cardinality(ExecHolds(m)) + Cardinality(GoneHolds(m)) + Cardinality(ImportHolds(m))
      BY <1>1 DEF LoaderInv, CountInv, CountOf
    <2>4. usage[m] \in Int
      BY <1>1 DEF TypeOK
    <2>5. usage[m] = Cardinality(ExecHolds(m)) + Cardinality(GoneHolds(m))
                         + Cardinality(ImportHolds(m))
      BY <2>2, <2>3, <2>4
    <2>6. /\ Active(m) = Cardinality(ExecHolds(m)) + Cardinality(GoneHolds(m))
          /\ UNION {{<<n, i>> : i \in {j \in DOMAIN Imports(n) : Lib(n, j) = m}}
                        : n \in {k \in Modules : linked[k]}} = ImportHolds(m)
      BY <1>1, <2>1, QuietCounts
    <2>7. QED
      BY <2>5, <2>6, Zenon
  <1>2. QED
    BY <1>1, LoaderInvAlways, PTL

-----------------------------------------------------------------------------
(***************************************************************************)
(* Libraries outlive their importers.  A library that imports, however     *)
(* indirectly, a module that imports it is relocated after that module;    *)
(* what follows is about file systems without such cycles.                 *)
(***************************************************************************)
AcyclicImports ==
    \A X \in SUBSET Modules : X # {} => \E m \in X : \A n \in X : m \notin LibsOf(n)

\* The files stay acyclic.
LEMMA AcyclicKept == AcyclicImports /\ [Next]_vars => AcyclicImports'
  <1>1. SUFFICES ASSUME AcyclicImports, [Next]_vars PROVE AcyclicImports'
    OBVIOUS
  <1>2. files' = files
    BY <1>1, FilesFixed
  <1>3. \A n : LibsOf(n)' = LibsOf(n)
    BY <1>2 DEF LibsOf, Lib, Imports
  <1>4. QED
    BY <1>1, <1>3 DEF AcyclicImports

\* What is being relocated is not yet imported by anything relocated.
Fresh ==
    \A i \in 1..Len(stack) : Works(i, "reloc") =>
        \A n \in Modules : relocs[n] = 1 => stack[i].mod \notin LibsOf(n)

\* A set with two elements in it.
LEMMA TwoElements ==
    ASSUME NEW S, IsFiniteSet(S), NEW x \in S, NEW y \in S, x # y
    PROVE  Cardinality(S) \in Nat /\ Cardinality(S) >= 2
  <1>1. /\ Cardinality(S) \in Nat /\ IsFiniteSet(S \ {x})
        /\ Cardinality(S \ {x}) = Cardinality(S) - 1
    BY FS_CardinalityType, FS_RemoveElement
  <1>2. y \in S \ {x}
    OBVIOUS
  <1>3. S \ {x} # {}
    BY <1>2
  <1>4. Cardinality(S \ {x}) \in Nat
    BY <1>1, FS_CardinalityType
  <1>5. Cardinality(S \ {x}) # 0
    BY <1>1, <1>3, FS_EmptySet
  <1>6. QED
    BY <1>1, <1>4, <1>5

\* What a relocated module imports is counted, even by a load under way.
LEMMA ImporterCounts ==
    ASSUME TypeOK, LoaderInv, NEW n \in Modules, relocs[n] = 1, NEW m \in LibsOf(n)
    PROVE  m \in Modules /\ usage[m] > 0
  <1>1. PICK l \in 1..Len(Imports(n)) : Lib(n, l) = m
    BY LibsAre
  <1>2. m \in Modules
    BY LibsAre
  <1>3. <<n, l>> \in ImportHolds(m)
    BY <1>1, ImportRefs DEF Holds
  <1>4. CASE Pending(m) <= 0
    BY <1>2, <1>3, <1>4, HeldCounted DEF LoaderInv
  <1>5. CASE ~(Pending(m) <= 0)
    <2>1. stack # <<>> /\ Top.op = "reloc" /\ Top.pc = "enter" /\ Top.mod = m /\ Pending(m) = 1
      BY <1>5 DEF Pending
    <2>2. Len(stack) \in Nat \ {0} /\ Top = stack[Len(stack)] /\ Len(stack) # 1
      BY <2>1, TopFrame DEF LoaderInv, StackShape
    <2>3. SUFFICES ASSUME NEW j, j = Len(stack) - 1 PROVE usage[m] > 0
      BY <1>2
    <2>4. j \in 1..(Len(stack) - 1) /\ j \in 1..Len(stack) /\ j + 1 = Len(stack)
      BY <2>2, <2>3
    <2>5. HasCalled(stack[j], stack[j + 1])
      BY <2>4 DEF LoaderInv, StackShape
    <2>6. HasCalled(stack[j], Top)
      BY <2>2, <2>4, <2>5
    <2>7. CountOf(m)
      BY <1>2 DEF LoaderInv, CountInv
    <2>8. /\ IsFiniteSet(ExecHolds(m)) /\ Cardinality(ExecHolds(m)) \in Nat
          /\ Cardinality(GoneHolds(m)) \in Nat
          /\ IsFiniteSet(ImportHolds(m)) /\ Cardinality(ImportHolds(m)) \in Nat
      BY <2>7, FinitePlaces, FS_CardinalityType DEF CountOf
    <2>9. usage[m] \in Int
      BY <1>2 DEF TypeOK
    <2>10. \/ stack[j].op = "exec" /\ stack[j].pc = "reloc" /\ stack[j].mod = m
           \/ /\ stack[j].op = "reloc" /\ stack[j].pc = "libs"
              /\ stack[j].idx > 1 /\ m = Lib(stack[j].mod, stack[j].idx - 1)
      BY <2>1, <2>6 DEF HasCalled
    <2>11. CASE stack[j].op = "exec" /\ stack[j].pc = "reloc" /\ stack[j].mod = m
      <3>1. j \in ExecHolds(m)
        BY <2>4, <2>11 DEF ExecHolds, HoldPlaces
      <3>2. Cardinality(ExecHolds(m)) # 0 /\ Cardinality(ImportHolds(m)) # 0
        BY <1>3, <2>8, <3>1, FS_EmptySet
      <3>3. QED
        BY <2>1, <2>7, <2>8, <2>9, <3>2 DEF CountOf
    <2>12. CASE /\ stack[j].op = "reloc" /\ stack[j].pc = "libs"
                /\ stack[j].idx > 1 /\ m = Lib(stack[j].mod, stack[j].idx - 1)
      <3>1. SUFFICES ASSUME NEW n0, n0 = stack[j].mod, NEW l0, l0 = stack[j].idx - 1
                     PROVE  usage[m] > 0
        OBVIOUS
      <3>2. Works(j, "reloc") /\ stack[j] \in Frame /\ Shape(stack[j])
        BY <2>4, <2>12, ElementOfSeq DEF Works, TypeOK, LoaderInv, StackShape
      <3>3. relocs[n0] = 0
        BY <2>4, <3>1, <3>2 DEF LoaderInv, RelocInv, RelocFrames
      <3>4. n0 \in Modules /\ stack[j].idx \in 1..(Len(Imports(n0)) + 1) /\ stack[j].idx \in Nat
        BY <2>12, <3>1, <3>2 DEF Shape, Frame
      <3>5. Len(Imports(n0)) \in Nat
        BY <3>4, ImportList
      <3>6. l0 \in 1..Len(Imports(n0)) /\ l0 < stack[j].idx
        BY <2>12, <3>1, <3>4, <3>5
      <3>7. Holds(n0, l0)
        BY <2>4, <3>1, <3>2, <3>6 DEF Holds
      <3>8. <<n0, l0>> \in ImportHolds(m)
        BY <2>12, <3>1, <3>4, <3>6, <3>7, ImportRefs
      <3>9. <<n0, l0>> # <<n, l>>
        BY <3>3
      <3>10. Cardinality(ImportHolds(m)) >= 2
        BY <1>3, <2>8, <3>8, <3>9, TwoElements
      <3>11. QED
        BY <2>1, <2>7, <2>8, <2>9, <3>10 DEF CountOf
    <2>13. QED
      BY <2>10, <2>11, <2>12
  <1>6. QED
    BY <1>4, <1>5

\* The modules being relocated form a chain: each was called by an importer.
LEMMA RelocChain ==
    ASSUME TypeOK, LoaderInv, AcyclicImports, stack # <<>>, Top.op = "reloc",
           NEW i \in 1..(Len(stack) - 1), stack[i].op = "reloc"
    PROVE  stack[i].mod \notin LibsOf(Top.mod)
  <1>1. Len(stack) \in Nat \ {0} /\ Top = stack[Len(stack)]
    BY TopFrame
  <1>2. SUFFICES ASSUME stack[i].mod \in LibsOf(stack[Len(stack)].mod) PROVE FALSE
    BY <1>1
  <1>3. \A j \in i..Len(stack) : j \in 1..Len(stack) /\ stack[j].op = "reloc"
    BY <1>1 DEF LoaderInv, RelocInv, StackOrder
  <1> DEFINE X == {stack[j].mod : j \in i..Len(stack)}
  <1>4. X \in SUBSET Modules /\ X # {}
    <2>1. \A j \in i..Len(stack) : stack[j].mod \in Modules
      BY <1>3, FrameMods
    <2>2. i \in i..Len(stack)
      BY <1>1
    <2>3. QED
      BY <2>1, <2>2
  <1>5. ASSUME NEW j \in (i + 1)..Len(stack)
        PROVE  j - 1 \in i..Len(stack) /\ stack[j].mod \in LibsOf(stack[j - 1].mod)
    <2>1. SUFFICES ASSUME NEW k, k = j - 1
                   PROVE  k \in i..Len(stack) /\ stack[j].mod \in LibsOf(stack[k].mod)
      OBVIOUS
    <2>2. /\ k \in i..Len(stack) /\ k \in 1..Len(stack) /\ k \in 1..(Len(stack) - 1)
          /\ j \in i..Len(stack) /\ j \in 1..Len(stack) /\ j = k + 1
      BY <1>1, <2>1
    <2>3. HasCalled(stack[k], stack[k + 1]) /\ Shape(stack[k]) /\ stack[k].op = "reloc"
      BY <1>3, <2>2 DEF LoaderInv, StackShape
    <2>4. /\ stack[k].pc = "libs" /\ stack[k].idx > 1
          /\ stack[j].mod = Lib(stack[k].mod, stack[k].idx - 1)
      BY <2>2, <2>3 DEF HasCalled
    <2>5. stack[k] \in Frame /\ stack[k].mod \in Modules /\ stack[j].mod \in Modules
      BY <2>2, FrameMods, ElementOfSeq DEF TypeOK
    <2>6. stack[k].idx \in Nat /\ stack[k].idx \in 1..(Len(Imports(stack[k].mod)) + 1)
      BY <2>3, <2>4, <2>5 DEF Shape, Frame
    <2>7. Len(Imports(stack[k].mod)) \in Nat
      BY <2>5, ImportList
    <2>8. stack[k].idx - 1 \in 1..Len(Imports(stack[k].mod))
      BY <2>4, <2>6, <2>7
    <2>9. stack[j].mod \in LibsOf(stack[k].mod)
      BY <2>4, <2>5, <2>8, LibsAre
    <2>10. QED
      BY <2>2, <2>9
  <1>6. PICK m \in X : \A n \in X : m \notin LibsOf(n)
    BY <1>4 DEF AcyclicImports
  <1>7. PICK j \in i..Len(stack) : m = stack[j].mod
    BY <1>6
  <1>8. \A k \in i..Len(stack) : m \notin LibsOf(stack[k].mod)
    BY <1>6
  <1>9. CASE j = i
    <2>1. Len(stack) \in i..Len(stack)
      BY <1>1
    <2>2. QED
      BY <1>2, <1>7, <1>8, <1>9, <2>1
  <1>10. CASE j # i
    <2>1. j \in (i + 1)..Len(stack)
      BY <1>1, <1>10
    <2>2. QED
      BY <1>5, <1>7, <1>8, <2>1
  <1>11. QED
    BY <1>9, <1>10

\* The relocation of a module is finished before its importer's.
LEMMA NextFresh ==
    ASSUME TypeOK, TypeOK', LoaderInv, LoaderInv', AcyclicImports, Fresh, [Next]_vars
    PROVE  Fresh'
  <1>1. SUFFICES ASSUME NEW i \in 1..Len(stack'), Works(i, "reloc")',
                        NEW n \in Modules, relocs'[n] = 1,
                        NEW m, m = stack'[i].mod, m \in LibsOf(n)'
                 PROVE  FALSE
    BY DEF Fresh
  <1>2. files' = files
    BY FilesFixed
  <1>3. m \in LibsOf(n)
    BY <1>1, <1>2 DEF LibsOf, Lib, Imports
  <1>4. StackOrder /\ StackShape /\ StackOrder' /\ StackShape'
    BY DEF LoaderInv, RelocInv
  <1>5. stack'[i].op = "reloc" /\ stack'[i].pc = "libs"
    BY <1>1 DEF Works
  <1>6. stack' # <<>>
    BY <1>1, EmptySeq
  <1>7. Top'.op = "reloc"
    BY <1>1, <1>4, <1>5, <1>6, NewFramesBelow
  <1>8. UNCHANGED vars \/ RelocSteps \/ LoadRelocates
    BY <1>4, <1>6, <1>7, PhaseSteps DEF StepOf
  \* a frame that was there before
  <1>9. ASSUME i \in 1..Len(stack), stack'[i].mod = stack[i].mod,
               stack[i].op = "reloc", stack[i].pc = "libs"
        PROVE  relocs[n] # 1
    BY <1>1, <1>3, <1>9 DEF Fresh, Works
  <1>10. CASE UNCHANGED vars
    BY <1>1, <1>5, <1>9, <1>10 DEF vars
  <1>11. ASSUME stack # <<>> PROVE Len(stack) \in Nat \ {0} /\ Top = stack[Len(stack)] /\ Top \in Frame
    BY <1>11, TopFrame
  <1>12. CASE LoadRelocates
    <2>1. /\ stack # <<>> /\ Top.op = "exec" /\ GoCall("reloc", 0, "reloc", Top.mod)
      BY <1>12 DEF LoadRelocates, At
    <2>2. /\ Top.mod \in Modules /\ "reloc" \in Places /\ "reloc" \in Routines
          /\ 0 \in Nat
      BY <1>11, <2>1 DEF Frame, Places, Routines
    <2>8. /\ Len(stack') = Len(stack) + 1
          /\ \A j \in 1..(Len(stack) - 1) : stack'[j] = stack[j]
          /\ stack'[Len(stack)] = [op |-> Top.op, mod |-> Top.mod, pc |-> "reloc", idx |-> 0]
          /\ stack'[Len(stack) + 1] = [op |-> "reloc", mod |-> Top.mod, pc |-> "enter", idx |-> 0]
      BY <2>1, <2>2, GoCallStack
    <2>3. /\ Len(stack') = Len(stack) + 1
          /\ \A j \in 1..(Len(stack) - 1) : stack'[j] = stack[j]
          /\ stack'[Len(stack)].op = "exec"
          /\ stack'[Len(stack) + 1].pc = "enter"
      BY <2>1, <2>8
    <2>4. \A j \in 1..Len(stack) : stack[j].op = "exec"
      BY <1>4, <2>1, UnderTop
    <2>5. i \in 1..(Len(stack) - 1) \/ i = Len(stack) \/ i = Len(stack) + 1
      BY <1>1, <1>11, <2>1, <2>3
    <2>6. i \in 1..(Len(stack) - 1) => i \in 1..Len(stack)
      BY <1>11, <2>1
    <2>7. QED
      BY <1>5, <2>3, <2>4, <2>5, <2>6
  <1>13. CASE RelocShared
    <2>1. stack # <<>> /\ Return /\ relocs' = relocs
      BY <1>13 DEF RelocShared, At
    <2>2. i \in 1..(Len(stack) - 1) /\ i \in 1..Len(stack) /\ stack'[i] = stack[i]
      BY <1>1, <1>11, <2>1, ReturnStack
    <2>3. QED
      BY <1>1, <1>5, <1>9, <2>1, <2>2
  <1>14. CASE RelocFirst
    <2>1. /\ stack # <<>> /\ Goto("libs", 1) /\ relocs' = relocs
          /\ usage[Top.mod] = 0
      BY <1>14 DEF RelocFirst, At
    <2>6. "libs" \in Places /\ 1 \in Nat
      BY DEF Places
    <2>7. /\ Len(stack') = Len(stack)
          /\ \A j \in 1..(Len(stack) - 1) : stack'[j] = stack[j]
          /\ stack'[Len(stack)] = [op |-> Top.op, mod |-> Top.mod, pc |-> "libs", idx |-> 1]
      BY <2>1, <2>6, GotoStack
    <2>2. /\ Len(stack') = Len(stack)
          /\ \A j \in 1..(Len(stack) - 1) : stack'[j] = stack[j]
          /\ stack'[Len(stack)].mod = Top.mod
      BY <2>7
    <2>3. CASE i \in 1..(Len(stack) - 1)
      <3>1. i \in 1..Len(stack)
        BY <1>11, <2>1, <2>3
      <3>2. QED
        BY <1>1, <1>5, <1>9, <2>1, <2>2, <2>3, <3>1
    <2>4. CASE i = Len(stack)
      <3>1. m = Top.mod
        BY <1>1, <2>2, <2>4
      <3>2. usage[m] > 0
        BY <1>1, <1>3, <2>1, ImporterCounts
      <3>3. QED
        BY <2>1, <3>1, <3>2
    <2>5. QED
      BY <1>1, <1>11, <2>1, <2>2, <2>3, <2>4
  <1>15. CASE RecurseLib("reloc")
    <2>1. /\ stack # <<>> /\ Top.op = "reloc" /\ Top.pc = "libs"
          /\ Top.idx <= Len(Imports(Top.mod)) /\ relocs' = relocs
          /\ IF Lib(Top.mod, Top.idx) \in Modules
             THEN GoCall("libs", Top.idx + 1, "reloc", Lib(Top.mod, Top.idx))
             ELSE Goto("libs", Top.idx + 1)
      BY <1>15 DEF RecurseLib, At, heap
    <2>2. /\ Len(stack') = Len(stack) + (IF Lib(Top.mod, Top.idx) \in Modules THEN 1 ELSE 0)
          /\ \A j \in 1..(Len(stack) - 1) : stack'[j] = stack[j]
          /\ stack'[Len(stack)].mod = Top.mod
          /\ Lib(Top.mod, Top.idx) \in Modules => stack'[Len(stack) + 1].pc = "enter"
      BY <1>4, <2>1, RecurseStack
    <2>3. i \in 1..(Len(stack) - 1) \/ i = Len(stack)
      BY <1>1, <1>5, <1>11, <2>1, <2>2
    <2>4. i \in 1..Len(stack)
      BY <1>11, <2>1, <2>3
    <2>5. stack'[i].mod = stack[i].mod /\ stack[i].op = "reloc" /\ stack[i].pc = "libs"
      BY <1>5, <1>11, <2>1, <2>2, <2>3
    <2>6. QED
      BY <1>1, <1>9, <2>1, <2>4, <2>5
  <1>16. CASE RelocAdds
    <2>1. /\ stack # <<>> /\ Top.op = "reloc" /\ Return
          /\ relocs' = [relocs EXCEPT ![Top.mod] = @ + 1]
      BY <1>16 DEF RelocAdds, At
    <2>2. i \in 1..(Len(stack) - 1) /\ i \in 1..Len(stack) /\ stack'[i] = stack[i]
      BY <1>1, <1>11, <2>1, ReturnStack
    <2>3. m = stack[i].mod /\ stack[i].op = "reloc"
      BY <1>1, <1>5, <2>2
    <2>4. n # Top.mod
      BY <1>3, <2>1, <2>2, <2>3, RelocChain
    <2>5. relocs[n] = 1
      BY <1>1, <2>1, <2>4 DEF TypeOK
    <2>6. QED
      BY <1>5, <1>9, <2>2, <2>5
  <1>17. QED
    BY <1>8, <1>10, <1>12, <1>13, <1>14, <1>15, <1>16 DEF RelocSteps

(***************************************************************************)
(* The libraries a relocated module holds addresses of are in memory and   *)
(* relocated, in every state of the loads and unloads around them          *)
(* (module_reloc recurses before it adds, module_unload after it stops),   *)
(* if no library imports one of its importers.                             *)
(***************************************************************************)
THEOREM LibsOutliveImportersAlways == Spec /\ AcyclicImports => []LibsOutliveImporters
  <1>1. Init => Fresh
    BY EmptySeq DEF Init, Fresh
  <1>2. AcyclicImports /\ [Next]_vars => AcyclicImports'
    BY AcyclicKept
  <1>3. ASSUME TypeOK, TypeOK', LoaderInv, LoaderInv', AcyclicImports, Fresh, [Next]_vars
        PROVE  Fresh'
    BY <1>3, NextFresh
  <1>4. ASSUME TypeOK, LoaderInv, Fresh PROVE LibsOutliveImporters
    <2>1. SUFFICES ASSUME NEW n \in Modules, relocs[n] = 1, NEW m \in LibsOf(n)
                   PROVE  linked[m] /\ relocs[m] = 1
      BY DEF LibsOutliveImporters
    <2>2. m \in Modules /\ usage[m] > 0
      BY <1>4, <2>1, ImporterCounts
    <2>3. relocs[m] = 1
      BY <1>4, <2>1, <2>2 DEF Fresh, LoaderInv, RelocInv, CountedRelocated
    <2>4. QED
      BY <1>4, <2>2, <2>3 DEF LoaderInv, RelocInv, RelocatedOnce
  <1>5. QED
    BY <1>1, <1>2, <1>3, <1>4, LoaderInvAlways, PTL DEF Spec

-----------------------------------------------------------------------------
(* The loader keeps the contract: what counts is when executions begin and end *)

RunAt(i) == stack[i].op = "exec" /\ stack[i].pc \in {"run", "caught"}
StartedOf(m) == {i \in 1..Len(stack) : RunAt(i) /\ stack[i].mod = m}

\* The executions of a module, by the frames that hold them.
LEMMA ActiveCounts ==
    ASSUME TypeOK, NEW m
    PROVE  /\ Active(m) = Cardinality(StartedOf(m)) + Cardinality(GoneHolds(m))
           /\ IsFiniteSet(StartedOf(m)) /\ Cardinality(StartedOf(m)) \in Nat
           /\ Cardinality(GoneHolds(m)) \in Nat
           /\ Active(m) \in Nat
  <1>1. DOMAIN stack = 1..Len(stack) /\ DOMAIN abandoned = 1..Len(abandoned)
    BY LenProperties DEF TypeOK
  <1>2. {i \in Started : stack[i].mod = m} = StartedOf(m)
    BY <1>1 DEF Started, Execs, StartedOf, RunAt
  <1>3. {i \in DOMAIN abandoned : abandoned[i] = m} = GoneHolds(m)
    BY <1>1 DEF GoneHolds
  <1>4. IsFiniteSet(GoneHolds(m)) /\ Cardinality(GoneHolds(m)) \in Nat
    BY FinitePlaces
  <1>5. StartedOf(m) \subseteq 1..Len(stack) /\ 1 \in Int /\ Len(stack) \in Int
    BY LenProperties DEF StartedOf, TypeOK
  <1>6. IsFiniteSet(StartedOf(m)) /\ Cardinality(StartedOf(m)) \in Nat
    BY <1>5, FS_Interval, FS_Subset, FS_CardinalityType
  <1>7. QED
    BY <1>2, <1>3, <1>4, <1>6 DEF Active

\* The same for every module at once,
LEMMA ActiveIs ==
    TypeOK => \A k : Active(k) = Cardinality(StartedOf(k)) + Cardinality(GoneHolds(k))
  BY ActiveCounts

\* and after a step.
LEMMA NewActive ==
    ASSUME TypeOK', NEW m
    PROVE  Active(m)' = Cardinality(StartedOf(m)') + Cardinality(GoneHolds(m)')
  <1>1. (\A k : Active(k) = Cardinality(StartedOf(k)) + Cardinality(GoneHolds(k)))'
    BY ActiveIs, PTL
  <1>2. QED
    BY <1>1

\* The programs running are the same if their frames are.
LEMMA SameActive ==
    ASSUME TypeOK, TypeOK', abandoned' = abandoned,
           \A i : i \in 1..Len(stack') /\ RunAt(i)' <=> i \in 1..Len(stack) /\ RunAt(i),
           \A i \in 1..Len(stack) : RunAt(i) => stack'[i].mod = stack[i].mod
    PROVE  \A m : Active(m)' = Active(m)
  <1>1. SUFFICES ASSUME NEW m PROVE Active(m)' = Active(m)
    OBVIOUS
  <1>2. \A i : i \in StartedOf(m)' <=> i \in StartedOf(m)
    BY DEF StartedOf
  <1>3. StartedOf(m)' = StartedOf(m)
    BY <1>2, SameSets
  <1>4. GoneHolds(m)' = GoneHolds(m)
    BY DEF GoneHolds
  <1>5. Active(m)' = Cardinality(StartedOf(m)') + Cardinality(GoneHolds(m)')
    BY NewActive
  <1>6. QED
    BY <1>3, <1>4, <1>5, ActiveCounts

\* Nothing starts or ends when exec's frames stay as they are.
LEMMA QuietReturn ==
    ASSUME TypeOK, TypeOK', stack # <<>>, Return, abandoned' = abandoned,
           Top.op # "exec" \/ Top.pc \notin {"run", "caught"}
    PROVE  \A m : Active(m)' = Active(m)
  <1>1. /\ Len(stack) \in Nat \ {0} /\ Len(stack') = Len(stack) - 1 /\ Top = stack[Len(stack)]
        /\ \A i \in 1..(Len(stack) - 1) : stack'[i] = stack[i]
    BY TopFrame, ReturnStack
  <1>2. \A i : i \in 1..Len(stack') <=> i \in 1..Len(stack) /\ i # Len(stack)
    BY <1>1
  <1>3. \A i \in 1..Len(stack') : stack'[i] = stack[i]
    BY <1>1
  <1>4. \A i : i \in 1..Len(stack') /\ RunAt(i)' <=> i \in 1..Len(stack) /\ RunAt(i)
    BY <1>1, <1>2, <1>3 DEF RunAt
  <1>5. \A i \in 1..Len(stack) : RunAt(i) => stack'[i].mod = stack[i].mod
    BY <1>2, <1>3, <1>4
  <1>6. QED
    BY <1>4, <1>5, SameActive

\* A step inside a routine starts and ends no program,
LEMMA QuietGoto ==
    ASSUME TypeOK, TypeOK', stack # <<>>, NEW pc \in Places, NEW k \in Nat, Goto(pc, k),
           abandoned' = abandoned,
           Top.op = "exec" => (pc \in {"run", "caught"} <=> Top.pc \in {"run", "caught"})
    PROVE  \A m : Active(m)' = Active(m)
  <1>1. /\ Len(stack) \in Nat \ {0} /\ Len(stack') = Len(stack) /\ Top = stack[Len(stack)]
        /\ \A i \in 1..(Len(stack) - 1) : stack'[i] = stack[i]
        /\ stack'[Len(stack)] = [op |-> Top.op, mod |-> Top.mod, pc |-> pc, idx |-> k]
    BY TopFrame, GotoStack
  <1>2. \A i : i \in 1..Len(stack) <=> i \in 1..(Len(stack) - 1) \/ i = Len(stack)
    BY <1>1
  <1>3. \A i : i \in 1..Len(stack') <=> i \in 1..Len(stack)
    BY <1>1
  <1>4. \A i \in 1..Len(stack) : (RunAt(i)' <=> RunAt(i)) /\ stack'[i].mod = stack[i].mod
    BY <1>1, <1>2 DEF RunAt
  <1>5. QED
    BY <1>3, <1>4, SameActive

\* nor does a call,
LEMMA QuietCall ==
    ASSUME TypeOK, TypeOK', stack # <<>>, NEW pc \in Places, NEW k \in Nat,
           NEW op \in Routines \ {"exec"}, NEW n \in Modules, GoCall(pc, k, op, n),
           abandoned' = abandoned,
           Top.op = "exec" => pc \notin {"run", "caught"} /\ Top.pc \notin {"run", "caught"}
    PROVE  \A m : Active(m)' = Active(m)
  <1>1. /\ Len(stack) \in Nat \ {0} /\ Len(stack') = Len(stack) + 1 /\ Top = stack[Len(stack)]
        /\ \A i \in 1..(Len(stack) - 1) : stack'[i] = stack[i]
        /\ stack'[Len(stack)] = [op |-> Top.op, mod |-> Top.mod, pc |-> pc, idx |-> k]
        /\ stack'[Len(stack) + 1] = [op |-> op, mod |-> n, pc |-> "enter", idx |-> 0]
    BY TopFrame, GoCallStack
  <1>2. \A i : i \in 1..Len(stack) <=> i \in 1..(Len(stack) - 1) \/ i = Len(stack)
    BY <1>1
  <1>3. \A i : i \in 1..Len(stack') <=> i \in 1..Len(stack) \/ i = Len(stack) + 1
    BY <1>1
  <1>4. \A i \in 1..Len(stack) : (RunAt(i)' <=> RunAt(i)) /\ stack'[i].mod = stack[i].mod
    BY <1>1, <1>2 DEF RunAt
  <1>5. stack'[Len(stack) + 1].op # "exec"
    BY <1>1
  <1>6. \A i : i \in 1..Len(stack') /\ RunAt(i)' <=> i \in 1..Len(stack) /\ RunAt(i)
    BY <1>1, <1>3, <1>4, <1>5 DEF RunAt
  <1>7. QED
    BY <1>4, <1>6, SameActive

\* nor exec before its program is loaded.
LEMMA QuietExec ==
    ASSUME TypeOK, TypeOK', NEW n \in Modules, ExecLoads(n)
    PROVE  \A m : Active(m)' = Active(m)
  <1>1. /\ Len(stack) \in Nat /\ Len(stack') = Len(stack) + 2
        /\ \A i \in 1..Len(stack) : stack'[i] = stack[i]
        /\ stack'[Len(stack) + 1] = ExecFrame(n)
        /\ stack'[Len(stack) + 2] = Call("setup", n)
    BY ExecStack, LenProperties DEF TypeOK
  <1>2. abandoned' = abandoned
    BY DEF ExecLoads
  <1>3. \A i : i \in 1..Len(stack') <=> i \in 1..Len(stack) \/ i = Len(stack) + 1 \/ i = Len(stack) + 2
    BY <1>1
  <1>4. \A i \in 1..Len(stack) : (RunAt(i)' <=> RunAt(i)) /\ stack'[i].mod = stack[i].mod
    BY <1>1 DEF RunAt
  <1>5. stack'[Len(stack) + 1].pc = "setup" /\ stack'[Len(stack) + 2].op = "setup"
    BY <1>1 DEF ExecFrame, Call
  <1>6. \A i : i \in 1..Len(stack') /\ RunAt(i)' <=> i \in 1..Len(stack) /\ RunAt(i)
    BY <1>1, <1>3, <1>4, <1>5 DEF RunAt
  <1>7. QED
    BY <1>2, <1>4, <1>6, SameActive

\* A program is called: one execution of it more.
LEMMA StartCounts ==
    ASSUME TypeOK, TypeOK', ExecRuns
    PROVE  \A m : Active(m)' = Active(m) + IF m = Top.mod THEN 1 ELSE 0
  <1>1. stack # <<>> /\ Top.op = "exec" /\ Top.pc = "reloc" /\ Goto("run", 0) /\ abandoned' = abandoned
    BY DEF ExecRuns, At
  <1>2. "run" \in Places /\ 0 \in Nat
    BY DEF Places
  <1>3. /\ Len(stack) \in Nat \ {0} /\ Len(stack') = Len(stack) /\ Top = stack[Len(stack)]
        /\ \A i \in 1..(Len(stack) - 1) : stack'[i] = stack[i]
        /\ stack'[Len(stack)] = [op |-> Top.op, mod |-> Top.mod, pc |-> "run", idx |-> 0]
    BY <1>1, <1>2, TopFrame, GotoStack
  <1>4. SUFFICES ASSUME NEW m PROVE Active(m)' = Active(m) + IF m = Top.mod THEN 1 ELSE 0
    OBVIOUS
  <1>5. \A i : i \in 1..Len(stack) <=> i \in 1..(Len(stack) - 1) \/ i = Len(stack)
    BY <1>3
  <1>6. Len(stack) \notin 1..(Len(stack) - 1)
    BY <1>3
  <1>7. \A i : i \in StartedOf(m)' <=> i \in StartedOf(m) \/ (m = Top.mod /\ i = Len(stack))
    BY <1>1, <1>3, <1>5, <1>6 DEF StartedOf, RunAt
  <1>8. Len(stack) \notin StartedOf(m)
    BY <1>1, <1>3 DEF StartedOf, RunAt
  <1>9. IsFiniteSet(StartedOf(m)) /\ Cardinality(StartedOf(m)) \in Nat
    BY ActiveCounts
  <1>10. Cardinality(StartedOf(m)') = Cardinality(StartedOf(m)) + IF m = Top.mod THEN 1 ELSE 0
    <2>1. CASE m = Top.mod
      <3>1. StartedOf(m)' = StartedOf(m) \cup {Len(stack)}
        BY <1>7, <2>1, SameSets
      <3>2. QED
        BY <1>8, <1>9, <2>1, <3>1, FS_AddElement
    <2>2. CASE m # Top.mod
      <3>1. StartedOf(m)' = StartedOf(m)
        BY <1>7, <2>2, SameSets
      <3>2. QED
        BY <1>9, <2>2, <3>1
    <2>3. QED
      BY <2>1, <2>2
  <1>11. GoneHolds(m)' = GoneHolds(m)
    BY <1>1 DEF GoneHolds
  <1>12. Active(m)' = Cardinality(StartedOf(m)') + Cardinality(GoneHolds(m)')
    BY NewActive
  <1>13. /\ Active(m) = Cardinality(StartedOf(m)) + Cardinality(GoneHolds(m))
         /\ Cardinality(GoneHolds(m)) \in Nat
    BY ActiveCounts
  <1>14. QED
    BY <1>9, <1>10, <1>11, <1>12, <1>13

NoReloc == \A i \in 1..Len(stack) : stack[i].op = "exec" => stack[i].pc # "reloc"
EndsOrRests == stack # <<>> => Top.op = "unload" \/ (Top.op = "exec" /\ Top.pc # "reloc")

\* No module is being relocated when programs end or rest.
LEMMA NoRelocUnder == TypeOK /\ LoaderInv /\ EndsOrRests => NoReloc
  <1> SUFFICES ASSUME TypeOK, LoaderInv, EndsOrRests PROVE NoReloc
    OBVIOUS
  <1>1. CASE stack = <<>>
    BY <1>1, EmptySeq DEF NoReloc
  <1>2. CASE stack # <<>>
    <2>1. \A i \in 1..Len(stack) :
              i < Len(stack) /\ stack[i].op = "exec" => stack[i].pc \in {"run", Top.op}
      BY <1>2, UnderTop DEF LoaderInv, RelocInv
    <2>2. Len(stack) \in Nat \ {0} /\ Top = stack[Len(stack)]
      BY <1>2, TopFrame
    <2>3. Top.op \in {"unload", "exec"}
      BY <1>2 DEF EndsOrRests
    <2>4. Top.op = "exec" => Top.pc # "reloc"
      BY <1>2 DEF EndsOrRests
    <2>5. \A i \in 1..Len(stack) : i < Len(stack) \/ i = Len(stack)
      BY <2>2
    <2>6. QED
      BY <2>1, <2>2, <2>3, <2>4, <2>5 DEF NoReloc
  <1>3. QED
    BY <1>1, <1>2

HeldActive == \A k : Active(k) = Cardinality(ExecHolds(k)) + Cardinality(GoneHolds(k))

\* Then every module held is held by a program that was started,
LEMMA HeldStarted == TypeOK /\ LoaderInv /\ EndsOrRests => HeldActive
  <1>1. SUFFICES ASSUME TypeOK, LoaderInv, EndsOrRests, NEW m
                 PROVE  Active(m) = Cardinality(ExecHolds(m)) + Cardinality(GoneHolds(m))
    BY DEF HeldActive
  <1>2. NoReloc
    BY <1>1, NoRelocUnder
  <1>3. \A i : i \in StartedOf(m) <=> i \in ExecHolds(m)
    BY <1>2 DEF NoReloc, StartedOf, RunAt, ExecHolds, HoldPlaces
  <1>4. StartedOf(m) = ExecHolds(m)
    BY <1>3, SameSets
  <1>5. QED
    BY <1>1, <1>4, ActiveCounts

\* before and after a step.
LEMMA NewHeldStarted ==
    ASSUME TypeOK', LoaderInv', EndsOrRests', NEW m
    PROVE  Active(m)' = Cardinality(ExecHolds(m)') + Cardinality(GoneHolds(m)')
  <1>1. HeldActive'
    BY HeldStarted, PTL
  <1>2. QED
    BY <1>1 DEF HeldActive

\* A program returns: one execution of it less.
LEMMA EndCounts ==
    ASSUME TypeOK, TypeOK', LoaderInv, LoaderInv', ProgramReturns
    PROVE  /\ \A m : Active(m)' = Active(m) - IF m = Top.mod THEN 1 ELSE 0
           /\ Active(Top.mod) > 0
  <1>1. /\ stack # <<>> /\ Top.op = "exec" /\ Top.pc = "run"
        /\ GoCall("unload", 0, "unload", Top.mod) /\ abandoned' = abandoned
    BY DEF ProgramReturns, InProgram, At
  <1>2. Top.mod \in Modules /\ Len(stack) \in Nat \ {0} /\ Top = stack[Len(stack)]
    BY <1>1, TopFrame DEF Frame
  <1>3. /\ "unload" \in Places \ HoldPlaces /\ "unload" \in Places
        /\ "unload" \in Routines \ {"exec"} /\ "unload" \in Routines
        /\ 0 \in Nat /\ "run" \in HoldPlaces
    BY DEF Places, HoldPlaces, Routines
  <1>4. \A m : Cardinality(ExecHolds(m)') =
                  Cardinality(ExecHolds(m)) - IF m = Top.mod THEN 1 ELSE 0
    BY <1>1, <1>2, <1>3, HolderRemoved
  <1>5. \A m : GoneHolds(m)' = GoneHolds(m)
    BY <1>1 DEF GoneHolds
  <1>6. EndsOrRests
    BY <1>1 DEF EndsOrRests
  <1>7. EndsOrRests'
    <2>1. Top' = [op |-> "unload", mod |-> Top.mod, pc |-> "enter", idx |-> 0]
      BY <1>1, <1>2, <1>3, AfterCall
    <2>2. Top'.op = "unload"
      BY <2>1
    <2>3. QED
      BY <2>2 DEF EndsOrRests
  <1>8. ASSUME NEW m PROVE Active(m)' = Active(m) - IF m = Top.mod THEN 1 ELSE 0
    <2>1. Active(m)' = Cardinality(ExecHolds(m)') + Cardinality(GoneHolds(m)')
      BY <1>7, NewHeldStarted
    <2>2. Active(m) = Cardinality(ExecHolds(m)) + Cardinality(GoneHolds(m))
      BY <1>6, HeldStarted DEF HeldActive
    <2>3. Cardinality(ExecHolds(m)) \in Nat /\ Cardinality(GoneHolds(m)) \in Nat
      BY FinitePlaces
    <2>4. QED
      BY <1>4, <1>5, <2>1, <2>2, <2>3
  <1>9. Active(Top.mod) > 0
    <2>1. Len(stack) \in StartedOf(Top.mod)
      BY <1>1, <1>2 DEF StartedOf, RunAt
    <2>2. SUFFICES ASSUME NEW p, p = Top.mod PROVE Active(p) > 0
      OBVIOUS
    <2>3. /\ Active(p) = Cardinality(StartedOf(p)) + Cardinality(GoneHolds(p))
          /\ IsFiniteSet(StartedOf(p)) /\ Cardinality(StartedOf(p)) \in Nat
          /\ Cardinality(GoneHolds(p)) \in Nat
      BY ActiveCounts
    <2>4. Cardinality(StartedOf(p)) # 0
      BY <2>1, <2>2, <2>3, FS_EmptySet
    <2>5. QED
      BY <2>3, <2>4
  <1>10. QED
    BY <1>8, <1>9

\* A throw keeps the reference of the program it abandons.
LEMMA ThrowCountsSame ==
    ASSUME TypeOK, TypeOK', LoaderInv, LoaderInv', ThrowStop
    PROVE  \A m \in Modules : Active(m)' = Active(m)
  <1>1. stack # <<>> /\ Top.op = "exec" /\ Top.pc = "caught"
    BY DEF ThrowStop, At
  <1>2. EndsOrRests
    BY <1>1 DEF EndsOrRests
  <1>3. StackShape
    BY DEF LoaderInv
  <1>4. EndsOrRests'
    BY <1>3, AfterThrow DEF EndsOrRests
  <1>5. ASSUME NEW m \in Modules PROVE Active(m)' = Active(m)
    <2>1. Active(m)' = Cardinality(ExecHolds(m)') + Cardinality(GoneHolds(m)')
      BY <1>4, NewHeldStarted
    <2>2. Active(m) = Cardinality(ExecHolds(m)) + Cardinality(GoneHolds(m))
      BY <1>2, HeldStarted DEF HeldActive
    <2>3. QED
      BY <1>3, <2>1, <2>2, HolderGone
  <1>6. QED
    BY <1>5

\* What the loader does otherwise starts and ends nothing.
LEMMA SameExecutions ==
    ASSUME TypeOK, TypeOK', LoaderInv, LoaderInv', [Next]_vars
    PROVE  ExecRuns \/ ProgramReturns \/ \A m \in Modules : Active(m)' = Active(m)
  <1>1. CASE ThrowStop
    BY <1>1, ThrowCountsSame
  <1>2. CASE \E m \in Modules : ExecLoads(m)
    BY <1>2, QuietExec
  <1>3. CASE ExecFails \/ ExecReturns
    <2>1. /\ stack # <<>> /\ Return /\ abandoned' = abandoned
          /\ Top.pc \notin {"run", "caught"}
      BY <1>3 DEF ExecFails, ExecReturns, At
    <2>2. QED
      BY <2>1, QuietReturn
  <1>4. CASE ProgramThrows
    <2>1. /\ stack # <<>> /\ Goto("caught", 0) /\ abandoned' = abandoned
          /\ Top.pc = "run" /\ "caught" \in Places /\ 0 \in Nat
      BY <1>4 DEF ProgramThrows, InProgram, At, Places
    <2>2. QED
      BY <2>1, QuietGoto
  <1>5. CASE stack' = stack /\ abandoned' = abandoned
    <2>1. \A i : i \in 1..Len(stack') /\ RunAt(i)' <=> i \in 1..Len(stack) /\ RunAt(i)
      BY <1>5 DEF RunAt
    <2>2. \A i \in 1..Len(stack) : RunAt(i) => stack'[i].mod = stack[i].mod
      BY <1>5
    <2>3. QED
      BY <1>5, <2>1, <2>2, SameActive
  <1>6. CASE LoadRelocates \/ LoadCleansUp
    <2>1. /\ stack # <<>> /\ Top.pc = "setup" /\ abandoned' = abandoned
          /\ \E op \in {"reloc", "cleanup"} : GoCall(op, 0, op, Top.mod)
      BY <1>6 DEF LoadRelocates, LoadCleansUp, At
    <2>2. Top.mod \in Modules /\ 0 \in Nat /\ {"reloc", "cleanup"} \subseteq Places
          /\ {"reloc", "cleanup"} \subseteq Routines \ {"exec"}
      BY <2>1, TopFrame DEF Frame, Places, Routines
    <2>3. QED
      BY <2>1, <2>2, QuietCall
  <1>7. CASE SetupSteps \/ CleanupSteps \/ RelocSteps \/ UnloadSteps
    <2>1. PhaseMove
      BY <1>7, PhaseMoves
    <2>2. Top.op # "exec"
      BY <1>7 DEF SetupSteps, SetupAlreadyDone, SetupTooOld, SetupIncompatible,
         SetupNoMemory, SetupAllocates, Allocates, SetupLibMissing, SetupRangeError, SetupPseudolib,
         SetupRecurses, SetupLibDone, SetupFails, FindsLib, CleanupSteps, CleanupNothing, CleanupStarts,
         CleanupLib, CleanupFrees, RelocSteps, RelocShared, RelocFirst, RecurseLib,
         RelocAdds, UnloadSteps, UnloadShared, UnloadLast, UnloadFrees, At
    <2>3. QED
      BY <2>1, <2>2, QuietReturn, QuietGoto, QuietCall DEF PhaseMove
  <1>8. QED
    BY <1>1, <1>2, <1>3, <1>4, <1>5, <1>6, <1>7
       DEF Next, KernelStep, ProgramStep, ThrowStep, Halted, ExecSteps, ExecRefused, QuitThrown, vars

\* Between loads, what is in memory is what the executions under way need.
LEMMA QuietLinked ==
    TypeOK /\ LoaderInv /\ Ready /\ AcyclicImports /\ Quiet =>
        {m \in Modules : linked[m]} = InUse
  <1> SUFFICES ASSUME TypeOK, LoaderInv, Ready, AcyclicImports, Quiet
               PROVE  {m \in Modules : linked[m]} = InUse
    OBVIOUS
  <1>1. Resting /\ \A i \in 1..Len(stack) : stack[i].op = "exec" /\ stack[i].pc = "run"
    BY QuietRests
  <1>2. EndsOrRests
    <2>1. stack # <<>> => Top = stack[Len(stack)] /\ Len(stack) \in 1..Len(stack)
      BY TopFrame
    <2>2. QED
      BY <1>1, <2>1 DEF EndsOrRests
  <1>3. ASSUME NEW p \in Modules, ExecHolds(p) # {} \/ GoneHolds(p) # {}
        PROVE  Active(p) > 0
    <2>1. Active(p) = Cardinality(ExecHolds(p)) + Cardinality(GoneHolds(p))
      BY <1>2, HeldStarted DEF HeldActive
    <2>2. /\ IsFiniteSet(ExecHolds(p)) /\ Cardinality(ExecHolds(p)) \in Nat
          /\ IsFiniteSet(GoneHolds(p)) /\ Cardinality(GoneHolds(p)) \in Nat
      BY FinitePlaces
    <2>3. Cardinality(ExecHolds(p)) # 0 \/ Cardinality(GoneHolds(p)) # 0
      BY <1>3, <2>2, FS_EmptySet
    <2>4. QED
      BY <2>1, <2>2, <2>3
  <1>4. ASSUME NEW p \in Modules, Active(p) > 0
        PROVE  ExecHolds(p) # {} \/ GoneHolds(p) # {}
    <2>1. Active(p) = Cardinality(ExecHolds(p)) + Cardinality(GoneHolds(p))
      BY <1>2, HeldStarted DEF HeldActive
    <2>2. Cardinality({}) = 0
      BY FS_EmptySet
    <2>3. QED
      BY <1>4, <2>1, <2>2
  <1>5. ASSUME NEW m \in InUse PROVE m \in Modules /\ linked[m]
    <2>1. PICK p \in Modules : Active(p) > 0 /\ m \in Needs(p)
      BY <1>5 DEF InUse
    <2>2. Root(p)
      <3>1. CASE ExecHolds(p) # {}
        BY <1>1, <3>1 DEF ExecHolds, Root
      <3>2. CASE GoneHolds(p) # {}
        BY <3>2 DEF GoneHolds, Root
      <3>3. QED
        BY <1>4, <2>1, <3>1, <3>2
    <2>3. m \in Modules
      BY <2>1 DEF Needs
    <2>4. ASSUME NEW S \in SUBSET Modules, \A r \in Modules : Root(r) => r \in S, Closed(S)
          PROVE  m \in S
      BY <2>1, <2>2, <2>4 DEF Needs, Closed
    <2>5. m \in Kept
      BY <2>3, <2>4 DEF Kept
    <2>6. QED
      BY <2>3, <2>5 DEF Ready
  <1> DEFINE X == {m \in Modules : linked[m] /\ m \notin InUse}
  <1>6. ASSUME NEW m \in X PROVE \E n \in X : m \in LibsOf(n)
    <2>1. m \in Modules /\ linked[m] /\ m \notin InUse
      BY <1>6
    <2>2. m \in Needs(m)
      BY <2>1 DEF Needs
    <2>3. ~(Active(m) > 0)
      BY <2>1, <2>2 DEF InUse
    <2>4. ExecHolds(m) = {} /\ GoneHolds(m) = {}
      BY <1>3, <2>1, <2>3
    <2>5. usage[m] > 0
      BY <1>1, <2>1, RestingModules
    <2>6. Pending(m) = 0
      BY <1>1, RestingStack DEF LoaderInv, RelocInv
    <2>7. CountOf(m)
      BY <2>1 DEF LoaderInv, CountInv
    <2>15. Cardinality(ExecHolds(m)) = 0 /\ Cardinality(GoneHolds(m)) = 0
      BY <2>4, FS_EmptySet
    <2>16. usage[m] \in Int
      BY <2>1 DEF TypeOK
    <2>8. Cardinality(ImportHolds(m)) # 0
      BY <2>5, <2>6, <2>7, <2>15, <2>16 DEF CountOf
    <2>9. ImportHolds(m) # {}
      BY <2>8, FS_EmptySet
    <2>10. PICK n \in Modules : \E l \in 1..Len(Imports(n)) : Lib(n, l) = m /\ Holds(n, l)
      BY <2>9, ImportRefs
    <2>11. linked[n]
      BY <1>1, <2>10, RestingModules
    <2>12. m \in LibsOf(n)
      BY <2>1, <2>10, LibsAre
    <2>13. n \notin InUse
      <3>1. SUFFICES ASSUME n \in InUse PROVE m \in InUse
        BY <2>1
      <3>2. PICK p \in Modules : Active(p) > 0 /\ n \in Needs(p)
        BY <3>1 DEF InUse
      <3>3. m \in Needs(p)
        BY <2>1, <2>12, <3>2 DEF Needs
      <3>4. QED
        BY <3>2, <3>3 DEF InUse
    <2>14. QED
      BY <2>10, <2>11, <2>12, <2>13
  <1>7. X = {}
    <2>1. X \in SUBSET Modules
      OBVIOUS
    <2> HIDE DEF X
    <2>2. QED
      BY <1>6, <2>1 DEF AcyclicImports
  <1>8. QED
    BY <1>5, <1>7

ContractReady == IF Quiet THEN {m \in Modules : linked[m]} ELSE InUse
ContractReadyIs == ContractReady = InUse

\* What the contract calls ready is what the running programs need.
LEMMA ReadyIsInUse ==
    TypeOK /\ LoaderInv /\ Ready /\ AcyclicImports => ContractReadyIs
  BY QuietLinked DEF ContractReady, ContractReadyIs

(***************************************************************************)
(* The loader implements the contract: seen between exec's calls, a load   *)
(* and an unload are one step each, and a load that fails is none.         *)
(***************************************************************************)
LEMMA ContractStep ==
    ASSUME TypeOK, TypeOK', LoaderInv, LoaderInv', Ready, Ready',
           AcyclicImports, AcyclicImports', [Next]_vars
    PROVE  [Contract!Next]_(Contract!vars)
  <1>1. ContractReady = InUse
    BY ReadyIsInUse DEF ContractReadyIs
  <1>2. ContractReady' = InUse'
    <2>1. ContractReadyIs'
      BY ReadyIsInUse, PTL
    <2>2. QED
      BY <2>1 DEF ContractReadyIs
  <1>3. files' = files
    BY FilesFixed
  <1>4. \A m : LibsOf(m)' = LibsOf(m)
    BY <1>3 DEF LibsOf, Lib, Imports
  <1>5. \A m : Needs(m)' = Needs(m)
    BY <1>4 DEF Needs
  <1>6. [m \in Modules |-> Needs(m)]' = [m \in Modules |-> Needs(m)]
    BY <1>5
  <1>7. \A m \in Modules : Active(m) \in Nat
    BY ActiveCounts
  <1>8. ASSUME \A m \in Modules : Active(m)' = Active(m)
        PROVE  UNCHANGED Contract!vars
    <2>1. [m \in Modules |-> Active(m)]' = [m \in Modules |-> Active(m)]
      BY <1>8
    <2>2. InUse' = InUse
      BY <1>5, <1>8 DEF InUse
    <2>3. QED
      BY <1>1, <1>2, <1>6, <2>1, <2>2 DEF Contract!vars, ContractReady
  <1>9. ASSUME ExecRuns
        PROVE  \E p \in Modules : Contract!Start(p)
    <2>1. Top.mod \in Modules
      BY <1>9, TopFrame DEF ExecRuns, At, Frame
    <2>2. \A m : Active(m)' = Active(m) + IF m = Top.mod THEN 1 ELSE 0
      BY <1>9, StartCounts
    <2>3. SUFFICES ASSUME NEW p \in Modules,
                          \A m : Active(m)' = Active(m) + IF m = p THEN 1 ELSE 0
                   PROVE  Contract!Start(p)
      BY <2>1, <2>2
    <2>4. \A m \in Modules : Active(m)' = IF m = p THEN Active(m) + 1 ELSE Active(m)
      BY <1>7, <2>3
    <2>5. [m \in Modules |-> Active(m)]' = [[m \in Modules |-> Active(m)] EXCEPT ![p] = @ + 1]
      BY <2>4
    <2>6. InUse' = InUse \cup Needs(p)
      <3>1. \A m \in Modules : Active(m)' > 0 <=> Active(m) > 0 \/ m = p
        BY <1>7, <2>4
      <3>2. \A x : x \in InUse' <=> \E m \in Modules : Active(m)' > 0 /\ x \in Needs(m)
        BY <1>5 DEF InUse
      <3>3. \A x : x \in InUse <=> \E m \in Modules : Active(m) > 0 /\ x \in Needs(m)
        BY DEF InUse
      <3>4. \A x : x \in InUse' <=> x \in InUse \cup Needs(p)
        BY <3>1, <3>2, <3>3
      <3>5. QED
        BY <3>4, SameSets
    <2>7. QED
      BY <1>1, <1>2, <1>6, <2>5, <2>6 DEF Contract!Start, ContractReady
  <1>10. ASSUME ProgramReturns
         PROVE  \E p \in Modules : Contract!End(p)
    <2>1. Top.mod \in Modules
      BY <1>10, TopFrame DEF ProgramReturns, InProgram, At, Frame
    <2>2. /\ \A m : Active(m)' = Active(m) - IF m = Top.mod THEN 1 ELSE 0
          /\ Active(Top.mod) > 0
      BY <1>10, EndCounts
    <2>3. SUFFICES ASSUME NEW p \in Modules, Active(p) > 0,
                          \A m : Active(m)' = Active(m) - IF m = p THEN 1 ELSE 0
                   PROVE  Contract!End(p)
      BY <2>1, <2>2
    <2>4. \A m \in Modules : Active(m)' = IF m = p THEN Active(m) - 1 ELSE Active(m)
      BY <1>7, <2>3
    <2>5. [m \in Modules |-> Active(m)]' = [[m \in Modules |-> Active(m)] EXCEPT ![p] = @ - 1]
      BY <2>4
    <2>6. InUse' = Contract!NeededBy([m \in Modules |-> Active(m)]')
      <3> DEFINE G == [m \in Modules |-> Active(m)]'
                 N == [m \in Modules |-> Needs(m)]
      <3>1. \A x : x \in InUse' <=> \E m \in Modules : Active(m)' > 0 /\ x \in Needs(m)
        BY <1>5 DEF InUse
      <3>2. \A m \in Modules : G[m] = Active(m)' /\ N[m] = Needs(m)
        OBVIOUS
      <3>3. Contract!NeededBy(G) = UNION {N[m] : m \in {k \in Modules : G[k] > 0}}
        BY DEF Contract!NeededBy
      <3> HIDE DEF G, N
      <3>4. \A x : x \in UNION {N[m] : m \in {k \in Modules : G[k] > 0}}
                   <=> \E m \in Modules : G[m] > 0 /\ x \in N[m]
        OBVIOUS
      <3>5. \A x : x \in InUse' <=> x \in Contract!NeededBy(G)
        BY <3>1, <3>2, <3>3, <3>4
      <3>6. InUse' = Contract!NeededBy(G)
        BY <3>5, SameSets
      <3>7. QED
        BY <3>6 DEF G
    <2>7. ContractReady' = Contract!NeededBy([m \in Modules |-> Active(m)]')
      BY <1>2, <2>6
    <2>8. QED
      BY <1>6, <2>3, <2>5, <2>7 DEF Contract!End, ContractReady
  <1>11. QED
    BY <1>8, <1>9, <1>10, SameExecutions DEF Contract!Next

\* At first nothing runs.
LEMMA ContractInit == Init => Contract!Init
  <1> SUFFICES ASSUME Init PROVE Contract!Init
    OBVIOUS
  <1>1. TypeOK /\ stack = <<>> /\ abandoned = <<>> /\ Len(stack) = 0 /\ Len(abandoned) = 0
    BY InitType, EmptySeq DEF Init
  <1>2. [m \in Modules |-> Needs(m)] \in [Modules -> SUBSET Modules]
    BY DEF Needs
  <1>3. \A m : StartedOf(m) = {} /\ GoneHolds(m) = {}
    BY <1>1 DEF StartedOf, GoneHolds
  <1>4. \A m : Active(m) = 0
    BY <1>1, <1>3, ActiveCounts, FS_EmptySet
  <1>5. [m \in Modules |-> Active(m)] = [m \in Modules |-> 0]
    BY <1>4
  <1>6. Quiet /\ {m \in Modules : linked[m]} = {}
    BY <1>1 DEF Init, Quiet, Idle
  <1>7. (IF Quiet THEN {m \in Modules : linked[m]} ELSE InUse) = {}
    BY <1>6
  <1>8. QED
    BY <1>2, <1>5, <1>7 DEF Contract!Init

(***************************************************************************)
(* The loader implements LoadContract: seen from outside, a program and    *)
(* all it needs come into memory in one step, those nothing else needs go  *)
(* in one step, and a load that fails is no step.                          *)
(***************************************************************************)
THEOREM ContractKept == Spec /\ AcyclicImports => ImplementsContract
  <1>1. TypeOK /\ TypeOK' /\ LoaderInv /\ LoaderInv' /\ Ready /\ Ready'
          /\ AcyclicImports /\ AcyclicImports' /\ [Next]_vars
            => [Contract!Next]_(Contract!vars)
    BY ContractStep
  <1>2. QED
    BY <1>1, ContractInit, AcyclicKept, LoaderInvAlways, ReadyAlways, PTL
       DEF Spec, ImplementsContract, Contract!Spec

-----------------------------------------------------------------------------
(***************************************************************************)
(* A load that fails: the code in d7 is about a module the program needs,  *)
(* and clearing up does not lose it.                                       *)
(***************************************************************************)
Plain(m) == \A n \in Needs(m) : ~files[n].reserved

SetupNeeds ==
    \A i, j \in 1..Len(stack) :
        i < j /\ stack[i].op = "exec" /\ stack[i].pc = "setup" =>
            stack[j].mod \in Needs(stack[i].mod)

\* module_setup starts on a library with the code for one that is missing
CodeSet == stack # <<>> /\ Top.op = "setup" /\ Top.pc = "find" => d7 = EXEC_LIB_NOT_FOUND

SetupBack == (Top.op = "setup" /\ Top.pc = "lib") \/ Top.op = "exec"
Reported ==
    \A i \in 1..Len(stack) : stack[i].op = "exec" /\ Plain(stack[i].mod) =>
        /\ stack[i].pc = "setup" /\ SetupBack => d7 = EXEC_OK \/ Explains(d7, stack[i].mod)
        /\ stack[i].pc = "cleanup" => Explains(d7, stack[i].mod)

CodeInv == SetupNeeds /\ CodeSet /\ Reported

\* What a program needs contains the program, and every library of what it contains.
LEMMA NeedsClosed ==
    ASSUME TypeOK, NEW m \in Modules
    PROVE  /\ m \in Needs(m) /\ Needs(m) \subseteq Modules
           /\ \A n \in Needs(m) : LibsOf(n) \subseteq Needs(m)
  <1>1. m \in Needs(m) /\ Needs(m) \subseteq Modules
    BY DEF Needs
  <1>2. ASSUME NEW n \in Needs(m), NEW k \in LibsOf(n) PROVE k \in Needs(m)
    <2>1. k \in Modules
      BY <1>2 DEF LibsOf
    <2>2. QED
      BY <1>2, <2>1 DEF Needs
  <1>3. QED
    BY <1>1, <1>2

\* As long as no file changes, neither does what is said of the files.
LEMMA SameFiles ==
    ASSUME files' = files
    PROVE  /\ \A m : Needs(m)' = Needs(m)
           /\ \A m : Plain(m)' <=> Plain(m)
           /\ \A c, m : Explains(c, m)' <=> Explains(c, m)
  <1>1. \A m : LibsOf(m)' = LibsOf(m)
    BY DEF LibsOf, Lib, Imports
  <1>2. \A m : Needs(m)' = Needs(m)
    BY <1>1 DEF Needs
  <1>3. \A m : Plain(m)' <=> Plain(m)
    BY <1>2 DEF Plain
  <1>4. \A c, m : Explains(c, m)' <=> Explains(c, m)
    BY <1>2 DEF Explains, Found, InRange, ExportsOf, Readable, Lib, Imports
  <1>5. QED
    BY <1>2, <1>3, <1>4

\* Two of the codes, each with what it stands for.
LEMMA ExplainsIf ==
    ASSUME NEW c, NEW m
    PROVE  /\ c = EXEC_LIB_NOT_FOUND =>
                 (Explains(c, m) <=> \E n \in Needs(m) : \E i \in DOMAIN Imports(n) : ~Found(Lib(n, i)))
           /\ c = EXEC_LIB_RANGE_ERR =>
                 (Explains(c, m) <=> \E n \in Needs(m) : \E i \in DOMAIN Imports(n) :
                                       Found(Lib(n, i)) /\ ~InRange(n, i))
  BY DEF Explains, EXEC_LIB_NOT_FOUND, EXEC_LIB_RANGE_ERR, EXEC_INCOMPATIBLE, EXEC_NO_MEM

\* What module_setup leaves in d7 when it returns, or goes on to the next library.
LEMMA SetupCode ==
    ASSUME TypeOK, StackShape, CodeInv, SetupSteps, NEW p \in Modules, Plain(p),
           Top.mod \in Needs(p),
           Top.pc = "lib" => d7 = EXEC_OK \/ Explains(d7, p)
    PROVE  \/ Return /\ (d7' = EXEC_OK \/ Explains(d7', p))
           \/ \E k \in Nat : Goto("find", k) /\ d7' = EXEC_LIB_NOT_FOUND
           \/ /\ GoCall("lib", Top.idx, "setup", Lib(Top.mod, Top.idx))
              /\ Lib(Top.mod, Top.idx) \in Modules
  <1>1. /\ stack # <<>> /\ Top.op = "setup" /\ Top \in Frame /\ Top.idx \in Nat /\ Top.idx + 1 \in Nat
        /\ Top.mod \in Modules /\ Shape(Top)
    <2>1. stack # <<>> /\ Top.op = "setup"
      BY DEF SetupSteps, SetupAlreadyDone, SetupTooOld, SetupIncompatible,
         SetupNoMemory, SetupAllocates, Allocates, SetupLibMissing, SetupRangeError, SetupPseudolib,
         SetupRecurses, SetupLibDone, FindsLib, At
    <2>2. Top \in Frame /\ Top = stack[Len(stack)] /\ Len(stack) \in 1..Len(stack)
      BY <2>1, TopFrame
    <2>3. QED
      BY <2>1, <2>2 DEF Frame, StackShape
  <1>2. ASSUME Top.pc = "find" PROVE Top.idx \in DOMAIN Imports(Top.mod)
    <2>1. Top.idx \in 1..Len(Imports(Top.mod))
      BY <1>1, <1>2 DEF Shape
    <2>2. QED
      BY <1>1, <2>1, ImportList, LenProperties
  <1>3. CASE SetupAlreadyDone
    BY <1>3 DEF SetupAlreadyDone, SetupFails
  <1>4. CASE SetupTooOld
    BY <1>4 DEF SetupTooOld, Plain
  <1>5. CASE SetupIncompatible
    <2>1. ~Readable(Top.mod) /\ Return /\ d7' = EXEC_INCOMPATIBLE
      BY <1>5 DEF SetupIncompatible, SetupFails
    <2>2. \E n \in Needs(p) : ~Readable(n)
      BY <2>1
    <2>3. Explains(d7', p)
      BY <2>1, <2>2 DEF Explains, EXEC_INCOMPATIBLE, EXEC_LIB_NOT_FOUND, EXEC_LIB_RANGE_ERR
    <2>4. QED
      BY <2>1, <2>3
  <1>6. CASE SetupNoMemory
    <2>1. Return /\ d7' = EXEC_NO_MEM
      BY <1>6 DEF SetupNoMemory, SetupFails
    <2>2. Explains(d7', p)
      BY <2>1 DEF Explains, EXEC_INCOMPATIBLE, EXEC_LIB_NOT_FOUND, EXEC_LIB_RANGE_ERR, EXEC_NO_MEM
    <2>3. QED
      BY <2>1, <2>2
  <1>7. CASE SetupAllocates
    <2>1. 1 \in Nat
      OBVIOUS
    <2>2. QED
      BY <1>7, <2>1 DEF SetupAllocates
  <1>8. CASE SetupLibMissing
    <2>1. /\ Top.pc = "find" /\ ~Found(Lib(Top.mod, Top.idx))
          /\ Return /\ d7' = d7
      BY <1>8 DEF SetupLibMissing, SetupFails, At
    <2>2. d7' = EXEC_LIB_NOT_FOUND
      BY <1>1, <2>1 DEF CodeInv, CodeSet
    <2>3. \E n \in Needs(p) : \E i \in DOMAIN Imports(n) : ~Found(Lib(n, i))
      BY <1>2, <2>1
    <2>4. Explains(d7', p)
      BY <2>2, <2>3, ExplainsIf
    <2>5. QED
      BY <2>1, <2>4
  <1>9. CASE SetupRangeError
    <2>1. /\ Top.pc = "find" /\ Found(Lib(Top.mod, Top.idx)) /\ ~InRange(Top.mod, Top.idx)
          /\ Return /\ d7' = EXEC_LIB_RANGE_ERR
      BY <1>9 DEF SetupRangeError, At
    <2>2. \E n \in Needs(p) : \E i \in DOMAIN Imports(n) : Found(Lib(n, i)) /\ ~InRange(n, i)
      BY <1>2, <2>1
    <2>3. Explains(d7', p)
      BY <2>1, <2>2, ExplainsIf
    <2>4. QED
      BY <2>1, <2>3
  <1>10. ASSUME NextLib
         PROVE  \/ Return /\ d7' = EXEC_OK
                \/ \E k \in Nat : Goto("find", k) /\ d7' = EXEC_LIB_NOT_FOUND
    BY <1>1, <1>10 DEF NextLib
  <1>11. CASE SetupPseudolib
    BY <1>10, <1>11 DEF SetupPseudolib
  <1>12. CASE SetupRecurses
    BY <1>12 DEF SetupRecurses
  <1>13. CASE SetupLibDone
    <2>1. CASE d7 = EXEC_OK
      BY <1>10, <1>13, <2>1 DEF SetupLibDone
    <2>2. CASE d7 # EXEC_OK
      <3>1. Top.pc = "lib" /\ Return /\ d7' = d7
        BY <1>13, <2>2 DEF SetupLibDone, At
      <3>2. QED
        BY <2>2, <3>1
    <2>3. QED
      BY <2>1, <2>2
  <1>14. QED
    BY <1>3, <1>4, <1>5, <1>6, <1>7, <1>8, <1>9, <1>11, <1>12, <1>13 DEF SetupSteps

\* The steps of module_setup return, go on to an import, or call module_setup for it.
LEMMA SetupMoves ==
    ASSUME TypeOK, SetupSteps
    PROVE  /\ stack # <<>> /\ Top.op = "setup" /\ files' = files
           /\ \/ Return
              \/ \E k \in Nat : Goto("find", k) /\ d7' = EXEC_LIB_NOT_FOUND
              \/ /\ GoCall("lib", Top.idx, "setup", Lib(Top.mod, Top.idx))
                 /\ Lib(Top.mod, Top.idx) \in Modules
                 /\ Top.pc = "find"
  <1>1. stack # <<>> /\ Top.op = "setup" /\ files' = files
    BY DEF SetupSteps, SetupAlreadyDone, SetupTooOld, SetupIncompatible,
       SetupNoMemory, SetupAllocates, Allocates, SetupLibMissing, SetupRangeError, SetupPseudolib,
       SetupRecurses, SetupLibDone, SetupFails, FindsLib, At
  <1>2. Top.idx + 1 \in Nat /\ 1 \in Nat
    BY <1>1, TopFrame DEF Frame
  <1>3. \/ Return
        \/ Goto("find", 1) /\ d7' = EXEC_LIB_NOT_FOUND
        \/ Goto("find", Top.idx + 1) /\ d7' = EXEC_LIB_NOT_FOUND
        \/ /\ GoCall("lib", Top.idx, "setup", Lib(Top.mod, Top.idx))
           /\ Lib(Top.mod, Top.idx) \in Modules
           /\ Top.pc = "find"
    BY DEF SetupSteps, SetupAlreadyDone, SetupTooOld, SetupIncompatible,
       SetupNoMemory, SetupAllocates, SetupLibMissing, SetupRangeError, SetupPseudolib,
       SetupRecurses, SetupLibDone, SetupFails, NextLib, FindsLib, At
  <1>4. QED
    BY <1>1, <1>2, <1>3

\* A routine other than exec leaves exec's frames as they are.
LEMMA ExecBelow ==
    ASSUME TypeOK, PhaseMove, Top.op # "exec", NEW i \in 1..Len(stack'), stack'[i].op = "exec"
    PROVE  i \in 1..(Len(stack) - 1) /\ i \in 1..Len(stack) /\ stack'[i] = stack[i]
  <1>1. stack # <<>> /\ Len(stack) \in Nat \ {0}
    BY TopFrame DEF PhaseMove
  <1>2. CASE Return
    BY <1>1, <1>2, ReturnStack
  <1>3. ASSUME NEW pc \in Places, NEW k \in Nat, Goto(pc, k)
        PROVE  i \in 1..(Len(stack) - 1) /\ i \in 1..Len(stack) /\ stack'[i] = stack[i]
    <2>1. /\ Len(stack') = Len(stack)
          /\ \A j \in 1..(Len(stack) - 1) : stack'[j] = stack[j]
          /\ stack'[Len(stack)] = [op |-> Top.op, mod |-> Top.mod, pc |-> pc, idx |-> k]
      BY <1>1, <1>3, GotoStack
    <2>2. i # Len(stack)
      BY <2>1
    <2>3. QED
      BY <1>1, <2>1, <2>2
  <1>4. ASSUME NEW pc \in Places, NEW k \in Nat, NEW op \in Routines \ {"exec"}, NEW n \in Modules,
               GoCall(pc, k, op, n)
        PROVE  i \in 1..(Len(stack) - 1) /\ i \in 1..Len(stack) /\ stack'[i] = stack[i]
    <2>1. /\ Len(stack') = Len(stack) + 1
          /\ \A j \in 1..(Len(stack) - 1) : stack'[j] = stack[j]
          /\ stack'[Len(stack)] = [op |-> Top.op, mod |-> Top.mod, pc |-> pc, idx |-> k]
          /\ stack'[Len(stack) + 1] = [op |-> op, mod |-> n, pc |-> "enter", idx |-> 0]
      BY <1>1, <1>4, GoCallStack
    <2>2. i # Len(stack) /\ i # Len(stack) + 1
      BY <2>1
    <2>3. QED
      BY <1>1, <2>1, <2>2
  <1>5. QED
    BY <1>2, <1>3, <1>4 DEF PhaseMove

ExecsBelow == \A i \in 1..Len(stack) :
                  i < Len(stack) /\ stack[i].op = "exec" => stack[i].pc \in {"run", Top.op}

\* An exec call under the top has called the routine on top, or runs its program.
LEMMA ExecsWait == TypeOK /\ LoaderInv => ExecsBelow
  <1>1. SUFFICES ASSUME TypeOK, LoaderInv PROVE ExecsBelow
    OBVIOUS
  <1>2. CASE stack = <<>>
    BY <1>2, EmptySeq DEF ExecsBelow
  <1>3. CASE stack # <<>>
    BY <1>1, <1>3, UnderTop DEF ExecsBelow, LoaderInv, RelocInv
  <1>4. QED
    BY <1>2, <1>3

\* Which steps lead to a state where a load is being set up, or undone.
LEMMA LoadSteps ==
    ASSUME TypeOK, TypeOK', LoaderInv, LoaderInv', [Next]_vars,
           NEW i \in 1..Len(stack'), stack'[i].op = "exec",
           NEW op \in {"setup", "cleanup"}, stack'[i].pc = op
    PROVE  \/ UNCHANGED <<files, stack, d7>>
           \/ op = "setup" /\ (SetupSteps \/ \E m \in Modules : ExecLoads(m))
           \/ op = "cleanup" /\ (CleanupSteps \/ LoadCleansUp)
  <1>1. stack' # <<>>
    BY EmptySeq
  <1>2. Len(stack') \in Nat \ {0} /\ Top' = stack'[Len(stack')]
    BY <1>1, NewTop
  <1>3. StackOrder /\ StackShape
    BY DEF LoaderInv, RelocInv
  <1>4. CASE i = Len(stack')
    <2>1. Top'.op = "exec" /\ Top'.pc = op
      BY <1>2, <1>4
    <2>2. QED
      BY <1>1, <1>3, <2>1, BackFrom
  <1>5. CASE i # Len(stack')
    <2>1. ExecsBelow'
      BY ExecsWait, PTL
    <2>2. i < Len(stack')
      BY <1>2, <1>5
    <2>3. Top'.op = op
      BY <2>1, <2>2 DEF ExecsBelow
    <2>4. StepOf(op)
      BY <1>1, <1>3, <2>3, PhaseSteps
    <2>5. QED
      BY <2>4 DEF StepOf, vars
  <1>6. QED
    BY <1>4, <1>5

\* module_setup comes to an import with the code for a missing library.
LEMMA NextCodeSet ==
    ASSUME TypeOK, TypeOK', LoaderInv, LoaderInv', CodeInv, [Next]_vars
    PROVE  CodeSet'
  <1>1. SUFFICES ASSUME stack' # <<>>, Top'.op = "setup", Top'.pc = "find"
                 PROVE  d7' = EXEC_LIB_NOT_FOUND
    BY DEF CodeSet
  <1>2. StackOrder /\ StackShape
    BY DEF LoaderInv, RelocInv
  <1>3. UNCHANGED vars \/ SetupSteps \/ \E m \in Modules : ExecLoads(m)
    BY <1>1, <1>2, PhaseSteps DEF StepOf
  <1>4. CASE UNCHANGED vars
    BY <1>1, <1>4 DEF vars, CodeInv, CodeSet, Top
  <1>5. CASE \E m \in Modules : ExecLoads(m)
    <2>1. Top'.pc = "enter"
      BY <1>5, AfterExec
    <2>2. QED
      BY <1>1, <2>1
  <1>6. CASE SetupSteps
    <2>1. stack # <<>> /\ Top.op = "setup" /\ Top.idx \in Nat
      BY <1>6, SetupMoves, TopFrame DEF Frame
    <2>2. ~Return
      <3>1. SUFFICES ASSUME Return PROVE FALSE
        OBVIOUS
      <3>2. HasCalled(Top', Top)
        BY <1>1, <1>2, <2>1, <3>1, AfterReturn
      <3>3. QED
        BY <1>1, <3>2 DEF HasCalled
    <2>3. "lib" \in Places /\ "setup" \in Routines
      BY DEF Places, Routines
    <2>4. ~(GoCall("lib", Top.idx, "setup", Lib(Top.mod, Top.idx)) /\ Lib(Top.mod, Top.idx) \in Modules)
      <3>1. SUFFICES ASSUME GoCall("lib", Top.idx, "setup", Lib(Top.mod, Top.idx)),
                            Lib(Top.mod, Top.idx) \in Modules
                     PROVE  FALSE
        OBVIOUS
      <3>2. Top'.pc = "enter"
        BY <2>1, <2>3, <3>1, AfterCall
      <3>3. QED
        BY <1>1, <3>2
    <2>5. QED
      BY <1>6, <2>2, <2>4, SetupMoves
  <1>7. QED
    BY <1>3, <1>4, <1>5, <1>6

\* The import module_setup has reached belongs to a module the program needs.
LEMMA ReachedLib ==
    ASSUME TypeOK, StackShape, stack # <<>>, Top.op = "setup", Top.pc = "find",
           NEW p \in Modules, Top.mod \in Needs(p), Lib(Top.mod, Top.idx) \in Modules
    PROVE  Lib(Top.mod, Top.idx) \in Needs(p)
  <1>1. Top \in Frame /\ Top = stack[Len(stack)] /\ Len(stack) \in 1..Len(stack)
    BY TopFrame
  <1>2. Top.mod \in Modules /\ Top.idx \in 1..Len(Imports(Top.mod))
    BY <1>1 DEF Shape, StackShape, Frame
  <1>3. Lib(Top.mod, Top.idx) \in LibsOf(Top.mod)
    BY <1>2, LibsAre
  <1>4. QED
    BY <1>3, NeedsClosed

\* module_setup keeps to what the program needs, and to codes that explain it.
LEMMA SetupLoad ==
    ASSUME TypeOK, TypeOK', LoaderInv, LoaderInv', CodeInv, SetupSteps,
           NEW i \in 1..Len(stack'), stack'[i].op = "exec", stack'[i].pc = "setup",
           NEW p, p = stack'[i].mod
    PROVE  /\ \A j \in 1..Len(stack') : i < j => stack'[j].mod \in Needs(p)
           /\ Plain(p) /\ SetupBack' => d7' = EXEC_OK \/ Explains(d7', p)
  <1>1. /\ stack # <<>> /\ Top.op = "setup" /\ files' = files
        /\ Len(stack) \in Nat \ {0} /\ Top = stack[Len(stack)] /\ Top \in Frame
        /\ Top.mod \in Modules /\ Top.idx \in Nat
    BY SetupMoves, TopFrame DEF Frame
  <1>2. i \in 1..(Len(stack) - 1) /\ i \in 1..Len(stack) /\ stack'[i] = stack[i]
    BY <1>1, PhaseMoves, ExecBelow
  <1>3. p \in Modules /\ p = stack[i].mod /\ stack[i].op = "exec" /\ stack[i].pc = "setup"
    BY <1>2, FrameMods
  <1>4. \A j \in 1..Len(stack) : i < j => stack[j].mod \in Needs(p)
    BY <1>2, <1>3 DEF CodeInv, SetupNeeds
  <1>5. Top.mod \in Needs(p)
    BY <1>1, <1>2, <1>4
  <1>6. StackOrder /\ StackShape
    BY DEF LoaderInv, RelocInv
  <1>7. {"find", "lib"} \subseteq Places /\ "setup" \in Routines
    BY DEF Places, Routines
  <1>8. \A j \in 1..Len(stack') : i < j => stack'[j].mod \in Needs(p)
    <2>1. CASE Return
      <3>1. Len(stack') = Len(stack) - 1 /\ \A j \in 1..(Len(stack) - 1) : stack'[j] = stack[j]
        BY <1>1, <2>1, ReturnStack
      <3>2. \A j \in 1..Len(stack') : j \in 1..Len(stack) /\ stack'[j] = stack[j]
        BY <1>1, <3>1
      <3>3. QED
        BY <1>4, <3>2
    <2>2. ASSUME NEW k \in Nat, Goto("find", k)
          PROVE  \A j \in 1..Len(stack') : i < j => stack'[j].mod \in Needs(p)
      <3>1. /\ Len(stack') = Len(stack)
            /\ \A j \in 1..(Len(stack) - 1) : stack'[j] = stack[j]
            /\ stack'[Len(stack)] = [op |-> Top.op, mod |-> Top.mod, pc |-> "find", idx |-> k]
        BY <1>1, <1>7, <2>2, GotoStack
      <3>2. stack'[Len(stack)].mod = stack[Len(stack)].mod
        BY <1>1, <3>1
      <3>3. \A j \in 1..Len(stack') : j \in 1..Len(stack) /\ stack'[j].mod = stack[j].mod
        BY <1>1, <3>1, <3>2
      <3>4. QED
        BY <1>4, <3>3
    <2>3. ASSUME GoCall("lib", Top.idx, "setup", Lib(Top.mod, Top.idx)),
                 Lib(Top.mod, Top.idx) \in Modules, Top.pc = "find"
          PROVE  \A j \in 1..Len(stack') : i < j => stack'[j].mod \in Needs(p)
      <3>1. SUFFICES ASSUME NEW n0 \in Modules, n0 = Lib(Top.mod, Top.idx)
                     PROVE  \A j \in 1..Len(stack') : i < j => stack'[j].mod \in Needs(p)
        BY <2>3
      <3>2. GoCall("lib", Top.idx, "setup", n0)
        BY <2>3, <3>1
      <3>3. /\ Len(stack') = Len(stack) + 1
            /\ \A j \in 1..(Len(stack) - 1) : stack'[j] = stack[j]
            /\ stack'[Len(stack)] = [op |-> Top.op, mod |-> Top.mod, pc |-> "lib", idx |-> Top.idx]
            /\ stack'[Len(stack) + 1] = [op |-> "setup", mod |-> n0, pc |-> "enter", idx |-> 0]
        BY <1>1, <1>7, <3>2, GoCallStack
      <3>4. /\ stack'[Len(stack)].mod = stack[Len(stack)].mod
            /\ stack'[Len(stack) + 1].mod = n0
        BY <1>1, <3>3
      <3>5. \A j \in 1..Len(stack') :
                j = Len(stack) + 1 \/ (j \in 1..Len(stack) /\ stack'[j].mod = stack[j].mod)
        BY <1>1, <3>3, <3>4
      <3>6. n0 \in Needs(p)
        BY <1>1, <1>3, <1>5, <1>6, <2>3, <3>1, ReachedLib
      <3>7. QED
        BY <1>4, <3>4, <3>5, <3>6
    <2>4. QED
      BY <2>1, <2>2, <2>3, SetupMoves
  <1>9. ASSUME Plain(p), SetupBack' PROVE d7' = EXEC_OK \/ Explains(d7', p)
    <2>1. Top.pc = "lib" => d7 = EXEC_OK \/ Explains(d7, p)
      BY <1>1, <1>2, <1>3, <1>9 DEF CodeInv, Reported, SetupBack
    <2>2. \/ Return /\ (d7' = EXEC_OK \/ Explains(d7', p))
          \/ \E k \in Nat : Goto("find", k) /\ d7' = EXEC_LIB_NOT_FOUND
          \/ /\ GoCall("lib", Top.idx, "setup", Lib(Top.mod, Top.idx))
             /\ Lib(Top.mod, Top.idx) \in Modules
      BY <1>3, <1>5, <1>6, <1>9, <2>1, SetupCode
    <2>3. ASSUME NEW k \in Nat, Goto("find", k) PROVE FALSE
      <3>1. Top' = [op |-> Top.op, mod |-> Top.mod, pc |-> "find", idx |-> k]
        BY <1>1, <1>7, <2>3, AfterGoto
      <3>2. Top'.op = "setup" /\ Top'.pc = "find"
        BY <1>1, <3>1
      <3>3. QED
        BY <1>9, <3>2 DEF SetupBack
    <2>4. ASSUME GoCall("lib", Top.idx, "setup", Lib(Top.mod, Top.idx)), Lib(Top.mod, Top.idx) \in Modules
          PROVE  FALSE
      <3>1. Top'.op = "setup" /\ Top'.pc = "enter"
        BY <1>1, <1>7, <2>4, AfterCall
      <3>2. QED
        BY <1>9, <3>1 DEF SetupBack
    <2>5. QED
      BY <2>2, <2>3, <2>4
  <1>10. QED
    BY <1>8, <1>9

\* exec sets up the program itself.
LEMMA ExecLoad ==
    ASSUME TypeOK, TypeOK', LoaderInv, LoaderInv', NEW n \in Modules, ExecLoads(n),
           NEW i \in 1..Len(stack'), stack'[i].op = "exec", stack'[i].pc = "setup",
           NEW p, p = stack'[i].mod
    PROVE  /\ \A j \in 1..Len(stack') : i < j => stack'[j].mod \in Needs(p)
           /\ ~SetupBack'
  <1>1. /\ Len(stack) \in Nat /\ Len(stack') = Len(stack) + 2
        /\ \A j \in 1..Len(stack) : stack'[j] = stack[j]
        /\ stack'[Len(stack) + 1] = ExecFrame(n)
        /\ stack'[Len(stack) + 2] = Call("setup", n)
    BY ExecStack, LenProperties DEF TypeOK
  <1>2. stack'[Len(stack) + 2].op = "setup" /\ stack'[Len(stack) + 2].mod = n
    BY <1>1 DEF Call
  <1>3. stack'[Len(stack) + 1].mod = n
    BY <1>1 DEF ExecFrame
  <1>4. \A j \in 1..Len(stack) : stack[j].pc = "run"
    BY QuietRests DEF ExecLoads
  <1>5. i = Len(stack) + 1
    BY <1>1, <1>2, <1>4
  <1>6. p = n /\ n \in Needs(n)
    BY <1>3, <1>5, NeedsClosed
  <1>7. \A j \in 1..Len(stack') : i < j => j = Len(stack) + 2
    BY <1>1, <1>5
  <1>8. Top'.op = "setup" /\ Top'.pc = "enter"
    BY AfterExec
  <1>9. QED
    BY <1>2, <1>6, <1>7, <1>8 DEF SetupBack

\* Clearing up keeps the code.
LEMMA CleanupLoad ==
    ASSUME TypeOK, TypeOK', LoaderInv, LoaderInv', CodeInv, CleanupSteps \/ LoadCleansUp,
           NEW i \in 1..Len(stack'), stack'[i].op = "exec", stack'[i].pc = "cleanup",
           NEW p, p = stack'[i].mod, Plain(p)
    PROVE  d7' = d7 /\ Explains(d7, p)
  <1>1. d7' = d7 /\ stack # <<>>
    BY DEF CleanupSteps, CleanupNothing, CleanupStarts, CleanupLib, CleanupFrees, FreeLinkinfo,
           LoadCleansUp, At
  <1>2. Len(stack) \in Nat \ {0} /\ Top = stack[Len(stack)] /\ Top \in Frame /\ Top.mod \in Modules
    BY <1>1, TopFrame DEF Frame
  <1>3. CASE CleanupSteps
    <2>1. Top.op # "exec"
      BY <1>3 DEF CleanupSteps, CleanupNothing, CleanupStarts, CleanupLib, CleanupFrees, At
    <2>2. i \in 1..Len(stack) /\ stack'[i] = stack[i]
      BY <1>3, <2>1, PhaseMoves, ExecBelow
    <2>3. QED
      BY <1>1, <2>2 DEF CodeInv, Reported
  <1>4. CASE LoadCleansUp
    <2>1. /\ Top.op = "exec" /\ Top.pc = "setup" /\ d7 # EXEC_OK
          /\ GoCall("cleanup", 0, "cleanup", Top.mod)
      BY <1>4 DEF LoadCleansUp, At
    <2>2. "cleanup" \in Places /\ "cleanup" \in Routines /\ 0 \in Nat
      BY DEF Places, Routines
    <2>3. /\ Len(stack') = Len(stack) + 1
          /\ \A j \in 1..(Len(stack) - 1) : stack'[j] = stack[j]
          /\ stack'[Len(stack)] = [op |-> Top.op, mod |-> Top.mod, pc |-> "cleanup", idx |-> 0]
          /\ stack'[Len(stack) + 1] = [op |-> "cleanup", mod |-> Top.mod, pc |-> "enter", idx |-> 0]
      BY <1>1, <1>2, <2>1, <2>2, GoCallStack
    <2>4. i # Len(stack) + 1
      BY <2>3
    <2>5. ~(i \in 1..(Len(stack) - 1))
      <3>1. SUFFICES ASSUME i \in 1..(Len(stack) - 1) PROVE FALSE
        OBVIOUS
      <3>2. stack[i].op = "exec" /\ stack[i].pc = "cleanup" /\ i \in 1..Len(stack) /\ i < Len(stack)
        BY <1>2, <2>3, <3>1
      <3>3. stack[i].pc \in {"run", Top.op}
        BY <3>2, ExecsWait DEF ExecsBelow
      <3>4. QED
        BY <2>1, <3>2, <3>3
    <2>6. i = Len(stack)
      BY <1>2, <2>3, <2>4, <2>5
    <2>7. p = Top.mod
      BY <2>3, <2>6
    <2>8. QED
      BY <1>1, <1>2, <2>1, <2>7 DEF CodeInv, Reported, SetupBack
  <1>5. QED
    BY <1>3, <1>4

\* So every step keeps it.
LEMMA NextCode ==
    ASSUME TypeOK, TypeOK', LoaderInv, LoaderInv', CodeInv, [Next]_vars
    PROVE  CodeInv'
  <1>1. files' = files
    BY FilesFixed
  <1>2. SetupNeeds'
    <2>1. SUFFICES ASSUME NEW i \in 1..Len(stack'), NEW j \in 1..Len(stack'), i < j,
                          stack'[i].op = "exec", stack'[i].pc = "setup",
                          NEW p, p = stack'[i].mod
                   PROVE  stack'[j].mod \in Needs(p)
      BY <1>1, SameFiles DEF SetupNeeds
    <2>2. CASE UNCHANGED <<files, stack, d7>>
      BY <2>1, <2>2 DEF CodeInv, SetupNeeds
    <2>3. CASE SetupSteps
      BY <2>1, <2>3, SetupLoad
    <2>4. CASE \E m \in Modules : ExecLoads(m)
      BY <2>1, <2>4, ExecLoad
    <2>5. QED
      BY <2>1, <2>2, <2>3, <2>4, LoadSteps
  <1>3. Reported'
    <2>1. SUFFICES ASSUME NEW i \in 1..Len(stack'), stack'[i].op = "exec",
                          NEW p, p = stack'[i].mod, Plain(p)
                   PROVE  /\ stack'[i].pc = "setup" /\ SetupBack' =>
                                d7' = EXEC_OK \/ Explains(d7', p)
                          /\ stack'[i].pc = "cleanup" => Explains(d7', p)
      <3>1. SUFFICES ASSUME NEW i \in 1..Len(stack'), stack'[i].op = "exec",
                            NEW p, p = stack'[i].mod, Plain(p)', NEW c, c = d7'
                     PROVE  /\ stack'[i].pc = "setup" /\ SetupBack' =>
                                  c = EXEC_OK \/ Explains(c, p)'
                            /\ stack'[i].pc = "cleanup" => Explains(c, p)'
        BY DEF Reported
      <3>2. Plain(p) /\ (Explains(c, p)' <=> Explains(c, p))
        BY <1>1, <3>1, SameFiles
      <3>3. QED
        BY <2>1, <3>1, <3>2
    <2>2. CASE UNCHANGED <<files, stack, d7>>
      BY <2>1, <2>2 DEF CodeInv, Reported, SetupBack, Top
    <2>3. ASSUME stack'[i].pc = "setup", SetupBack' PROVE d7' = EXEC_OK \/ Explains(d7', p)
      <3>1. CASE SetupSteps
        BY <2>1, <2>3, <3>1, SetupLoad
      <3>2. CASE \E m \in Modules : ExecLoads(m)
        BY <2>1, <2>3, <3>2, ExecLoad
      <3>3. QED
        BY <2>1, <2>2, <2>3, <3>1, <3>2, LoadSteps
    <2>4. ASSUME stack'[i].pc = "cleanup" PROVE Explains(d7', p)
      <3>1. CASE CleanupSteps \/ LoadCleansUp
        BY <2>1, <2>4, <3>1, CleanupLoad
      <3>2. QED
        BY <2>1, <2>2, <2>4, <3>1, LoadSteps
    <2>5. QED
      BY <2>3, <2>4
  <1>4. QED
    BY <1>2, <1>3, NextCodeSet DEF CodeInv

\* At first there is no exec call.
LEMMA InitCode == Init => CodeInv
  <1>1. SUFFICES ASSUME Init PROVE CodeInv
    OBVIOUS
  <1>2. stack = <<>> /\ Len(stack) = 0
    BY <1>1, EmptySeq DEF Init
  <1>3. QED
    BY <1>2 DEF CodeInv, SetupNeeds, CodeSet, Reported

(***************************************************************************)
(* exec returns an error only for its reason: a library that is missing,   *)
(* one with fewer exports than are wanted, a file that is no module of     *)
(* this kernel, each of a module the program needs, or no memory.          *)
(***************************************************************************)
THEOREM FailureExplainedAlways == Spec => FailureExplained
  <1>1. TypeOK /\ CodeInv =>
            (ExecFails /\ (\A n \in Needs(Top.mod) : ~files[n].reserved) => Explains(d0', Top.mod))
    <2>1. SUFFICES ASSUME TypeOK, CodeInv, ExecFails, Plain(Top.mod)
                   PROVE  Explains(d0', Top.mod)
      BY DEF Plain
    <2>2. stack # <<>> /\ Top.op = "exec" /\ Top.pc = "cleanup" /\ d0' = d7
      BY <2>1 DEF ExecFails, At
    <2>3. Top = stack[Len(stack)] /\ Len(stack) \in 1..Len(stack)
      BY <2>1, <2>2, TopFrame
    <2>4. /\ stack[Len(stack)].op = "exec" /\ stack[Len(stack)].pc = "cleanup"
          /\ Plain(stack[Len(stack)].mod)
      <3>1. stack[Len(stack)] = Top
        BY <2>3
      <3>2. QED
        BY <2>1, <2>2, <3>1
    <2>5. Explains(d7, stack[Len(stack)].mod)
      BY <2>1, <2>3, <2>4 DEF CodeInv, Reported
    <2>6. Explains(d7, Top.mod)
      BY <2>3, <2>5
    <2>7. QED
      BY <2>2, <2>6
  <1>2. TypeOK /\ TypeOK' /\ LoaderInv /\ LoaderInv' /\ CodeInv /\ [Next]_vars => CodeInv'
    BY NextCode
  <1>3. QED
    BY <1>1, <1>2, InitCode, LoaderInvAlways, PTL DEF Spec, FailureExplained
=============================================================================
