-------------------------- MODULE A68kLinkProofs --------------------------
(***************************************************************************)
(* However the object files are read, and whatever they hold, a linked     *)
(* program's references by name have one target each.                      *)
(***************************************************************************)
EXTENDS A68kLink, TLAPS

OneDefinition == \A d, e \in XDefs : d.name = e.name => d = e

\* what ResolveReloc found still holds when the link is done
Resolved == stage = "linked" => fixups = AllFixups /\ ~IllegalRefs

Inv == OneDefinition /\ Resolved

LEMMA InitInv == LinkInit => Inv
  BY DEF LinkInit, Inv, OneDefinition, Resolved

\* a name already defined, or twice in one hunk, is not entered
LEMMA ReadExtDefines ==
  ASSUME OneDefinition, ReadExt
  PROVE  OneDefinition'
<1> DEFINE old == Redefined(Hunk.defs)
           new == {Defines(d) : d \in Hunk.defs \ old}
<1>1. XDefs' = XDefs \cup new
  BY DEF ReadExt
<1>2. \A d \in Hunk.defs \ old : Defines(d).name = d.name
  BY DEF Defines
<1>3. \A d, e \in new : d.name = e.name => d = e
  BY <1>2 DEF Redefined
<1>4. \A d \in XDefs, e \in new : d.name # e.name
  BY <1>2 DEF Redefined
<1> QED
  BY <1>1, <1>3, <1>4 DEF OneDefinition

\* while the link is not done nothing is claimed of the fixups
LEMMA ReadingResolved ==
  ASSUME stage' # "linked"
  PROVE  Resolved'
  BY DEF Resolved

LEMMA UnchangedInv ==
  ASSUME Inv, UNCHANGED <<stage, Sections, XDefs, fixups>>
  PROVE  Inv'
<1>1. OneDefinition'
  BY DEF Inv, OneDefinition
<1>2. AllFixups' = AllFixups
  BY DEF AllFixups, RelFixups, XRefFixups, Numbered, InUnit, Ordinal, Definition
<1>3. IllegalRefs' = IllegalRefs
  BY DEF IllegalRefs, Definition
<1>4. Resolved'
  BY <1>2, <1>3 DEF Inv, Resolved
<1> QED
  BY <1>1, <1>4 DEF Inv

LEMMA StepInv == Inv /\ [Next]_<<vars, reader>> => Inv'
<1> SUFFICES ASSUME Inv, [Next]_<<vars, reader>>
             PROVE  Inv'
  OBVIOUS
<1>1. CASE Assemble /\ UNCHANGED reader
  BY <1>1, UnchangedInv DEF reader
<1>2. CASE OpenFirst
  <2>1. stage' # "linked" /\ UNCHANGED XDefs
    BY <1>2 DEF OpenFirst
  <2> QED
    BY <2>1, ReadingResolved DEF Inv, OneDefinition
<1>3. CASE ReadMisplaced
  <2>1. stage' # "linked" /\ UNCHANGED XDefs
    BY <1>3 DEF ReadMisplaced
  <2> QED
    BY <2>1, ReadingResolved DEF Inv, OneDefinition
<1>4. CASE ReadUnit \/ ReadName \/ ReadData \/ ReadReloc \/ ReadSymbol \/ ReadEnd
  <2>1. stage' # "linked" /\ UNCHANGED XDefs
    BY <1>4 DEF ReadUnit, ReadName, ReadData, ReadReloc, ReadSymbol, ReadEnd, Reading, Skip
  <2> QED
    BY <2>1, ReadingResolved DEF Inv, OneDefinition
<1>5. CASE ReadExt
  <2>1. stage' # "linked"
    BY <1>5 DEF ReadExt, Reading, Skip
  <2> QED
    BY <1>5, <2>1, ReadingResolved, ReadExtDefines DEF Inv
<1>6. CASE EndOfFile
  <2>1. stage' # "linked" /\ UNCHANGED XDefs
    BY <1>6 DEF EndOfFile
  <2> QED
    BY <2>1, ReadingResolved DEF Inv, OneDefinition
<1>7. CASE ResolveReloc
  <2>1. OneDefinition'
    BY <1>7 DEF ResolveReloc, Inv, OneDefinition
  <2>2. UNCHANGED <<Sections, XDefs>> /\ fixups' = AllFixups
        /\ (stage' = "linked" => ~IllegalRefs)
    BY <1>7 DEF ResolveReloc
  <2>3. AllFixups' = AllFixups
    BY <2>2 DEF AllFixups, RelFixups, XRefFixups, Numbered, InUnit, Ordinal, Definition
  <2>4. IllegalRefs' = IllegalRefs
    BY <2>2 DEF IllegalRefs, Definition
  <2> QED
    BY <2>1, <2>2, <2>3, <2>4 DEF Inv, Resolved
<1>8. CASE Finished
  BY <1>8, UnchangedInv DEF Finished, reader
<1>9. CASE UNCHANGED <<vars, reader>>
  BY <1>9, UnchangedInv DEF reader
<1> QED
  BY <1>1, <1>2, <1>3, <1>4, <1>5, <1>6, <1>7, <1>8, <1>9 DEF Next, Link

LEMMA FixupsByName ==
  ASSUME NEW f \in AllFixups, f.name # NoName, ~IllegalRefs, OneDefinition
  PROVE  \/ Definition(f.name) = {} /\ f.name \in ImportNames
         \/ \E d \in XDefs : /\ Definition(f.name) = {d}
                             /\ f.to = d.sect /\ f.add = d.off
<1>1. PICK i \in DOMAIN Sections : f \in RelFixups(i) \cup XRefFixups(i)
  BY DEF AllFixups
<1>2. f \in XRefFixups(i)
  BY <1>1 DEF RelFixups
<1>3. PICK x \in Sections[i].XRefs : \E o \in x.offs :
         \E d \in IF Definition(x.name) = {} THEN {[sect |-> 0, off |-> 0]}
                  ELSE Definition(x.name) :
            f = [sect |-> i, off |-> o, to |-> IF Definition(x.name) = {} THEN 0 ELSE d.sect,
                 name |-> x.name, add |-> IF Definition(x.name) = {} THEN 0 ELSE d.off]
  BY <1>2 DEF XRefFixups
<1>4. f.name = x.name
  BY <1>3
<1>5. CASE Definition(x.name) = {}
  BY <1>1, <1>3, <1>4, <1>5 DEF IllegalRefs
<1>6. CASE Definition(x.name) # {}
  <2>1. PICK d \in Definition(x.name) : f.to = d.sect /\ f.add = d.off
    BY <1>3, <1>6
  <2>2. d \in XDefs /\ d.name = x.name
    BY <2>1 DEF Definition
  <2>3. Definition(x.name) = {d}
    BY <2>2 DEF Definition, OneDefinition
  <2> QED
    BY <1>4, <2>1, <2>2, <2>3
<1> QED
  BY <1>5, <1>6

\* A reference by name has one target, or is imported, in every linked program
\* (flinkerA68k.cc:272-282, flinkerObj.cc:140-151).
THEOREM LinkedOnce == Spec => []NamesResolveOnce
<1>1. Inv => NamesResolveOnce
  BY FixupsByName DEF Inv, Resolved, NamesResolveOnce
<1> QED
  BY <1>1, InitInv, StepInv, PTL DEF Spec
=============================================================================
