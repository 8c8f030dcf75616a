---------------------------- MODULE LoadContract ----------------------------
(***************************************************************************)
(* What the kernel promises a program about loading, with nothing of how:  *)
(* executing a program brings it and every module it needs into memory,    *)
(* ready to be called, in one step; when it ends, whatever no other active *)
(* program needs is gone, in one step; and an attempt that fails is no     *)
(* step at all.                                                            *)
(***************************************************************************)
EXTENDS Naturals

CONSTANT Modules

VARIABLES
    needs,    \* needs[m]: the modules m depends on, itself included
    active,   \* active[m]: executions of m that have not ended
    ready     \* the modules in memory, relocated

vars == <<needs, active, ready>>

NeededBy(use) == UNION {needs[m] : m \in {k \in Modules : use[k] > 0}}

Init ==
    /\ needs \in [Modules -> SUBSET Modules]
    /\ active = [m \in Modules |-> 0]
    /\ ready = {}

Start(m) ==
    /\ active' = [active EXCEPT ![m] = @ + 1]
    /\ ready' = ready \cup needs[m]
    /\ UNCHANGED needs

End(m) ==
    /\ active[m] > 0
    /\ active' = [active EXCEPT ![m] = @ - 1]
    /\ ready' = NeededBy(active')
    /\ UNCHANGED needs

Next == \E m \in Modules : Start(m) \/ End(m)

Spec == Init /\ [][Next]_vars
=============================================================================
