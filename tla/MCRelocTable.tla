---------------------------- MODULE MCRelocTable ----------------------------
(***************************************************************************)
(* Lists of addresses given by their distances: runs of small distances of *)
(* every length up to a bound, so that nibbles are packed in every way,    *)
(* around one distance at or near a limit of the format.                   *)
(***************************************************************************)
EXTENDS RelocTable, TLC

CONSTANTS MaxBefore, MaxAfter

Limits == {15, 16, 126, 127, 128, 255, 16509, 16511, 16526, 32000}
LostAt == {16510}

\* the i-th small distance: all nibbles occur, neighbours differ
Small(i) == (5 * i) % NIBBLE

\* the addresses with these distances in between
Addresses(ds) ==
    LET at[k \in DOMAIN ds] ==
            2 * ds[k] + (IF k = 1 THEN FIRST ELSE at[k - 1] + POINTER)
    IN  {at[k] : k \in DOMAIN ds}

Lists(limits) ==
    {Addresses([i \in 1..m |-> Small(i)] \o <<d>> \o [i \in 1..n |-> Small(m + i)]) :
        m \in 0..MaxBefore, d \in limits, n \in 0..MaxAfter}

MCRelocs     == {{}} \cup Lists(Limits)
MCLostRelocs == Lists(LostAt)
=============================================================================
