---------------------------- MODULE MCFlinker92P ----------------------------
(***************************************************************************)
(* Object files with up to five sections and a few references out of two   *)
(* code sections, each to anything a reference can name.                   *)
(***************************************************************************)
EXTENDS Flinker92P, TLC

CONSTANTS main, tail, buf, fork, missing, lib, tios

Plain(s)     == [lib |-> NoLib, sym |-> s]
Defined      == {Plain(main), Plain(tail), Plain(buf), Plain(fork)}
LibNames     == {[lib |-> lib, sym |-> s] : s \in {0, 127, 128, 300}}
TiosNames    == {[lib |-> tios, sym |-> s] : s \in {6, 134, 8190}}
MCNames      == Defined \cup {Plain(missing)} \cup LibNames \cup TiosNames

MCProgramAt  == 1000000
MCBssAt      == 2000000
MCExportAt   == [n \in LibNames \cup TiosNames |->
                    (IF n.lib = lib THEN 3000000 ELSE 4000000) + n.sym]
MCLongMod    == 16777216

\* close behind the sections of a small file and of those of Limits, at both
\* sides of 32K and of 64K
MCTablePlaces == {60, 63, 64, 32700, 32704, 32766, 32768, 65528, 65530, 65531, 65532,
                  65540, 65542, 65543, 65544}

Sized(type, size) == [type |-> type, size |-> size]
Code == Sized("code", 4)

Xref(s, os, n, a) == [section |-> s, offsets |-> os, kind |-> "xref", name |-> n, to |-> 0,
                      type |-> "relref32", addend |-> a]
Rel(s, os, t, a)  == [section |-> s, offsets |-> os, kind |-> "reltab", name |-> Plain(missing),
                      to |-> t, type |-> "relref32", addend |-> a]
Short(r) == [r EXCEPT !.type = "other"]

\* two units: code, bss and the TI-BASIC fork; data, and a bss after it
Sections == <<Code, Sized("bss", 2), Sized("tibasic", 4), Code, Sized("bss", 3)>>

Defs == (Plain(main) :> [section |-> 1, offset |-> 4])
     @@ (Plain(buf)  :> [section |-> 5, offset |-> 0])
     @@ (Plain(tail) :> [section |-> 4, offset |-> 12])
     @@ (Plain(fork) :> [section |-> 3, offset |-> 2])

\* every reference a slot (a section and offsets in it) can hold
Slot(s, os, a) ==
    {Xref(s, os, n, a) : n \in MCNames}
      \cup {Rel(s, os, t, a) : t \in DOMAIN Sections}

\* no two references import the same symbol
Imported(r) == r.kind = "xref" /\ r.name.lib # NoLib
Apart(rs)   == \A i, j \in DOMAIN rs : i < j =>
                   ~(Imported(rs[i]) /\ Imported(rs[j]) /\ rs[i].name = rs[j].name)

File(sections, refs) ==
    [sections |-> sections, defs |-> Defs, refs |-> refs]

Good == {File(Sections, <<r1, r2, r3>>) :
            r1 \in Slot(1, {0}, 0), r2 \in Slot(4, {0, 6}, 2), r3 \in {Xref(1, {8}, n, 3) : n \in MCNames \ Defined}}

\* operand sizes, sections that cannot have references, negative addends,
\* an empty list of offsets, no references at all
Odd == {File(Sections, <<r, Xref(4, {4}, Plain(main), 0)>>) :
          r \in {Short(x) : x \in Slot(1, {0}, 0)} \cup Slot(2, {0}, 0) \cup Slot(3, {4}, 0)
                \cup Slot(1, {0}, MCLongMod - 4) \cup Slot(4, {}, 0)}
       \cup {File(Sections, <<>>)}

\* sizes at and over the limits, but no bss of exactly 64K: its size is written
\* as zero, and its references are not relocated
Limits == {File(<<Code, Sized("bss", b), Sized("tibasic", 2), Sized("code", c), Sized("bss", 1)>>,
               <<Xref(4, {4 * c - 4}, Plain(tail), 0), Xref(1, {0}, Plain(buf), 0)>>) :
            b \in {16382, 16384}, c \in {8164, 16370, 16371, 16373, 16374, 16400}}
         \cup {File(<<Code, Sized("tibasic", 2), Sized("tibasic", 2), Code, Code>>, <<>>)}

MCFiles == {f \in Good : Apart(f.refs)} \cup Odd \cup Limits

TwiceFiles == {f \in Good : ~Apart(f.refs)}
=============================================================================
