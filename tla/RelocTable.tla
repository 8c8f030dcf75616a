----------------------------- MODULE RelocTable -----------------------------
(***************************************************************************)
(* The compressed relocation table of a Fargo II file.  The linker writes  *)
(* it (DumpReloc and DoNibbles, bin/flinker92p.cc), the kernel reads it    *)
(* when it relocates and unrelocates a module (do_reloc) and skips it when *)
(* it checks a library's version (check_imports, asm/kernel/kernel.asm).   *)
(*                                                                         *)
(* One behaviour writes one table, an iteration of a loop at a time, and   *)
(* reads it back.  The linker dumps everything twice, first without Data   *)
(* to learn the size; both passes run here together, Offset being what the *)
(* first has counted.                                                      *)
(***************************************************************************)
EXTENDS Integers, Sequences, SequencesExt

CONSTANT Relocs     \* the sets of addresses a file may have to relocate

FIRST    == 24      \* where both sides start: the offset of the flags
POINTER  == 4       \* an address that is relocated is a longword
NIBBLE   == 16      \* distances below take a nibble, or a byte
BYTE     == 127     \* distances below take a byte
EXTENDED == 16383   \* distances above do not fit a word

ASSUME RelocsAssumption == \A R \in Relocs : R \subseteq Nat

\* a file is smaller than 64K; the 68000 has its longwords at even addresses;
\* operands do not overlap
ASSUME LayoutAssumption ==
    \A R \in Relocs :
        /\ \A a \in R : FIRST <= a /\ a <= 65532 /\ a % 2 = 0
        /\ \A a, b \in R : a < b => a + POINTER <= b

VARIABLES
    reloc,      \* the list of addresses, a set
    pc,
    Data,       \* the bytes written
    nibbles,    \* bytes at the end of Data that may still become nibbles
    Offset,     \* where pass 1 is
    last,
    current,    \* the address DumpReloc is at, 0 before the first
    diff,       \* the distance to it, in words
    a2,         \* the number of bytes do_reloc has read
    a6,         \* the address do_reloc is at
    pairs,      \* d0: pairs of nibbles still to read
    relocated   \* the addresses do_reloc has changed, in order

writer == <<Data, nibbles, Offset, last, current, diff>>
reader == <<a2, a6, pairs, relocated>>
vars   == <<reloc, pc, Data, nibbles, Offset, last, current, diff,
            a2, a6, pairs, relocated>>

Init ==
    /\ reloc \in Relocs
    /\ pc = "next"
    /\ Data = <<>> /\ nibbles = <<>> /\ Offset = 0
    /\ last = FIRST /\ current = 0 /\ diff = 0
    /\ a2 = 0 /\ a6 = FIRST /\ pairs = 0 /\ relocated = <<>>

-----------------------------------------------------------------------------
(* DumpReloc *)

\* ListSortIter looks for the least element above the one it gave last
Above == {a \in reloc : a > current}

NextReloc ==
    /\ pc = "next"
    /\ Above # {}
    /\ current' = CHOOSE a \in Above : \A b \in Above : a <= b
    /\ diff' = (current' - last) \div 2
    /\ pc' = "diff"
    /\ UNCHANGED <<reloc, Data, nibbles, Offset, last, reader>>

Dumped ==
    /\ last' = (current + POINTER) % 65536
    /\ pc' = "next"

DumpNibble ==
    /\ pc = "diff"
    /\ diff < NIBBLE
    /\ nibbles' = Append(nibbles, diff + 1)
    /\ Offset' = Offset + 1
    /\ Dumped
    /\ UNCHANGED <<reloc, Data, current, diff, reader>>

\* DoNibbles is called, with nothing to do if no nibbles were collected
DoNibbles ==
    /\ \/ pc = "diff" /\ diff >= NIBBLE /\ pc' = "wide"
       \/ pc = "next" /\ Above = {} /\ pc' = "end"
    /\ Offset' = Offset - Len(nibbles)
    /\ UNCHANGED <<reloc, Data, nibbles, last, current, diff, reader>>

Packing == pc \in {"wide", "end"} /\ nibbles # <<>>

\* a nibble and n pairs of nibbles take 1 + n bytes
Group(n) == [i \in 1..(n + 1) |->
                IF i = 1 THEN (8 + n - 1) * 16 + nibbles[1] - 1
                ELSE (nibbles[2 * i - 2] - 1) * 16 + nibbles[2 * i - 1] - 1]

Pairs == LET n == (Len(nibbles) - 1) \div 2 IN IF n > 4 THEN 4 ELSE n

\* variant: pass 1 forgets the byte of the header
PackUncounted ==
    /\ Packing
    /\ Len(nibbles) >= 3
    /\ Data' = Data \o Group(Pairs)
    /\ nibbles' = SubSeq(nibbles, 2 * Pairs + 2, Len(nibbles))
    /\ Offset' = Offset + Pairs
    /\ UNCHANGED <<reloc, pc, last, current, diff, reader>>

PackGroup ==
    /\ Packing
    /\ Len(nibbles) >= 3
    /\ Data' = Data \o Group(Pairs)
    /\ nibbles' = SubSeq(nibbles, 2 * Pairs + 2, Len(nibbles))
    /\ Offset' = Offset + 1 + Pairs
    /\ UNCHANGED <<reloc, pc, last, current, diff, reader>>

\* variant: what does not fill a group is not written
PackLosesRest ==
    /\ Packing
    /\ Len(nibbles) < 3
    /\ nibbles' = <<>>
    /\ UNCHANGED <<reloc, pc, Data, Offset, last, current, diff, reader>>

PackRest ==
    /\ Packing
    /\ Len(nibbles) < 3
    /\ Data' = Data \o nibbles
    /\ nibbles' = <<>>
    /\ Offset' = Offset + Len(nibbles)
    /\ UNCHANGED <<reloc, pc, last, current, diff, reader>>

Writes(bytes) ==
    /\ pc = "wide" /\ nibbles = <<>>
    /\ Data' = Data \o bytes
    /\ Offset' = Offset + Len(bytes)
    /\ UNCHANGED <<reloc, nibbles, current, reader>>

\* variant: a distance that no longer fits is written as a byte
DumpLongByte ==
    /\ diff <= BYTE
    /\ Writes(<<diff + 1>>)
    /\ Dumped
    /\ UNCHANGED diff

DumpByte ==
    /\ diff < BYTE
    /\ Writes(<<diff + 1>>)
    /\ Dumped
    /\ UNCHANGED diff

DumpExtension ==
    /\ diff >= BYTE
    /\ diff - BYTE > EXTENDED
    /\ Writes(<<255, 255>>)
    /\ diff' = diff - BYTE - EXTENDED
    /\ pc' = "diff"
    /\ UNCHANGED last

DumpWord ==
    /\ diff >= BYTE
    /\ diff - BYTE <= EXTENDED
    /\ LET word == 49152 + diff - BYTE
       IN  Writes(<<word \div 256, word % 256>>)
    /\ diff' = diff - BYTE
    /\ Dumped

DumpEnd ==
    /\ pc = "end" /\ nibbles = <<>>
    /\ Data' = Append(Data, 0)
    /\ Offset' = Offset + 1
    /\ pc' = "load"
    /\ UNCHANGED <<reloc, nibbles, last, current, diff, reader>>

-----------------------------------------------------------------------------
(* do_reloc *)

Byte(i) == Data[a2 + i]

\* add.l d1,(a6)+ after moving by each of the distances, given in words
Relocates(distances) ==
    LET at(i) == a6 + 2 * distances[i]
                    + (IF i = 1 THEN 0 ELSE 2 * distances[1] + POINTER)
    IN  /\ relocated' = relocated \o [i \in DOMAIN distances |-> at(i)]
        /\ a6' = at(Len(distances)) + POINTER

RelocByte ==
    /\ pc = "load"
    /\ Byte(1) \in 1..127
    /\ Relocates(<<Byte(1) - 1>>)
    /\ a2' = a2 + 1
    /\ UNCHANGED <<reloc, pc, writer, pairs>>

RelocWord ==
    /\ pc = "load"
    /\ Byte(1) >= 192
    /\ LET d0 == (Byte(1) % 64) * 256 + Byte(2)
       IN  IF d0 = EXTENDED
           THEN a6' = a6 + 2 * (d0 + BYTE) /\ UNCHANGED relocated
           ELSE Relocates(<<d0 + BYTE>>)
    /\ a2' = a2 + 2
    /\ UNCHANGED <<reloc, pc, writer, pairs>>

\* variant: bit 7 is not masked out of the number of pairs
RelocNibblesUnmasked ==
    /\ pc = "load"
    /\ Byte(1) \in 128..191
    /\ Relocates(<<Byte(1) % 16>>)
    /\ pairs' = Byte(1) \div 16 + 1
    /\ pc' = "pairs"
    /\ a2' = a2 + 1
    /\ UNCHANGED <<reloc, writer>>

RelocNibbles ==
    /\ pc = "load"
    /\ Byte(1) \in 128..191
    /\ Relocates(<<Byte(1) % 16>>)
    /\ pairs' = ((Byte(1) \div 16) % 8) + 1
    /\ pc' = "pairs"
    /\ a2' = a2 + 1
    /\ UNCHANGED <<reloc, writer>>

RelocPair ==
    /\ pc = "pairs"
    /\ Relocates(<<Byte(1) \div 16, Byte(1) % 16>>)
    /\ pairs' = pairs - 1
    /\ pc' = IF pairs = 1 THEN "load" ELSE "pairs"
    /\ a2' = a2 + 1
    /\ UNCHANGED <<reloc, writer>>

RelocEnd ==
    /\ pc = "load"
    /\ Byte(1) = 0
    /\ pc' = "done"
    /\ a2' = a2 + 1
    /\ UNCHANGED <<reloc, writer, a6, pairs, relocated>>

\* check_imports: the bytes an entry takes, from its first byte
\* variant: the first byte of a group of nibbles is not counted
EntryShort(b) ==
    CASE b \in 1..127   -> 1
      [] b \in 128..191 -> 1 + ((b \div 16) % 8)
      [] b >= 192       -> 2

Entry(b) ==
    CASE b \in 1..127   -> 1
      [] b \in 128..191 -> 2 + ((b \div 16) % 8)
      [] b >= 192       -> 2

\* the place where it stops, from the i-th byte on; no table goes on past Data
SkipFrom[i \in Nat \ {0}] ==
    IF i > Len(Data) \/ Data[i] = 0 THEN i ELSE SkipFrom[i + Entry(Data[i])]

-----------------------------------------------------------------------------
Done == pc = "done" /\ UNCHANGED vars

Next == \/ NextReloc \/ DumpNibble \/ DoNibbles \/ PackGroup \/ PackRest
        \/ DumpByte \/ DumpExtension \/ DumpWord \/ DumpEnd
        \/ RelocByte \/ RelocWord \/ RelocNibbles \/ RelocPair \/ RelocEnd
        \/ Done

Spec == Init /\ [][Next]_vars

-----------------------------------------------------------------------------
(* Properties *)

TOP    == 65532     \* the last address of a longword
UWORD  == 65535     \* the greatest unsigned word,
SWORD  == 32767     \* and signed

TypeOK ==
    /\ reloc \subseteq FIRST..TOP
    /\ pc \in {"next", "diff", "wide", "end", "load", "pairs", "done"}
    /\ Data \in Seq(0..255)
    /\ nibbles \in Seq(1..NIBBLE)
    /\ Offset \in Nat
    /\ last \in 0..UWORD /\ current \in 0..UWORD /\ diff \in 0..SWORD
    /\ a2 \in 0..Len(Data) /\ a6 \in Nat /\ pairs \in 0..4
    /\ relocated \in Seq(Nat)

(***************************************************************************)
(* The kernel changes no longword but those the linker listed, and each at *)
(* most once, at every moment of reading a table (do_reloc).               *)
(***************************************************************************)
OnlyListedRelocated ==
    \A i \in DOMAIN relocated :
        /\ relocated[i] \in reloc
        /\ i > 1 => relocated[i - 1] < relocated[i]

(***************************************************************************)
(* Fargo.txt, 2.1: programs are relocated before they are executed.  When  *)
(* do_reloc has read the table, every address the linker listed has been   *)
(* relocated.                                                              *)
(***************************************************************************)
AllListedRelocated == pc = "done" => reloc \subseteq ToSet(relocated)

(***************************************************************************)
(* The two passes of the linker agree on the size of the table: what pass  *)
(* 1 reserves (and checks against 64K) is what pass 2 writes.              *)
(***************************************************************************)
PassesAgree ==
    Offset = Len(Data) + (IF pc \in {"next", "diff"} THEN Len(nibbles) ELSE 0)

(***************************************************************************)
(* The loop in check_imports that skips a table stops where do_reloc does, *)
(* so both find the next symbol of the import table at the same place.     *)
(***************************************************************************)
SkipStopsThere == pc = "done" => SkipFrom[1] = a2
=============================================================================
