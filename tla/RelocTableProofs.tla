-------------------------- MODULE RelocTableProofs --------------------------
(***************************************************************************)
(* Proofs about RelocTable, for every set of relocation lists: the two     *)
(* passes of the linker count the same bytes, the loop that skips a table  *)
(* stops where do_reloc does, and do_reloc changes the longwords that the  *)
(* linker listed, all of them and no others, unless a distance is the one  *)
(* that has no code (GapFree).                                             *)
(*                                                                         *)
(* The writer's invariant, Written, says that there is a path of read      *)
(* steps through the bytes written, and that the nibbles collected lead    *)
(* from its end to Here.  The reader's says that do_reloc is at a mark of  *)
(* such a path, which ends at the byte 0.                                  *)
(***************************************************************************)
EXTENDS RelocTable, SequenceTheorems, WellFoundedInduction, TLAPS

-----------------------------------------------------------------------------
(* ListSortIter gives an address: the least one exists. *)
LEMMA LeastExists ==
    ASSUME NEW S, S \subseteq Nat, S # {}
    PROVE  \E a \in S : \A b \in S : a <= b
  <1> DEFINE R == {ss \in Nat \X Nat : ss[1] < ss[2]}
  <1>1. IsWellFoundedOn(R, Nat)
    BY NatLessThanWellFounded DEF OpToRel
  <1> HIDE DEF R
  <1>2. PICK a \in S : \A b \in S : <<b, a>> \notin R
    BY <1>1, WFMin
  <1>3. ASSUME NEW b \in S, ~ (a <= b)
        PROVE  FALSE
    <2>1. a \in Nat /\ b \in Nat /\ b < a
      BY <1>3
    <2>2. <<b, a>> \in R
      BY <2>1 DEF R
    <2>3. QED
      BY <1>2, <2>2
  <1>4. QED
    BY <1>3

(* What DoNibbles writes for a group, and how many nibbles it takes. *)
LEMMA GroupLength ==
    ASSUME nibbles \in Seq(Int), Len(nibbles) >= 3
    PROVE  /\ Pairs \in 1..4
           /\ 2 * Pairs + 1 <= Len(nibbles)
           /\ Group(Pairs) \in Seq(Int)
           /\ Len(Group(Pairs)) = Pairs + 1
  <1>1. Len(nibbles) \in Nat
    BY LenProperties
  <1>2. Pairs \in 1..4 /\ 2 * Pairs + 1 <= Len(nibbles)
    BY <1>1 DEF Pairs
  <1> DEFINE n == Pairs
  <1> HIDE DEF n
  <1>3. n \in 1..4 /\ 2 * n + 1 <= Len(nibbles)
    BY <1>2 DEF n
  <1>4. \A i \in 1..Len(nibbles) : nibbles[i] \in Int
    BY ElementOfSeq
  <1>5. ASSUME NEW i \in 1..(n + 1)
        PROVE  Group(n)[i] \in Int
    <2>1. CASE i = 1
      BY <2>1, <1>1, <1>3, <1>4, <1>5 DEF Group
    <2>2. CASE i # 1
      <3>1. 2 * i - 2 \in 1..Len(nibbles) /\ 2 * i - 1 \in 1..Len(nibbles)
        BY <2>2, <1>1, <1>3, <1>5
      <3>2. nibbles[2 * i - 2] \in Int /\ nibbles[2 * i - 1] \in Int
        BY <3>1, <1>4
      <3>3. Group(n)[i] = (nibbles[2 * i - 2] - 1) * 16 + nibbles[2 * i - 1] - 1
        BY <2>2, <1>5 DEF Group
      <3>4. \A x, y \in Int : (x - 1) * 16 + y - 1 \in Int
        OBVIOUS
      <3>5. QED
        BY <3>2, <3>3, <3>4
    <2>3. QED
      BY <2>1, <2>2
  <1>6. n + 1 \in Nat /\ Group(n) = [i \in 1..(n + 1) |-> Group(n)[i]]
    BY <1>3 DEF Group
  <1>7. Group(n) \in [1..(n + 1) -> Int]
    BY <1>5, <1>6
  <1>8. Group(n) \in Seq(Int) /\ Len(Group(n)) = n + 1
    <2>1. Group(n) \in Seq(Int)
      <3>1. [1..(n + 1) -> Int] \in {[1..m -> Int] : m \in Nat}
        BY <1>6
      <3>2. Seq(Int) = UNION {[1..m -> Int] : m \in Nat}
        BY SeqDef
      <3>3. QED
        BY <1>7, <3>1, <3>2, Zenon
    <2>2. Len(Group(n)) \in Nat /\ 1..Len(Group(n)) = 1..(n + 1)
      BY <1>7, <2>1, LenProperties
    <2>3. QED
      BY <1>6, <2>1, <2>2
  <1>9. QED
    BY <1>2, <1>8 DEF n

-----------------------------------------------------------------------------
(* The inductive invariant: the writer's state has its types, and Offset    *)
(* counts the bytes written and, unless DoNibbles is at work, the nibbles   *)
(* collected.                                                               *)
WriterTyped ==
    /\ reloc \subseteq Nat
    /\ Data \in Seq(Int) /\ nibbles \in Seq(Int)
    /\ Offset \in Int
    /\ last \in Int /\ current \in Nat /\ diff \in Int

\* The writer's part of the inductive invariant for the passes.
WriterInv == WriterTyped /\ PassesAgree

\* Both passes start at nothing.
LEMMA InitWriter == Init => WriterInv
  <1> SUFFICES ASSUME Init PROVE WriterInv
    OBVIOUS
  <1>1. reloc \subseteq Nat
    <2>1. reloc \in Relocs
      BY DEF Init
    <2>2. QED
      BY <2>1, RelocsAssumption
  <1>2. <<>> \in Seq(Int) /\ Len(<<>>) = 0
    BY EmptySeq
  <1>3. QED
    BY <1>1, <1>2 DEF Init, WriterInv, WriterTyped, PassesAgree, FIRST

(* The reader leaves the writer's variables alone and does not go back to   *)
(* writing.                                                                 *)
LEMMA ReaderKeeps ==
    ASSUME WriterInv, reloc' = reloc, writer' = writer,
           pc \notin {"next", "diff"}, pc' \notin {"next", "diff"}
    PROVE  WriterInv'
  BY DEF WriterInv, WriterTyped, PassesAgree, writer

(* Bytes written after the nibbles are packed are counted. *)
LEMMA WritesKeeps ==
    ASSUME NEW bytes \in Seq(Int), WriterInv, Writes(bytes),
           last' \in Int, diff' \in Int, pc' \in {"next", "diff"}
    PROVE  WriterInv'
  <1>1. /\ Data \o bytes \in Seq(Int)
        /\ Len(Data \o bytes) = Len(Data) + Len(bytes)
    BY ConcatProperties DEF WriterInv, WriterTyped
  <1>2. Len(Data) \in Nat /\ Len(bytes) \in Nat /\ Len(<<>>) = 0
    BY LenProperties, EmptySeq DEF WriterInv, WriterTyped
  <1>3. WriterTyped'
    BY <1>1, <1>2 DEF WriterInv, WriterTyped, Writes
  <1>4. PassesAgree'
    BY <1>1, <1>2 DEF WriterInv, PassesAgree, Writes
  <1>5. QED
    BY <1>3, <1>4 DEF WriterInv

\* Each step of the writer counts what it writes; the reader counts nothing.
LEMMA StepWriter == WriterInv /\ [Next]_vars => WriterInv'
  <1> SUFFICES ASSUME WriterInv, [Next]_vars PROVE WriterInv'
    OBVIOUS
  <1> USE DEF WriterInv, WriterTyped
  <1>a. Len(Data) \in Nat /\ Len(nibbles) \in Nat
    BY LenProperties
  <1>1. CASE NextReloc
    <2>1. Above \subseteq Nat /\ Above # {}
      BY <1>1 DEF NextReloc, Above
    <2>2. current' \in Above
      BY <1>1, <2>1, LeastExists DEF NextReloc
    <2>3. current' \in Nat /\ diff' \in Int
      <3>1. current' \in Nat /\ last \in Int
        BY <2>1, <2>2
      <3>2. \A x, y \in Int : (x - y) \div 2 \in Int
        OBVIOUS
      <3>3. diff' = (current' - last) \div 2
        BY <1>1 DEF NextReloc
      <3>4. QED
        BY <3>1, <3>2, <3>3
    <2>4. QED
      BY <1>1, <2>3 DEF NextReloc, PassesAgree
  <1>2. CASE DumpNibble
    <2>1. /\ nibbles' \in Seq(Int)
          /\ Len(nibbles') = Len(nibbles) + 1
      BY <1>2, AppendProperties DEF DumpNibble
    <2>2. last' \in Int
      BY <1>2 DEF DumpNibble, Dumped, POINTER
    <2>3. QED
      BY <1>2, <1>a, <2>1, <2>2 DEF DumpNibble, Dumped, PassesAgree
  <1>3. CASE DoNibbles
    BY <1>3, <1>a DEF DoNibbles, PassesAgree
  <1>4. CASE PackGroup
    <2>1. /\ Pairs \in 1..4
          /\ 2 * Pairs + 1 <= Len(nibbles)
          /\ Group(Pairs) \in Seq(Int)
          /\ Len(Group(Pairs)) = Pairs + 1
      BY <1>4, GroupLength DEF PackGroup
    <2> DEFINE n == Pairs
               g == Group(Pairs)
    <2>2. /\ Data' = Data \o g
          /\ nibbles' = SubSeq(nibbles, 2 * n + 2, Len(nibbles))
          /\ Offset' = Offset + 1 + n
          /\ UNCHANGED <<reloc, pc, last, current, diff>>
          /\ pc \in {"wide", "end"}
      BY <1>4 DEF PackGroup, Packing
    <2>3. n \in 1..4 /\ 2 * n + 1 <= Len(nibbles) /\ g \in Seq(Int) /\ Len(g) = n + 1
      BY <2>1
    <2> HIDE DEF n, g
    <2>4. Data' \in Seq(Int) /\ Len(Data') = Len(Data) + n + 1
      BY <1>a, <2>2, <2>3, ConcatProperties
    <2>5. nibbles' \in Seq(Int)
      <3>1. \A i \in (2 * n + 2)..Len(nibbles) : nibbles[i] \in Int
        BY <1>a, <2>3, ElementOfSeq
      <3>2. 2 * n + 2 \in Nat /\ 2 * n + 2 >= 1 /\ 2 * n + 2 <= Len(nibbles) + 1
        BY <1>a, <2>3
      <3>3. QED
        BY <1>a, <2>2, <3>1, <3>2, SubSeqProperties
    <2>6. Offset = Len(Data) /\ Offset' = Len(Data')
      <3>1. Offset = Len(Data)
        BY <2>2 DEF PassesAgree
      <3>2. QED
        BY <1>a, <2>2, <2>3, <2>4, <3>1
    <2>7. Offset' \in Int
      BY <2>2, <2>3
    <2>8. WriterTyped'
      BY <2>2, <2>4, <2>5, <2>7
    <2>9. PassesAgree'
      BY <2>2, <2>6 DEF PassesAgree
    <2>10. QED
      BY <2>8, <2>9
  <1>5. CASE PackRest
    <2>1. Data' \in Seq(Int) /\ Len(Data') = Len(Data) + Len(nibbles)
      BY <1>5, ConcatProperties DEF PackRest
    <2>2. nibbles' \in Seq(Int)
      BY <1>5, EmptySeq DEF PackRest
    <2>3. QED
      BY <1>5, <1>a, <2>1, <2>2 DEF PackRest, Packing, PassesAgree
  <1>6. CASE DumpByte
    <2>1. last' \in Int /\ diff' \in Int /\ pc' = "next"
      BY <1>6 DEF DumpByte, Dumped, POINTER
    <2>2. <<diff + 1>> \in Seq(Int)
      OBVIOUS
    <2>3. QED
      BY <1>6, <2>1, <2>2, WritesKeeps DEF DumpByte
  <1>7. CASE DumpExtension
    <2>1. last' \in Int /\ diff' \in Int /\ pc' = "diff"
      BY <1>7 DEF DumpExtension, BYTE, EXTENDED
    <2>2. <<255, 255>> \in Seq(Int)
      OBVIOUS
    <2>3. QED
      BY <1>7, <2>1, <2>2, WritesKeeps DEF DumpExtension
  <1>8. CASE DumpWord
    <2>1. last' \in Int /\ diff' \in Int /\ pc' = "next"
      BY <1>8 DEF DumpWord, Dumped, POINTER, BYTE
    <2> DEFINE word == 49152 + diff - BYTE
    <2>2. word \in Int
      BY DEF BYTE
    <2>3. Writes(<<word \div 256, word % 256>>)
      BY <1>8 DEF DumpWord
    <2> HIDE DEF word
    <2>4. <<word \div 256, word % 256>> \in Seq(Int)
      BY <2>2
    <2>5. QED
      BY <2>1, <2>3, <2>4, WritesKeeps
  <1>9. CASE DumpEnd
    <2>1. Data' \in Seq(Int) /\ Len(Data') = Len(Data) + 1
      BY <1>9, AppendProperties DEF DumpEnd
    <2>2. QED
      BY <1>9, <1>a, <2>1 DEF DumpEnd, PassesAgree
  <1>10. CASE RelocByte
    BY <1>10, ReaderKeeps DEF RelocByte
  <1>11. CASE RelocWord
    BY <1>11, ReaderKeeps DEF RelocWord
  <1>12. CASE RelocNibbles
    BY <1>12, ReaderKeeps DEF RelocNibbles
  <1>13. CASE RelocPair
    BY <1>13, ReaderKeeps DEF RelocPair
  <1>14. CASE RelocEnd
    BY <1>14, ReaderKeeps DEF RelocEnd
  <1>15. CASE UNCHANGED vars
    BY <1>15 DEF vars, PassesAgree
  <1>16. QED
    BY <1>1, <1>2, <1>3, <1>4, <1>5, <1>6, <1>7, <1>8, <1>9, <1>10, <1>11,
       <1>12, <1>13, <1>14, <1>15 DEF Next, Done

(***************************************************************************)
(* What pass 1 of the linker reserves for a table (DumpReloc without Data) *)
(* is what pass 2 writes, whatever the addresses and their distances.      *)
(***************************************************************************)
THEOREM PassesAgreeAlways == Spec => []PassesAgree
  <1>1. WriterInv => PassesAgree
    BY DEF WriterInv
  <1>2. QED
    BY InitWriter, StepWriter, <1>1, PTL DEF Spec

-----------------------------------------------------------------------------
(***************************************************************************)
(* The table read back.  What do_reloc knows between two bytes is a mark:  *)
(* how many bytes it has read, the address it has come to, and how many    *)
(* pairs of nibbles are left.  A step takes it from one mark to another;   *)
(* it hits the addresses it changes and misses those it passes.            *)
(***************************************************************************)

\* finding 2: the distance whose word is the escape word
LOST == 2 * (EXTENDED + BYTE)
\* no address of R is that far behind the one before it, or behind the start
GapFree(R) ==
    \A a \in R \cup {FIRST - POINTER} : a + POINTER + LOST \in R =>
        \E c \in R : a < c /\ c < a + POINTER + LOST

Hits(R, at, a)    == GapFree(R) => /\ a \in R
                                   /\ \A r \in R : at <= r /\ r < a + POINTER => r = a
Misses(R, at, to) == GapFree(R) => \A r \in R : ~(at <= r /\ r < to)

Bytes   == 0..255
\* what is collected: a distance and one
Nibbles == 1..NIBBLE

\* the bytes, as they are written and as they are read
High(x)       == (49152 + x) \div 256
Low(x)        == (49152 + x) % 256
\* of do_reloc: the distance in a word of bytes u and v, without its offset
Distance(u, v) == (u % 64) * 256 + v
\* the first byte of a group of a nibble and n pairs, and the others
First(n, x)   == (8 + n - 1) * 16 + x - 1
Pair(x, y)    == (x - 1) * 16 + y - 1
\* the pairs the first byte says follow it; the two halves of a byte
Left(b)       == ((b \div 16) % 8) + 1
Upper(b)      == b \div 16
Lower(b)      == b % 16

Mark  == [pos : Nat, at : Nat, left : 0..4]
\* before the first byte
Start == [pos |-> 0, at |-> FIRST, left |-> 0]

\* do_reloc goes from mark m to mark k by a byte with a distance,
ByteStep(D, R, m, k) ==
    LET a == m.at + 2 * (D[m.pos + 1] - 1)
    IN  /\ m.left = 0 /\ D[m.pos + 1] \in 1..127
        /\ Hits(R, m.at, a)
        /\ k = [pos |-> m.pos + 1, at |-> a + POINTER, left |-> 0]

\* by a word with a distance, or with the part of a distance that fits it,
WordStep(D, R, m, k) ==
    LET d == Distance(D[m.pos + 1], D[m.pos + 2])
        a == m.at + 2 * (d + BYTE)
    IN  /\ m.left = 0 /\ D[m.pos + 1] \in 192..255 /\ m.pos + 2 <= Len(D)
        /\ D[m.pos + 2] \in 0..255
        /\ \/ /\ d # EXTENDED /\ Hits(R, m.at, a)
              /\ k = [pos |-> m.pos + 2, at |-> a + POINTER, left |-> 0]
           \/ /\ d = EXTENDED /\ Misses(R, m.at, a)
              /\ k = [pos |-> m.pos + 2, at |-> a, left |-> 0]

\* by the first byte of a group,
NibbleStep(D, R, m, k) ==
    LET a == m.at + 2 * Lower(D[m.pos + 1])
    IN  /\ m.left = 0 /\ D[m.pos + 1] \in 128..191
        /\ Hits(R, m.at, a)
        /\ k = [pos |-> m.pos + 1, at |-> a + POINTER,
                left |-> Left(D[m.pos + 1])]

\* or by one of its pairs
PairStep(D, R, m, k) ==
    LET a == m.at + 2 * Upper(D[m.pos + 1])
        b == a + POINTER + 2 * Lower(D[m.pos + 1])
    IN  /\ m.left \in 1..4 /\ D[m.pos + 1] \in 0..255
        /\ Hits(R, m.at, a) /\ Hits(R, a + POINTER, b)
        /\ k = [pos |-> m.pos + 1, at |-> b + POINTER, left |-> m.left - 1]

\* do_reloc goes from m to k in table D
ReadStep(D, R, m, k) ==
    /\ m.pos + 1 <= Len(D)
    /\ \/ ByteStep(D, R, m, k) \/ WordStep(D, R, m, k)
       \/ NibbleStep(D, R, m, k) \/ PairStep(D, R, m, k)

\* from every mark of P but the last there is a step to a mark of P
Path(D, R, P, e) ==
    /\ P \subseteq Mark /\ Start \in P /\ e \in P
    /\ \A m \in P : m = e \/ \E k \in P : ReadStep(D, R, m, k)

\* D, and E behind it
Longer(D, E, W) ==
    /\ D \in Seq(Bytes) /\ E \in Seq(Bytes) /\ W \in Seq(Bytes)
    /\ Len(W) = Len(D) + Len(E)
    /\ \A i \in 1..Len(D) : W[i] = D[i]
    /\ \A i \in 1..Len(E) : W[Len(D) + i] = E[i]

\* The bytes of two sequences, one behind the other.
LEMMA Joined ==
    ASSUME NEW D \in Seq(Bytes), NEW E \in Seq(Bytes)
    PROVE  Longer(D, E, D \o E)
  <1> DEFINE W == D \o E
  <1>1. Len(D) \in Nat /\ Len(E) \in Nat
    BY LenProperties
  <1>2. /\ Len(W) = Len(D) + Len(E) /\ W \in Seq(Bytes)
        /\ \A j \in 1..Len(D) : W[j] = D[j]
        /\ \A j \in (Len(D) + 1)..(Len(D) + Len(E)) : W[j] = E[j - Len(D)]
    BY ConcatProperties
  <1> HIDE DEF W
  <1>3. ASSUME NEW i \in 1..Len(E) PROVE W[Len(D) + i] = E[i]
    <2>1. Len(D) + i \in (Len(D) + 1)..(Len(D) + Len(E)) /\ (Len(D) + i) - Len(D) = i
      BY <1>1
    <2>2. QED
      BY <1>2, <2>1
  <1>4. Longer(D, E, W)
    BY <1>2, <1>3 DEF Longer
  <1>5. QED
    BY <1>4 DEF W

\* Bytes that follow do not change how those before are read.
LEMMA StepGrows ==
    ASSUME NEW D, NEW E, NEW W, Longer(D, E, W), NEW R, NEW m \in Mark, NEW k,
           ReadStep(D, R, m, k)
    PROVE  ReadStep(W, R, m, k)
  <1>1. Len(D) \in Nat /\ Len(E) \in Nat /\ Len(W) = Len(D) + Len(E)
    BY LenProperties DEF Longer
  <1>2. m.pos \in Nat /\ m.pos + 1 <= Len(D)
    BY DEF ReadStep, Mark
  <1>3. \A i \in 1..Len(D) : W[i] = D[i]
    BY DEF Longer
  <1>4. W[m.pos + 1] = D[m.pos + 1]
    BY <1>1, <1>2, <1>3
  <1>5. m.pos + 1 <= Len(W)
    BY <1>1, <1>2
  <1>6. CASE ByteStep(D, R, m, k)
    BY <1>4, <1>5, <1>6 DEF ReadStep, ByteStep
  <1>7. CASE WordStep(D, R, m, k)
    <2>1. m.pos + 2 <= Len(D)
      BY <1>7 DEF WordStep
    <2>2. W[m.pos + 2] = D[m.pos + 2] /\ m.pos + 2 <= Len(W)
      BY <1>1, <1>2, <1>3, <2>1
    <2>3. QED
      BY <1>4, <1>5, <1>7, <2>2 DEF ReadStep, WordStep
  <1>8. CASE NibbleStep(D, R, m, k)
    BY <1>4, <1>5, <1>8 DEF ReadStep, NibbleStep
  <1>9. CASE PairStep(D, R, m, k)
    BY <1>4, <1>5, <1>9 DEF ReadStep, PairStep
  <1>10. QED
    BY <1>6, <1>7, <1>8, <1>9 DEF ReadStep

\* Bytes are written, and a path goes on over them.
LEMMA PathGrows ==
    ASSUME NEW D, NEW E, NEW W, Longer(D, E, W), NEW R, NEW P, NEW e, Path(D, R, P, e),
           NEW n \in Nat, NEW F \in [0..n -> Mark],
           ReadStep(W, R, e, F[0]),
           \A j \in 0..(n - 1) : ReadStep(W, R, F[j], F[j + 1])
    PROVE  \E Q : Path(W, R, Q, F[n])
  <1> DEFINE Q == P \cup {F[j] : j \in 0..n}
  <1>1. Q \subseteq Mark /\ Start \in Q /\ F[n] \in Q
    BY DEF Path
  <1>2. ASSUME NEW m \in P PROVE \E k \in Q : ReadStep(W, R, m, k)
    <2>1. CASE m = e
      <3>1. F[0] \in Q
        OBVIOUS
      <3>2. QED
        BY <2>1, <3>1
    <2>2. CASE m # e
      <3>1. PICK k \in P : ReadStep(D, R, m, k)
        BY <2>2 DEF Path
      <3>2. m \in Mark
        BY DEF Path
      <3>3. ReadStep(W, R, m, k)
        BY <3>1, <3>2, StepGrows
      <3>4. QED
        BY <3>3
    <2>3. QED
      BY <2>1, <2>2
  <1>3. ASSUME NEW j \in 0..n PROVE F[j] = F[n] \/ \E k \in Q : ReadStep(W, R, F[j], k)
    <2>1. CASE j = n
      BY <2>1
    <2>2. CASE j # n
      <3>1. j \in 0..(n - 1) /\ j + 1 \in 0..n
        BY <2>2
      <3>2. F[j + 1] \in Q
        BY <3>1
      <3>3. QED
        BY <3>1, <3>2
    <2>3. QED
      BY <2>1, <2>2
  <1>4. \A m \in Q : m = F[n] \/ \E k \in Q : ReadStep(W, R, m, k)
    BY <1>2, <1>3
  <1>5. Path(W, R, Q, F[n])
    BY <1>1, <1>4 DEF Path
  <1>6. QED
    BY <1>5

\* The same for one step.
LEMMA PathStep ==
    ASSUME NEW D, NEW E, NEW W, Longer(D, E, W), NEW R, NEW P, NEW e, Path(D, R, P, e),
           NEW k \in Mark, ReadStep(W, R, e, k)
    PROVE  \E Q : Path(W, R, Q, k)
  <1> DEFINE F == [j \in 0..0 |-> k]
  <1>1. F \in [0..0 -> Mark] /\ F[0] = k
    OBVIOUS
  <1> HIDE DEF F
  <1>2. 0 \in Nat /\ \A j \in 0..(0 - 1) : ReadStep(W, R, F[j], F[j + 1])
    OBVIOUS
  <1>3. QED
    BY <1>1, <1>2, PathGrows

\* What the bytes of DumpWord and of a group stand for.
LEMMA WordBytes ==
    ASSUME NEW x \in Nat, x <= 16383
    PROVE  High(x) \in 192..255 /\ Low(x) \in 0..255 /\ Distance(High(x), Low(x)) = x
  <1> DEFINE q == x \div 256
             r == x % 256
  <1>1. q \in 0..63 /\ r \in 0..255 /\ x = 256 * q + r
    <2>1. \A z \in Nat : z = 256 * (z \div 256) + (z % 256) /\ z % 256 \in 0..255
      OBVIOUS
    <2>2. \A z \in Nat : z <= 16383 => z \div 256 \in 0..63
      OBVIOUS
    <2>3. QED
      BY <2>1, <2>2
  <1> HIDE DEF q, r
  <1>2. High(x) = 192 + q /\ Low(x) = r
    BY <1>1 DEF High, Low
  <1>3. (192 + q) % 64 = q
    BY <1>1
  <1>4. QED
    BY <1>1, <1>2, <1>3 DEF Distance

\* The kernel reads the first byte of a group as it was written.
LEMMA FirstByte ==
    ASSUME NEW n \in Nat, 1 <= n, n <= 4, NEW x \in Nat, 1 <= x, x <= 16
    PROVE  First(n, x) \in 128..191 /\ Lower(First(n, x)) = x - 1 /\ Left(First(n, x)) = n
  <1> DEFINE b == First(n, x)
  <1>1. b \in 128..191 /\ b % 16 = x - 1 /\ b \div 16 = 8 + n - 1
    BY DEF First
  <1>2. (8 + n - 1) % 8 = n - 1
    OBVIOUS
  <1>3. QED
    BY <1>1, <1>2 DEF Lower, Left

\* And each pair.
LEMMA PairByte ==
    ASSUME NEW x \in Nat, 1 <= x, x <= 16, NEW y \in Nat, 1 <= y, y <= 16
    PROVE  /\ Pair(x, y) \in 0..255
           /\ Upper(Pair(x, y)) = x - 1 /\ Lower(Pair(x, y)) = y - 1
  BY DEF Pair, Upper, Lower

-----------------------------------------------------------------------------
\* D is read up to an address, from which the nibbles in N lead to h.
Written(D, R, N, h) ==
    \E P, A :
        /\ A \in [0..Len(N) -> Nat]
        /\ Path(D, R, P, [pos |-> Len(D), at |-> A[0], left |-> 0])
        /\ \A k \in 1..Len(N) : /\ Hits(R, A[k - 1], A[k - 1] + 2 * (N[k] - 1))
                                /\ A[k] = A[k - 1] + 2 * (N[k] - 1) + POINTER
        /\ GapFree(R) => A[Len(N)] = h

\* Nothing is written yet.
LEMMA WrittenFirst == ASSUME NEW R PROVE Written(<<>>, R, <<>>, FIRST)
  <1> DEFINE A == [k \in 0..0 |-> FIRST]
  <1>1. Len(<<>>) = 0 /\ FIRST \in Nat
    BY EmptySeq DEF FIRST
  <1>2. A \in [0..0 -> Nat] /\ A[0] = FIRST
    BY <1>1
  <1> HIDE DEF A
  <1>3. Start \in Mark
    BY <1>1 DEF Start, Mark
  <1>4. Path(<<>>, R, {Start}, Start)
    BY <1>3 DEF Path
  <1>5. Path(<<>>, R, {Start}, [pos |-> Len(<<>>), at |-> A[0], left |-> 0])
    BY <1>1, <1>2, <1>4 DEF Start
  <1>6. A \in [0..Len(<<>>) -> Nat] /\ A[Len(<<>>)] = FIRST /\ \A k \in 1..Len(<<>>) : FALSE
    BY <1>1, <1>2
  <1>7. QED
    BY <1>5, <1>6 DEF Written

\* DumpReloc collects a nibble.
LEMMA WrittenNibble ==
    ASSUME NEW D, NEW R, NEW N \in Seq(Nibbles), NEW h \in Nat,
           NEW x \in Nibbles, x \in Nat, 1 <= x,
           Written(D, R, N, h), Hits(R, h, h + 2 * (x - 1))
    PROVE  Written(D, R, Append(N, x), h + 2 * (x - 1) + POINTER)
  <1> DEFINE M == Append(N, x)
  <1>1. /\ Len(N) \in Nat /\ Len(M) = Len(N) + 1 /\ M[Len(N) + 1] = x
        /\ \A i \in 1..Len(N) : M[i] = N[i]
    BY LenProperties, AppendProperties
  <1>2. PICK P, A :
        /\ A \in [0..Len(N) -> Nat]
        /\ Path(D, R, P, [pos |-> Len(D), at |-> A[0], left |-> 0])
        /\ \A k \in 1..Len(N) : /\ Hits(R, A[k - 1], A[k - 1] + 2 * (N[k] - 1))
                                /\ A[k] = A[k - 1] + 2 * (N[k] - 1) + POINTER
        /\ GapFree(R) => A[Len(N)] = h
    BY DEF Written
  <1>a. \A k \in 0..Len(N) : A[k] \in Nat
    <2>1. A \in [0..Len(N) -> Nat]
      BY <1>2
    <2>2. QED
      BY <2>1
  <1> HIDE DEF M
  <1> DEFINE z == A[Len(N)] + 2 * (x - 1) + POINTER
             B == [k \in 0..(Len(N) + 1) |-> IF k <= Len(N) THEN A[k] ELSE z]
  <1>3. A[Len(N)] \in Nat
    BY <1>1, <1>2
  <1>4. z \in Nat
    BY <1>3 DEF POINTER
  <1>5. /\ \A k \in 0..Len(N) : B[k] = A[k]
        /\ B[Len(N) + 1] = z
        /\ B \in [0..(Len(N) + 1) -> Nat]
    <2>1. ASSUME NEW k \in 0..(Len(N) + 1) PROVE B[k] \in Nat
      <3>1. CASE k <= Len(N)
        <4>1. k \in 0..Len(N)
          BY <1>1, <3>1
        <4>2. QED
          BY <1>a, <4>1
      <3>2. CASE ~(k <= Len(N))
        BY <1>4, <3>2
      <3>3. QED
        BY <3>1, <3>2
    <2>2. QED
      BY <1>1, <2>1
  <1> HIDE DEF B
  <1>6. B[0] = A[0]
    BY <1>1, <1>5
  <1>7. ASSUME NEW k \in 1..(Len(N) + 1)
        PROVE  /\ Hits(R, B[k - 1], B[k - 1] + 2 * (M[k] - 1))
               /\ B[k] = B[k - 1] + 2 * (M[k] - 1) + POINTER
    <2>1. CASE k <= Len(N)
      <3>1. k \in 1..Len(N) /\ k \in 0..Len(N) /\ k - 1 \in 0..Len(N)
        BY <1>1, <2>1
      <3>2. B[k] = A[k] /\ B[k - 1] = A[k - 1] /\ M[k] = N[k]
        BY <1>1, <1>5, <3>1
      <3>3. QED
        BY <1>2, <3>1, <3>2
    <2>2. CASE ~(k <= Len(N))
      <3>1. k = Len(N) + 1 /\ k - 1 = Len(N) /\ Len(N) \in 0..Len(N)
        BY <1>1, <2>2
      <3>2. B[k] = z /\ B[k - 1] = A[Len(N)] /\ M[k] = x
        BY <1>1, <1>5, <3>1
      <3>3. Hits(R, A[Len(N)], A[Len(N)] + 2 * (x - 1))
        <4>1. CASE GapFree(R)
          BY <1>2, <4>1
        <4>2. CASE ~GapFree(R)
          BY <4>2 DEF Hits
        <4>3. QED
          BY <4>1, <4>2
      <3>4. QED
        BY <3>2, <3>3
    <2>3. QED
      BY <2>1, <2>2
  <1>8. GapFree(R) => B[Len(N) + 1] = h + 2 * (x - 1) + POINTER
    BY <1>2, <1>5
  <1>9. Written(D, R, M, h + 2 * (x - 1) + POINTER)
    BY <1>1, <1>2, <1>5, <1>6, <1>7, <1>8 DEF Written
  <1>10. QED
    BY <1>9 DEF M

\* The bytes of E take do_reloc from h to t.
CanRead(D, E, W, R, h, t) ==
    \A a \in Nat :
        (GapFree(R) => a = h) =>
        \E z \in Nat :
            /\ GapFree(R) => z = t
            /\ ReadStep(W, R, [pos |-> Len(D), at |-> a, left |-> 0],
                        [pos |-> Len(D) + Len(E), at |-> z, left |-> 0])

\* A byte, two bytes: the path goes one step on.
LEMMA WrittenStep ==
    ASSUME NEW D, NEW E, NEW W, Longer(D, E, W), NEW R, NEW h, NEW t,
           Written(D, R, <<>>, h),
           CanRead(D, E, W, R, h, t)
    PROVE  Written(W, R, <<>>, t)
  <1>1. /\ Len(D) \in Nat /\ Len(E) \in Nat /\ Len(W) = Len(D) + Len(E)
        /\ Len(<<>>) = 0
    BY LenProperties, EmptySeq DEF Longer
  <1>2. PICK P, A :
        /\ A \in [0..Len(<<>>) -> Nat]
        /\ Path(D, R, P, [pos |-> Len(D), at |-> A[0], left |-> 0])
        /\ GapFree(R) => A[Len(<<>>)] = h
    BY DEF Written
  <1>3. A[0] \in Nat /\ (GapFree(R) => A[0] = h)
    BY <1>1, <1>2
  <1>4. PICK z \in Nat :
                  /\ GapFree(R) => z = t
                  /\ ReadStep(W, R, [pos |-> Len(D), at |-> A[0], left |-> 0],
                              [pos |-> Len(D) + Len(E), at |-> z, left |-> 0])
    BY <1>3 DEF CanRead
  <1>5. [pos |-> Len(D) + Len(E), at |-> z, left |-> 0] \in Mark
    BY <1>1 DEF Mark
  <1>6. PICK Q : Path(W, R, Q, [pos |-> Len(D) + Len(E), at |-> z, left |-> 0])
    BY <1>2, <1>4, <1>5, PathStep
  <1> DEFINE B == [k \in 0..0 |-> z]
  <1>7. B \in [0..0 -> Nat] /\ B[0] = z
    BY <1>4
  <1> HIDE DEF B
  <1>8. Path(W, R, Q, [pos |-> Len(W), at |-> B[0], left |-> 0])
    BY <1>1, <1>6, <1>7
  <1>9. B \in [0..Len(<<>>) -> Nat] /\ (GapFree(R) => B[Len(<<>>)] = t)
        /\ \A k \in 1..Len(<<>>) : FALSE
    BY <1>1, <1>4, <1>7
  <1>10. QED
    BY <1>8, <1>9 DEF Written

\* The byte of a distance below 127.
LEMMA ReadByte ==
    ASSUME NEW D \in Seq(Bytes), NEW R, NEW p \in Nat, NEW a \in Nat, NEW d \in Nat, d <= 126,
           p + 1 <= Len(D), D[p + 1] = d + 1, Hits(R, a, a + 2 * d)
    PROVE  ReadStep(D, R, [pos |-> p, at |-> a, left |-> 0],
                    [pos |-> p + 1, at |-> a + 2 * d + POINTER, left |-> 0])
  <1> DEFINE m == [pos |-> p, at |-> a, left |-> 0]
             k == [pos |-> p + 1, at |-> a + 2 * d + POINTER, left |-> 0]
  <1>1. m.pos = p /\ m.at = a /\ m.left = 0
    OBVIOUS
  <1> HIDE DEF m
  <1> DEFINE b == D[m.pos + 1]
  <1>2. b = d + 1
    BY <1>1
  <1> HIDE DEF b
  <1>a. b - 1 = d /\ b \in 1..127
    BY <1>2
  <1>b. m.at + 2 * (b - 1) = a + 2 * d
    BY <1>1, <1>a
  <1>3. /\ D[m.pos + 1] - 1 = d /\ D[m.pos + 1] \in 1..127
        /\ m.at + 2 * (D[m.pos + 1] - 1) = a + 2 * d
    BY <1>a, <1>b DEF b
  <1>4. Hits(R, m.at, m.at + 2 * (D[m.pos + 1] - 1))
    BY <1>1, <1>3
  <1>5. k = [pos |-> m.pos + 1, at |-> m.at + 2 * (D[m.pos + 1] - 1) + POINTER, left |-> 0]
    BY <1>1, <1>3
  <1> HIDE DEF k
  <1>6. ByteStep(D, R, m, k)
    BY <1>1, <1>3, <1>4, <1>5 DEF ByteStep
  <1>7. ReadStep(D, R, m, k)
    BY <1>1, <1>6 DEF ReadStep
  <1>8. QED
    BY <1>7 DEF m, k

\* The two bytes of a distance from 127 to 16509 words.
LEMMA ReadWord ==
    ASSUME NEW D \in Seq(Bytes), NEW R, NEW p \in Nat, NEW a \in Nat, NEW x \in Nat, x <= 16383,
           p + 2 <= Len(D),
           D[p + 1] = High(x), D[p + 2] = Low(x),
           x # EXTENDED, Hits(R, a, a + 2 * (x + BYTE))
    PROVE  ReadStep(D, R, [pos |-> p, at |-> a, left |-> 0],
                    [pos |-> p + 2, at |-> a + 2 * (x + BYTE) + POINTER, left |-> 0])
  <1> DEFINE m == [pos |-> p, at |-> a, left |-> 0]
             k == [pos |-> p + 2, at |-> a + 2 * (x + BYTE) + POINTER, left |-> 0]
             w == Distance(D[m.pos + 1], D[m.pos + 2])
  <1>1. m.pos = p /\ m.at = a /\ m.left = 0
    OBVIOUS
  <1> HIDE DEF m
  <1>a. D[m.pos + 1] = High(x) /\ D[m.pos + 2] = Low(x)
    BY <1>1
  <1>2. /\ D[m.pos + 1] \in 192..255 /\ D[m.pos + 2] \in 0..255
        /\ w = x
    BY <1>a, WordBytes
  <1> HIDE DEF w
  <1>3. w # EXTENDED /\ Hits(R, m.at, m.at + 2 * (w + BYTE))
    BY <1>1, <1>2
  <1>4. k = [pos |-> m.pos + 2, at |-> m.at + 2 * (w + BYTE) + POINTER, left |-> 0]
    BY <1>1, <1>2
  <1> HIDE DEF k
  <1>5. WordStep(D, R, m, k)
    BY <1>1, <1>2, <1>3, <1>4 DEF WordStep, w
  <1>6. p + 1 <= Len(D)
    <2>1. Len(D) >= p + 2 => Len(D) >= p + 1 
      OBVIOUS
    <2>2. QED
      BY <2>1
  <1>7. ReadStep(D, R, m, k)
    BY <1>1, <1>5, <1>6 DEF ReadStep
  <1>8. QED
    BY <1>7 DEF m, k

\* The escape word.
LEMMA ReadEscape ==
    ASSUME NEW D \in Seq(Bytes), NEW R, NEW p \in Nat, NEW a \in Nat, p + 2 <= Len(D),
           D[p + 1] = 255, D[p + 2] = 255, Misses(R, a, a + 2 * (EXTENDED + BYTE))
    PROVE  ReadStep(D, R, [pos |-> p, at |-> a, left |-> 0],
                    [pos |-> p + 2, at |-> a + 2 * (EXTENDED + BYTE), left |-> 0])
  <1> DEFINE m == [pos |-> p, at |-> a, left |-> 0]
             k == [pos |-> p + 2, at |-> a + 2 * (EXTENDED + BYTE), left |-> 0]
             w == Distance(D[m.pos + 1], D[m.pos + 2])
  <1>1. m.pos = p /\ m.at = a /\ m.left = 0
    OBVIOUS
  <1>2. /\ D[m.pos + 1] \in 192..255 /\ D[m.pos + 2] \in 0..255
        /\ w = EXTENDED
    <2>1. D[m.pos + 1] = 255 /\ D[m.pos + 2] = 255
      BY <1>1
    <2>2. Distance(255, 255) = EXTENDED
      BY DEF Distance, EXTENDED
    <2>3. QED
      BY <2>1, <2>2
  <1> HIDE DEF w, m
  <1>3. w = EXTENDED /\ Misses(R, m.at, m.at + 2 * (w + BYTE))
    BY <1>1, <1>2
  <1>4. k = [pos |-> m.pos + 2, at |-> m.at + 2 * (w + BYTE), left |-> 0]
    BY <1>1, <1>2
  <1> HIDE DEF k
  <1>5. WordStep(D, R, m, k)
    BY <1>1, <1>2, <1>3, <1>4 DEF WordStep, w
  <1>6. p + 1 <= Len(D)
    <2>1. Len(D) >= p + 2 => Len(D) >= p + 1
      OBVIOUS
    <2>2. QED
      BY <2>1
  <1>7. ReadStep(D, R, m, k)
    BY <1>1, <1>5, <1>6 DEF ReadStep
  <1>8. QED
    BY <1>7 DEF m, k

\* The first byte of a group of n pairs.
LEMMA ReadFirst ==
    ASSUME NEW D \in Seq(Bytes), NEW R, NEW p \in Nat, NEW a \in Nat, NEW n \in Nat, 1 <= n, n <= 4, NEW x \in Nat, 1 <= x, x <= 16,
           p + 1 <= Len(D), D[p + 1] = First(n, x), Hits(R, a, a + 2 * (x - 1))
    PROVE  ReadStep(D, R, [pos |-> p, at |-> a, left |-> 0],
                    [pos |-> p + 1, at |-> a + 2 * (x - 1) + POINTER, left |-> n])
  <1> DEFINE m == [pos |-> p, at |-> a, left |-> 0]
             k == [pos |-> p + 1, at |-> a + 2 * (x - 1) + POINTER, left |-> n]
             b == D[m.pos + 1]
  <1>1. m.pos = p /\ m.at = a /\ m.left = 0
    OBVIOUS
  <1> HIDE DEF m
  <1>a. b = First(n, x)
    BY <1>1
  <1>2. b \in 128..191 /\ Lower(b) = x - 1 /\ Left(b) = n
    BY <1>a, FirstByte
  <1> HIDE DEF b
  <1>3. Hits(R, m.at, m.at + 2 * Lower(b))
    BY <1>1, <1>2
  <1>4. k = [pos |-> m.pos + 1, at |-> m.at + 2 * Lower(b) + POINTER,
             left |-> Left(b)]
    BY <1>1, <1>2
  <1> HIDE DEF k
  <1>5. NibbleStep(D, R, m, k)
    BY <1>1, <1>2, <1>3, <1>4 DEF NibbleStep, b
  <1>6. ReadStep(D, R, m, k)
    BY <1>1, <1>5 DEF ReadStep
  <1>7. QED
    BY <1>6 DEF m, k

\* One of its pairs.
LEMMA ReadPair ==
    ASSUME NEW D \in Seq(Bytes), NEW R, NEW p \in Nat, NEW a \in Nat, NEW l \in Nat, 1 <= l, l <= 4,
           NEW x \in Nat, 1 <= x, x <= 16, NEW y \in Nat, 1 <= y, y <= 16, NEW c \in Nat,
           p + 1 <= Len(D), D[p + 1] = Pair(x, y),
           Hits(R, a, a + 2 * (x - 1)), c = a + 2 * (x - 1) + POINTER,
           Hits(R, c, c + 2 * (y - 1))
    PROVE  ReadStep(D, R, [pos |-> p, at |-> a, left |-> l],
                    [pos |-> p + 1, at |-> c + 2 * (y - 1) + POINTER, left |-> l - 1])
  <1> DEFINE m == [pos |-> p, at |-> a, left |-> l]
             k == [pos |-> p + 1, at |-> c + 2 * (y - 1) + POINTER, left |-> l - 1]
             b == D[m.pos + 1]
             t == m.at + 2 * Upper(b)
             u == t + POINTER + 2 * Lower(b)
  <1>1. m.pos = p /\ m.at = a /\ m.left = l
    OBVIOUS
  <1> HIDE DEF m
  <1>a. b = Pair(x, y)
    BY <1>1
  <1>2. b \in 0..255 /\ Upper(b) = x - 1 /\ Lower(b) = y - 1
    BY <1>a, PairByte
  <1> HIDE DEF b
  <1>3. t = a + 2 * (x - 1) /\ t + POINTER = c /\ u = c + 2 * (y - 1)
    BY <1>1, <1>2 DEF POINTER
  <1>4. Hits(R, m.at, t) /\ Hits(R, t + POINTER, u)
    BY <1>1, <1>3
  <1>5. k = [pos |-> m.pos + 1, at |-> u + POINTER, left |-> m.left - 1]
    BY <1>1, <1>3
  <1> HIDE DEF k
  <1>6. PairStep(D, R, m, k)
    BY <1>1, <1>2, <1>4, <1>5 DEF PairStep, b
  <1>7. ReadStep(D, R, m, k)
    BY <1>1, <1>6 DEF ReadStep
  <1>8. QED
    BY <1>7 DEF m, k

\* DumpByte writes what is read as a hit,
LEMMA WrittenByte ==
    ASSUME NEW D, NEW E, NEW W, Longer(D, E, W), NEW R, NEW h \in Nat,
           NEW d \in Nat, d <= 126, Len(E) = 1, E[1] = d + 1,
           Written(D, R, <<>>, h), Hits(R, h, h + 2 * d)
    PROVE  Written(W, R, <<>>, h + 2 * d + POINTER)
  <1> DEFINE t == h + 2 * d + POINTER
  <1>1. Len(D) \in Nat /\ Len(W) = Len(D) + 1 /\ W[Len(D) + 1] = d + 1 /\ W \in Seq(Bytes)
    BY LenProperties DEF Longer
  <1>2. ASSUME NEW a \in Nat, GapFree(R) => a = h
        PROVE  \E z \in Nat :
                  /\ GapFree(R) => z = t
                  /\ ReadStep(W, R, [pos |-> Len(D), at |-> a, left |-> 0],
                              [pos |-> Len(D) + Len(E), at |-> z, left |-> 0])
    <2> DEFINE p == Len(D)
               z == a + 2 * d + POINTER
    <2>1. z \in Nat /\ (GapFree(R) => z = t)
      BY <1>2 DEF POINTER
    <2>2. Hits(R, a, a + 2 * d)
      BY <1>2 DEF Hits
    <2>3. p \in Nat /\ p + 1 <= Len(W) /\ W[p + 1] = d + 1 /\ W \in Seq(Bytes)
      BY <1>1
    <2> HIDE DEF p
    <2>4. ReadStep(W, R, [pos |-> p, at |-> a, left |-> 0],
                         [pos |-> p + 1, at |-> z, left |-> 0])
      BY <2>2, <2>3, ReadByte
    <2>5. QED
      BY <1>1, <2>1, <2>4 DEF p
  <1>3. CanRead(D, E, W, R, h, t)
    BY <1>2 DEF CanRead
  <1> HIDE DEF t
  <1>4. Written(W, R, <<>>, t)
    BY <1>3, WrittenStep
  <1>5. QED
    BY <1>4 DEF t

\* and so does DumpWord, but for the word that is the escape word;
LEMMA WrittenWord ==
    ASSUME NEW D, NEW E, NEW W, Longer(D, E, W), NEW R, NEW h \in Nat,
           NEW x \in Nat, x <= EXTENDED, Len(E) = 2, E[1] = High(x), E[2] = Low(x),
           Written(D, R, <<>>, h), Hits(R, h, h + 2 * (x + BYTE)),
           GapFree(R) => x # EXTENDED
    PROVE  Written(W, R, <<>>, h + 2 * (x + BYTE) + POINTER)
  <1> DEFINE t == h + 2 * (x + BYTE) + POINTER
  <1>a. x <= 16383
    BY DEF EXTENDED
  <1>1. /\ Len(D) \in Nat /\ Len(W) = Len(D) + 2 /\ W \in Seq(Bytes)
        /\ W[Len(D) + 1] = High(x) /\ W[Len(D) + 2] = Low(x)
    BY LenProperties DEF Longer
  <1>2. ASSUME NEW a \in Nat, GapFree(R) => a = h
        PROVE  \E z \in Nat :
                  /\ GapFree(R) => z = t
                  /\ ReadStep(W, R, [pos |-> Len(D), at |-> a, left |-> 0],
                              [pos |-> Len(D) + Len(E), at |-> z, left |-> 0])
    <2>1. CASE x # EXTENDED
      <3> DEFINE z == a + 2 * (x + BYTE) + POINTER
      <3>1. z \in Nat /\ (GapFree(R) => z = t)
        BY <1>2 DEF POINTER, BYTE
      <3>2. Hits(R, a, a + 2 * (x + BYTE))
        BY <1>2 DEF Hits
      <3>3. ReadStep(W, R, [pos |-> Len(D), at |-> a, left |-> 0],
                           [pos |-> Len(D) + 2, at |-> z, left |-> 0])
        BY <1>1, <1>a, <2>1, <3>2, ReadWord
      <3>4. QED
        BY <3>1, <3>3
    <2>2. CASE x = EXTENDED
      <3> DEFINE z == a + 2 * (EXTENDED + BYTE)
      <3>1. ~GapFree(R) /\ z \in Nat
        BY <2>2 DEF EXTENDED, BYTE
      <3>2. Misses(R, a, a + 2 * (EXTENDED + BYTE))
        BY <3>1 DEF Misses
      <3>3. W[Len(D) + 1] = 255 /\ W[Len(D) + 2] = 255
        BY <1>1, <2>2 DEF EXTENDED, High, Low
      <3>4. ReadStep(W, R, [pos |-> Len(D), at |-> a, left |-> 0],
                           [pos |-> Len(D) + 2, at |-> z, left |-> 0])
        BY <1>1, <3>2, <3>3, ReadEscape
      <3>5. QED
        BY <3>1, <3>4
    <2>3. QED
      BY <2>1, <2>2
  <1> HIDE DEF t
  <1>3. CanRead(D, E, W, R, h, t)
    BY <1>2 DEF CanRead
  <1>4. Written(W, R, <<>>, t)
    BY <1>3, WrittenStep
  <1>5. QED
    BY <1>4 DEF t

\* DumpExtension writes what is read as a miss.
LEMMA WrittenEscape ==
    ASSUME NEW D, NEW E, NEW W, Longer(D, E, W), NEW R, NEW h \in Nat,
           Len(E) = 2, E[1] = 255, E[2] = 255,
           Written(D, R, <<>>, h), Misses(R, h, h + 2 * (EXTENDED + BYTE))
    PROVE  Written(W, R, <<>>, h + 2 * (EXTENDED + BYTE))
  <1> DEFINE t == h + 2 * (EXTENDED + BYTE)
  <1>1. /\ Len(D) \in Nat /\ Len(W) = Len(D) + 2 /\ W \in Seq(Bytes)
        /\ W[Len(D) + 1] = 255 /\ W[Len(D) + 2] = 255
    BY LenProperties DEF Longer
  <1>2. ASSUME NEW a \in Nat, GapFree(R) => a = h
        PROVE  \E z \in Nat :
                  /\ GapFree(R) => z = t
                  /\ ReadStep(W, R, [pos |-> Len(D), at |-> a, left |-> 0],
                              [pos |-> Len(D) + Len(E), at |-> z, left |-> 0])
    <2> DEFINE z == a + 2 * (EXTENDED + BYTE)
    <2>1. z \in Nat /\ (GapFree(R) => z = t)
      BY <1>2 DEF EXTENDED, BYTE
    <2>2. Misses(R, a, a + 2 * (EXTENDED + BYTE))
      BY <1>2 DEF Misses
    <2>3. ReadStep(W, R, [pos |-> Len(D), at |-> a, left |-> 0],
                         [pos |-> Len(D) + 2, at |-> z, left |-> 0])
      BY <1>1, <2>2, ReadEscape
    <2>4. QED
      BY <2>1, <2>3
  <1>3. CanRead(D, E, W, R, h, t)
    BY <1>2 DEF CanRead
  <1> HIDE DEF t
  <1>4. Written(W, R, <<>>, t)
    BY <1>3, WrittenStep
  <1>5. QED
    BY <1>4 DEF t

-----------------------------------------------------------------------------
\* Nibbles as DumpReloc collects them.
Collected(N) ==
    /\ Len(N) \in Nat
    /\ \A k \in 1..Len(N) : N[k] \in Nat /\ 1 <= N[k] /\ N[k] <= 16

\* DoNibbles writes what does not fill a group: each nibble is a byte.
LEMMA WrittenRest ==
    ASSUME NEW D, NEW N, NEW W, Longer(D, N, W), NEW R, NEW h,
           Collected(N), Len(N) >= 1, Written(D, R, N, h)
    PROVE  Written(W, R, <<>>, h)
  <1> DEFINE L == Len(N)
             p == Len(D)
  <1>1. /\ p \in Nat /\ L \in Nat /\ L >= 1 /\ Len(W) = p + L
        /\ W \in Seq(Bytes) /\ \A i \in 1..L : W[p + i] = N[i]
    BY LenProperties DEF Longer, Collected
  <1>2. \A k \in 1..L : N[k] \in Nat /\ 1 <= N[k] /\ N[k] <= 16
    BY DEF Collected
  <1>3. PICK P, A :
        /\ A \in [0..L -> Nat]
        /\ Path(D, R, P, [pos |-> p, at |-> A[0], left |-> 0])
        /\ \A k \in 1..L : /\ Hits(R, A[k - 1], A[k - 1] + 2 * (N[k] - 1))
                           /\ A[k] = A[k - 1] + 2 * (N[k] - 1) + POINTER
        /\ GapFree(R) => A[L] = h
    BY DEF Written
  <1> HIDE DEF L, p
  <1> DEFINE G(i) == [pos |-> p + i, at |-> A[i], left |-> 0]
             n == L - 1
             F == [j \in 0..n |-> G(j + 1)]
  <1>4. ASSUME NEW i \in 1..L
        PROVE  ReadStep(W, R, G(i - 1), G(i))
    <2> DEFINE q == p + (i - 1)
               a == A[i - 1]
               d == N[i] - 1
    <2>1. q \in Nat /\ q + 1 = p + i /\ q + 1 <= Len(W)
      BY <1>1
    <2>2. i - 1 \in 0..L
      BY <1>1
    <2>3. a \in Nat
      BY <1>3, <2>2
    <2>4. N[i] \in Nat /\ 1 <= N[i] /\ N[i] <= 16
      BY <1>2
    <2>5. d \in Nat /\ d <= 126 /\ d + 1 = N[i]
      BY <2>4
    <2>6. W[q + 1] = d + 1
      BY <1>1, <2>1, <2>5
    <2>7. Hits(R, a, a + 2 * d) /\ A[i] = a + 2 * d + POINTER
      BY <1>3
    <2> HIDE DEF q, a, d
    <2>8. ReadStep(W, R, [pos |-> q, at |-> a, left |-> 0],
                         [pos |-> q + 1, at |-> a + 2 * d + POINTER, left |-> 0])
      BY <1>1, <2>1, <2>3, <2>5, <2>6, <2>7, ReadByte
    <2>9. G(i) = [pos |-> q + 1, at |-> a + 2 * d + POINTER, left |-> 0]
      BY <2>1, <2>7
    <2>10. G(i - 1) = [pos |-> q, at |-> a, left |-> 0]
      BY DEF q, a
    <2>11. QED
      BY <2>8, <2>9, <2>10
  <1>5. G(0) = [pos |-> p, at |-> A[0], left |-> 0]
    BY <1>1
  <1>6. \A i \in 1..L : G(i) \in Mark
    BY <1>1, <1>3 DEF Mark
  <1> HIDE DEF G
  <1>7. n \in Nat /\ \A j \in 0..n : j + 1 \in 1..L
    BY <1>1
  <1>8. F \in [0..n -> Mark] /\ \A j \in 0..n : F[j] = G(j + 1)
    BY <1>6, <1>7
  <1>9. 0 \in 0..n /\ n \in 0..n /\ 1 \in 1..L /\ 1 - 1 = 0 /\ 0 + 1 = 1 /\ n + 1 = L
    BY <1>1
  <1>10. ReadStep(W, R, G(0), F[0])
    BY <1>4, <1>8, <1>9
  <1>11. ASSUME NEW j \in 0..(n - 1) PROVE ReadStep(W, R, F[j], F[j + 1])
    <2>1. j \in 0..n /\ j + 1 \in 0..n /\ (j + 1) + 1 \in 1..L /\ ((j + 1) + 1) - 1 = j + 1
      BY <1>1, <1>7
    <2>2. ReadStep(W, R, G(j + 1), G((j + 1) + 1))
      BY <1>4, <2>1
    <2>3. QED
      BY <1>8, <2>1, <2>2
  <1>12. F[n] = G(L)
    BY <1>8, <1>9
  <1> HIDE DEF n, F
  <1>13. Path(D, R, P, G(0))
    BY <1>3, <1>5
  <1>14. PICK Q : Path(W, R, Q, F[n])
    BY <1>7, <1>8, <1>10, <1>11, <1>13, PathGrows
  <1> DEFINE B == [k \in 0..0 |-> A[L]]
  <1>15. A[L] \in Nat /\ Len(<<>>) = 0
    BY <1>1, <1>3, EmptySeq
  <1>16. B \in [0..0 -> Nat] /\ B[0] = A[L]
    BY <1>15
  <1> HIDE DEF B
  <1>17. F[n] = [pos |-> Len(W), at |-> B[0], left |-> 0]
    BY <1>1, <1>12, <1>16 DEF G
  <1>18. /\ B \in [0..Len(<<>>) -> Nat]
         /\ GapFree(R) => B[Len(<<>>)] = h
         /\ \A k \in 1..Len(<<>>) : FALSE
         /\ Path(W, R, Q, [pos |-> Len(W), at |-> B[0], left |-> 0])
    BY <1>3, <1>14, <1>15, <1>16, <1>17
  <1>19. QED
    BY <1>18 DEF Written

\* Sums that place the bytes and the nibbles of a group.
LEMMA BytesFit ==
    ASSUME NEW p \in Nat, NEW n \in Nat, NEW i \in Nat, i <= n
    PROVE  /\ p + i \in Nat /\ (p + i) + 1 = p + (i + 1)
           /\ (p + i) + 1 <= p + (n + 1)
  OBVIOUS

LEMMA NibblesFit ==
    ASSUME NEW r \in Nat, NEW s \in Nat, NEW L \in Nat, r + s = L, NEW k \in 0..r
    PROVE  k + s \in 0..L
  OBVIOUS

\* DoNibbles writes a group: a nibble in the first byte, then two in each.
LEMMA WrittenGroup ==
    ASSUME NEW D, NEW E, NEW W, Longer(D, E, W), NEW R, NEW h, NEW N, NEW M,
           NEW n \in Nat, 1 <= n, n <= 4, 2 * n + 1 <= Len(N),
           Collected(N), Written(D, R, N, h),
           Len(E) = n + 1, E[1] = First(n, N[1]),
           \A i \in 1..n : E[i + 1] = Pair(N[2 * i], N[2 * i + 1]),
           Len(M) = Len(N) - (2 * n + 1),
           \A k \in 1..Len(M) : M[k] = N[k + (2 * n + 1)]
    PROVE  Written(W, R, M, h)
  <1> DEFINE L == Len(N)
             p == Len(D)
             s == 2 * n + 1
  <1>1. /\ p \in Nat /\ L \in Nat /\ Len(W) = p + (n + 1)
        /\ W \in Seq(Bytes) /\ \A i \in 1..(n + 1) : W[p + i] = E[i]
    BY LenProperties DEF Longer, Collected
  <1>2. \A k \in 1..L : N[k] \in Nat /\ 1 <= N[k] /\ N[k] <= 16
    BY DEF Collected
  <1>3. PICK P, A :
        /\ A \in [0..L -> Nat]
        /\ Path(D, R, P, [pos |-> p, at |-> A[0], left |-> 0])
        /\ \A k \in 1..L : /\ Hits(R, A[k - 1], A[k - 1] + 2 * (N[k] - 1))
                           /\ A[k] = A[k - 1] + 2 * (N[k] - 1) + POINTER
        /\ GapFree(R) => A[L] = h
    BY DEF Written
  <1> DEFINE r == Len(M)
  <1>4. s \in Nat /\ s <= L /\ r = L - s /\ r \in Nat /\ r + s = L
        /\ \A k \in 1..r : M[k] = N[k + s]
    <2>1. r = L - s /\ s <= L /\ \A k \in 1..r : M[k] = N[k + s]
      OBVIOUS
    <2>2. s \in Nat
      OBVIOUS
    <2> HIDE DEF r, L, s
    <2>3. r \in Nat /\ r + s = L
      BY <1>1, <2>1, <2>2
    <2>4. QED
      BY <2>1, <2>2, <2>3
  <1>5. E[1] = First(n, N[1]) /\ \A i \in 1..n : E[i + 1] = Pair(N[2 * i], N[2 * i + 1])
    OBVIOUS
  <1>a. s = 2 * n + 1
    OBVIOUS
  <1> HIDE DEF L, p, r
  <1> DEFINE G(j) == [pos |-> p + (j + 1), at |-> A[2 * j + 1], left |-> n - j]
             e == [pos |-> p, at |-> A[0], left |-> 0]
             F == [j \in 0..n |-> G(j)]
  <1>6. ReadStep(W, R, e, G(0))
    <2> DEFINE a == A[0]
               x == N[1]
    <2>1. 1 \in 1..L /\ 0 \in 0..L /\ 1 - 1 = 0
      BY <1>1, <1>4
    <2>2. a \in Nat /\ x \in Nat /\ 1 <= x /\ x <= 16
      BY <1>2, <1>3, <2>1
    <2>3. Hits(R, a, a + 2 * (x - 1)) /\ A[1] = a + 2 * (x - 1) + POINTER
      BY <1>3, <2>1
    <2>4. p + 1 <= Len(W) /\ W[p + 1] = First(n, x)
      <3>1. 1 \in 1..(n + 1)
        OBVIOUS
      <3>2. QED
        BY <1>1, <1>5, <3>1
    <2> HIDE DEF a, x
    <2>5. ReadStep(W, R, [pos |-> p, at |-> a, left |-> 0],
                    [pos |-> p + 1, at |-> a + 2 * (x - 1) + POINTER, left |-> n])
      BY <1>1, <2>2, <2>3, <2>4, ReadFirst
    <2>6. 2 * 0 + 1 = 1 /\ n - 0 = n /\ 0 + 1 = 1
      OBVIOUS
    <2>7. G(0) = [pos |-> p + 1, at |-> a + 2 * (x - 1) + POINTER, left |-> n]
      BY <2>3, <2>6
    <2>8. e = [pos |-> p, at |-> a, left |-> 0]
      BY DEF a
    <2>9. QED
      BY <2>5, <2>7, <2>8
  <1>7. ASSUME NEW j \in 0..(n - 1)
        PROVE  ReadStep(W, R, G(j), G(j + 1))
    <2> DEFINE i == j + 1
               q == p + i
               l == n - j
               a == A[2 * j + 1]
               c == A[2 * i]
               x == N[2 * i]
               y == N[2 * i + 1]
    <2>a. p \in Nat /\ Len(W) = p + (n + 1)
      BY <1>1
    <2>b. i \in 1..n /\ i + 1 \in 1..(n + 1) /\ l \in Nat /\ 1 <= l /\ l <= 4
      OBVIOUS
    <2>c. i \in Nat /\ i <= n
      BY <2>b
    <2>d. /\ p + i \in Nat /\ (p + i) + 1 = p + (i + 1)
          /\ (p + i) + 1 <= p + (n + 1)
      BY <2>a, <2>c, BytesFit
    <2>e. q \in Nat /\ q + 1 = p + (i + 1) /\ q + 1 <= Len(W)
      BY <2>a, <2>d
    <2>1. /\ i \in 1..n /\ i + 1 \in 1..(n + 1) /\ q \in Nat /\ q + 1 <= Len(W)
          /\ l \in Nat /\ 1 <= l /\ l <= 4 /\ q + 1 = p + (i + 1)
      BY <2>b, <2>e
    <2>2. /\ 2 * i \in 1..L /\ 2 * i + 1 \in 1..L /\ 2 * j + 1 \in 0..L /\ 2 * i \in 0..L
          /\ 2 * i - 1 = 2 * j + 1 /\ (2 * i + 1) - 1 = 2 * i
      BY <1>1, <1>4
    <2>3. a \in Nat /\ c \in Nat
      BY <1>3, <2>2
    <2>4. /\ x \in Nat /\ 1 <= x /\ x <= 16
          /\ y \in Nat /\ 1 <= y /\ y <= 16
      BY <1>2, <2>2
    <2>5. Hits(R, a, a + 2 * (x - 1)) /\ c = a + 2 * (x - 1) + POINTER
      BY <1>3, <2>2
    <2>6. Hits(R, c, c + 2 * (y - 1)) /\ A[2 * i + 1] = c + 2 * (y - 1) + POINTER
      BY <1>3, <2>2
    <2>7. W[q + 1] = Pair(x, y)
      BY <1>1, <1>5, <2>1
    <2>8. G(j) = [pos |-> q, at |-> a, left |-> l]
      OBVIOUS
    <2>9. l - 1 = n - i /\ (j + 1) + 1 = i + 1
      OBVIOUS
    <2>10. G(j + 1) = [pos |-> q + 1, at |-> c + 2 * (y - 1) + POINTER, left |-> l - 1]
      BY <2>1, <2>6, <2>9
    <2> HIDE DEF i, q, l, a, c, x, y, G
    <2>11. ReadStep(W, R, [pos |-> q, at |-> a, left |-> l],
                    [pos |-> q + 1, at |-> c + 2 * (y - 1) + POINTER, left |-> l - 1])
      BY <1>1, <2>1, <2>3, <2>4, <2>5, <2>6, <2>7, ReadPair
    <2>12. QED
      BY <2>8, <2>10, <2>11
  <1>8. ASSUME NEW j \in 0..n PROVE G(j) \in Mark
    <2>1. 2 * j + 1 \in 0..L
      BY <1>1, <1>4
    <2>2. A[2 * j + 1] \in Nat /\ p + (j + 1) \in Nat /\ n - j \in 0..4
      BY <1>1, <1>3, <2>1
    <2>3. QED
      BY <2>2 DEF Mark
  <1>9. G(n) = [pos |-> Len(W), at |-> A[s], left |-> 0]
    BY <1>1
  <1> HIDE DEF G, e, s
  <1>10. F \in [0..n -> Mark] /\ \A j \in 0..n : F[j] = G(j)
    BY <1>8
  <1>11. ReadStep(W, R, e, F[0])
    <2>1. 0 \in 0..n
      OBVIOUS
    <2>2. QED
      BY <1>6, <1>10, <2>1
  <1>12. ASSUME NEW j \in 0..(n - 1) PROVE ReadStep(W, R, F[j], F[j + 1])
    <2>1. j \in 0..n /\ j + 1 \in 0..n
      OBVIOUS
    <2>2. QED
      BY <1>7, <1>10, <2>1
  <1>13. F[n] = G(n)
    <2>1. n \in 0..n
      OBVIOUS
    <2>2. QED
      BY <1>10, <2>1
  <1> HIDE DEF F
  <1>14. Path(D, R, P, e)
    BY <1>3 DEF e
  <1>15. PICK Q : Path(W, R, Q, F[n])
    BY <1>10, <1>11, <1>12, <1>14, PathGrows
  <1> DEFINE B == [k \in 0..r |-> A[k + s]]
  <1>16. \A k \in 0..r : k + s \in 0..L
    BY <1>1, <1>4, NibblesFit
  <1>17. B \in [0..r -> Nat] /\ \A k \in 0..r : B[k] = A[k + s]
    BY <1>3, <1>16
  <1> HIDE DEF B
  <1>18. B[0] = A[s] /\ B[r] = A[L]
    <2>1. 0 \in 0..r /\ r \in 0..r /\ 0 + s = s /\ r + s = L
      BY <1>1, <1>4
    <2>2. QED
      BY <1>17, <2>1
  <1>19. Path(W, R, Q, [pos |-> Len(W), at |-> B[0], left |-> 0])
    BY <1>9, <1>13, <1>15, <1>18
  <1>20. ASSUME NEW k \in 1..r
         PROVE  /\ Hits(R, B[k - 1], B[k - 1] + 2 * (M[k] - 1))
                /\ B[k] = B[k - 1] + 2 * (M[k] - 1) + POINTER
    <2>1. k + s \in 1..L /\ (k + s) - 1 = (k - 1) + s
      BY <1>1, <1>4
    <2>2. k \in 0..r /\ k - 1 \in 0..r
      BY <1>4
    <2>3. B[k] = A[k + s] /\ B[k - 1] = A[(k + s) - 1] /\ M[k] = N[k + s]
      BY <1>4, <1>17, <2>1, <2>2
    <2>4. QED
      BY <1>3, <2>1, <2>3
  <1>21. GapFree(R) => B[r] = h
    BY <1>3, <1>18
  <1>22. QED
    BY <1>17, <1>19, <1>20, <1>21 DEF Written, r

-----------------------------------------------------------------------------
\* What DumpReloc collects are nibbles, and bytes too.
LEMMA NibblesCollected ==
    ASSUME NEW N \in Seq(Nibbles)
    PROVE  Collected(N) /\ N \in Seq(Bytes) /\ N \in Seq(Int)
  <1>1. Nibbles \subseteq Bytes /\ Nibbles \subseteq Int
    BY DEF Nibbles, Bytes, NIBBLE
  <1>2. N \in Seq(Bytes) /\ N \in Seq(Int)
    BY <1>1, SeqMonotonic
  <1>3. \A k \in 1..Len(N) : N[k] \in Nibbles
    BY ElementOfSeq
  <1>4. Len(N) \in Nat
    BY LenProperties
  <1>5. \A x \in Nibbles : x \in Nat /\ 1 <= x /\ x <= 16
    BY DEF Nibbles, NIBBLE
  <1>6. QED
    BY <1>2, <1>3, <1>4, <1>5 DEF Collected

\* The bytes of a group.
LEMMA GroupWritten ==
    ASSUME nibbles \in Seq(Nibbles), Len(nibbles) >= 3
    PROVE  /\ Pairs \in Nat /\ 1 <= Pairs /\ Pairs <= 4 /\ 2 * Pairs + 1 <= Len(nibbles)
           /\ Group(Pairs) \in Seq(Bytes) /\ Len(Group(Pairs)) = Pairs + 1
           /\ Group(Pairs)[1] = First(Pairs, nibbles[1])
           /\ \A i \in 1..Pairs :
                 Group(Pairs)[i + 1] = Pair(nibbles[2 * i], nibbles[2 * i + 1])
  <1> DEFINE n == Pairs
             L == Len(nibbles)
  <1>1. nibbles \in Seq(Int) /\ Collected(nibbles)
    BY NibblesCollected
  <1>2. n \in 1..4 /\ 2 * n + 1 <= L /\ Group(n) \in Seq(Int) /\ Len(Group(n)) = n + 1
    BY <1>1, GroupLength
  <1>3. L \in Nat /\ \A k \in 1..L : nibbles[k] \in Nat /\ 1 <= nibbles[k] /\ nibbles[k] <= 16
    BY <1>1 DEF Collected
  <1> HIDE DEF n, L
  <1>4. n \in Nat /\ 1 <= n /\ n <= 4
    BY <1>2
  <1>5. Group(n)[1] = First(n, nibbles[1])
    <2>1. 1 \in 1..(n + 1)
      BY <1>4
    <2>2. QED
      BY <2>1 DEF Group, First
  <1>6. ASSUME NEW i \in 1..n
        PROVE  Group(n)[i + 1] = Pair(nibbles[2 * i], nibbles[2 * i + 1])
    <2>1. i + 1 \in 1..(n + 1) /\ i + 1 # 1 /\ 2 * (i + 1) - 2 = 2 * i
          /\ 2 * (i + 1) - 1 = 2 * i + 1
      BY <1>4
    <2> DEFINE j == i + 1
    <2>2. j \in 1..(n + 1) /\ j # 1
      BY <2>1
    <2> HIDE DEF j
    <2>3. Group(n)[j] = (nibbles[2 * j - 2] - 1) * 16 + nibbles[2 * j - 1] - 1
      BY <2>2 DEF Group
    <2>4. 2 * j - 2 = 2 * i /\ 2 * j - 1 = 2 * i + 1
      BY <2>1 DEF j
    <2>5. Group(n)[j] = (nibbles[2 * i] - 1) * 16 + nibbles[2 * i + 1] - 1
      BY <2>3, <2>4
    <2>6. QED
      BY <2>5 DEF Pair, j
  <1>7. ASSUME NEW i \in 1..(n + 1)
        PROVE  Group(n)[i] \in Bytes
    <2>1. CASE i = 1
      <3>1. 1 \in 1..L
        BY <1>2, <1>3, <1>4
      <3>2. First(n, nibbles[1]) \in 128..191
        BY <1>3, <1>4, <3>1, FirstByte
      <3>3. QED
        BY <1>5, <2>1, <3>2 DEF Bytes
    <2>2. CASE i # 1
      <3> DEFINE j == i - 1
                 x == nibbles[2 * j]
                 y == nibbles[2 * j + 1]
      <3>1. j \in 1..n /\ i = j + 1 /\ 2 * j \in 1..L /\ 2 * j + 1 \in 1..L
        BY <1>2, <1>3, <1>4, <2>2
      <3>2. /\ x \in Nat /\ 1 <= x /\ x <= 16
            /\ y \in Nat /\ 1 <= y /\ y <= 16
        BY <1>3, <3>1
      <3>3. Group(n)[j + 1] = Pair(x, y)
        BY <1>6, <3>1
      <3> HIDE DEF j, x, y
      <3>4. Pair(x, y) \in 0..255
        BY <3>2, PairByte
      <3>5. QED
        BY <3>1, <3>3, <3>4 DEF Bytes
    <2>3. QED
      BY <2>1, <2>2
  <1>8. Group(n) \in Seq(Bytes)
    <2>1. DOMAIN Group(n) = 1..(n + 1) /\ Group(n) = [i \in 1..(n + 1) |-> Group(n)[i]]
      BY DEF Group
    <2>2. Group(n) \in [1..(n + 1) -> Bytes]
      BY <1>7, <2>1
    <2>3. n + 1 \in Nat
      BY <1>4
    <2>4. [1..(n + 1) -> Bytes] \in {[1..m -> Bytes] : m \in Nat}
      BY <2>3
    <2>5. Seq(Bytes) = UNION {[1..m -> Bytes] : m \in Nat}
      BY SeqDef
    <2>6. QED
      BY <2>2, <2>4, <2>5, Zenon
  <1>9. QED
    BY <1>2, <1>4, <1>5, <1>6, <1>8 DEF n, L

-----------------------------------------------------------------------------
(* The writer's part of the invariant. *)

\* the linker is at work
Writing == pc \in {"next", "diff", "wide", "end"}

\* where do_reloc will be when it has read what is written and collected
Here == IF pc \in {"next", "end"}
        THEN (IF current = 0 THEN FIRST ELSE current + POINTER)
        ELSE current - 2 * diff

\* the addresses a list may have, from the assumptions
Sound(R) ==
    /\ \A a \in R : a \in Nat /\ FIRST <= a /\ a <= 65532 /\ a % 2 = 0
    /\ \A a, b \in R : a < b => a + POINTER <= b

\* the types, with the bounds as inequalities
Typed ==
    /\ Sound(reloc)
    /\ pc \in {"next", "diff", "wide", "end", "load", "pairs", "done"}
    /\ Data \in Seq(Bytes) /\ nibbles \in Seq(Nibbles)
    /\ last \in Nat /\ last <= 65535 /\ diff \in Nat /\ diff <= 32767
    /\ (current = 0 \/ current \in reloc)

\* between two addresses: last is the word of Here, the end comes after all
AtNext == /\ pc \in {"next", "end"} => last = Here % 65536
          /\ pc = "end" => \A r \in reloc : r <= current

\* at an address: nothing is listed between Here and it
AtDiff ==
    pc \in {"diff", "wide"} =>
        /\ current \in reloc /\ Here \in Nat
        /\ \A r \in reloc : Here <= r /\ r < current + POINTER => r = current
        /\ GapFree(reloc) => diff # EXTENDED + BYTE

\* do_reloc has not begun
ToRead == a2 = 0 /\ a6 = FIRST /\ pairs = 0 /\ relocated = <<>>

\* the invariant while the linker writes
WriteInv ==
    Writing => /\ AtNext /\ AtDiff
               /\ Written(Data, reloc, nibbles, Here)
               /\ ToRead

\* The first state.
LEMMA InitWrites == Init => Typed /\ WriteInv
  <1> SUFFICES ASSUME Init PROVE Typed /\ WriteInv
    OBVIOUS
  <1>1. Sound(reloc)
    <2>1. reloc \in Relocs
      BY DEF Init
    <2>2. reloc \subseteq Nat
      BY <2>1, RelocsAssumption
    <2>3. /\ \A a \in reloc : FIRST <= a /\ a <= 65532 /\ a % 2 = 0
          /\ \A a, b \in reloc : a < b => a + POINTER <= b
      BY <2>1, LayoutAssumption
    <2>4. QED
      BY <2>2, <2>3 DEF Sound
  <1>2. <<>> \in Seq(Bytes) /\ <<>> \in Seq(Nibbles)
    BY EmptySeq
  <1>3. Typed
    BY <1>1, <1>2 DEF Init, Typed, FIRST
  <1>4. pc = "next" /\ Here = FIRST
    BY DEF Init, Here
  <1>5. AtNext /\ AtDiff /\ ToRead
    BY <1>4 DEF Init, AtNext, AtDiff, ToRead, FIRST
  <1>6. Written(Data, reloc, nibbles, Here)
    BY <1>4, WrittenFirst DEF Init
  <1>7. QED
    BY <1>3, <1>5, <1>6 DEF WriteInv

\* Two even addresses are a number of words apart.
LEMMA Words ==
    ASSUME NEW c \in Nat, NEW h \in Nat, h <= c, c % 2 = 0, h % 2 = 0
    PROVE  (c - h) \div 2 \in Nat /\ c - 2 * ((c - h) \div 2) = h
  <1> DEFINE u == c \div 2
             v == h \div 2
  <1>1. \A z \in Nat : z \div 2 \in Nat /\ z = 2 * (z \div 2) + (z % 2)
    OBVIOUS
  <1>2. u \in Nat /\ v \in Nat /\ c = 2 * u /\ h = 2 * v
    BY <1>1
  <1> HIDE DEF u, v
  <1>3. (c - h) \div 2 = u - v
    <2>1. c - h = 2 * (u - v)
      BY <1>2
    <2>2. \A z \in Int : (2 * z) \div 2 = z
      OBVIOUS
    <2>3. QED
      BY <1>2, <2>1, <2>2
  <1>4. QED
    BY <1>2, <1>3

\* What follows the last address of the list.
LEMMA NextStep == Typed /\ WriteInv /\ NextReloc => Typed' /\ WriteInv'
  <1> SUFFICES ASSUME Typed, WriteInv, NextReloc PROVE Typed' /\ WriteInv'
    OBVIOUS
  <1>1. /\ pc = "next" /\ pc' = "diff" /\ Above # {}
        /\ current' = CHOOSE a \in Above : \A b \in Above : a <= b
        /\ diff' = (current' - last) \div 2
        /\ UNCHANGED <<reloc, Data, nibbles, last, reader>>
    BY DEF NextReloc
  <1>a. /\ \A a \in reloc : a \in Nat /\ FIRST <= a /\ a <= 65532 /\ a % 2 = 0
        /\ \A a, b \in reloc : a < b => a + POINTER <= b
        /\ current = 0 \/ current \in reloc
    <2>1. Sound(reloc) /\ (current = 0 \/ current \in reloc)
      BY DEF Typed
    <2>2. QED
      BY <2>1 DEF Sound
  <1>b. \A a \in reloc : a \in Nat
    BY <1>a
  <1>2. Above \subseteq reloc /\ Above \subseteq Nat
    BY <1>b DEF Above
  <1>3. current' \in Above /\ \A b \in Above : current' <= b
    BY <1>1, <1>2, LeastExists
  <1>4. PICK c : c = current'
    OBVIOUS
  <1>c. /\ c \in reloc /\ c > current
        /\ \A r \in reloc : r > current => c <= r
    BY <1>3, <1>4 DEF Above
  <1>5. /\ c \in Nat /\ c \in reloc /\ FIRST <= c /\ c <= 65532 /\ c % 2 = 0
        /\ c > current /\ \A r \in reloc : r > current => c <= r
        /\ \A r \in reloc : c < r => c + POINTER <= r
        /\ \A r \in reloc : r \in Nat /\ FIRST <= r
    BY <1>a, <1>c
  <1>6. /\ current \in Nat /\ (current = 0 \/ current \in reloc)
        /\ current # 0 => FIRST <= current /\ current % 2 = 0 /\ current + POINTER <= c
    BY <1>a, <1>c
  <1> DEFINE h == Here
  <1>7. h = (IF current = 0 THEN FIRST ELSE current + POINTER) /\ last = h % 65536
    BY <1>1 DEF Here, WriteInv, Writing, AtNext
  <1>8. Written(Data, reloc, nibbles, h) /\ ToRead
    BY <1>1 DEF WriteInv, Writing
  <1> HIDE DEF h
  <1>9. h \in Nat /\ h <= c /\ h % 2 = 0 /\ h >= 24
    BY <1>5, <1>6, <1>7 DEF FIRST, POINTER
  <1>10. last = h
    BY <1>5, <1>7, <1>9
  <1>11. PICK d : d = diff'
    OBVIOUS
  <1>12. d = (c - h) \div 2
    BY <1>1, <1>4, <1>10, <1>11
  <1>13. d \in Nat /\ d <= 32767 /\ c - 2 * d = h
    <2>1. d \in Nat /\ c - 2 * d = h
      BY <1>5, <1>9, <1>12, Words
    <2>2. QED
      BY <1>5, <1>9, <2>1
  <1>14. Here' = h
    <2>1. Here' = current' - 2 * diff'
      BY <1>1 DEF Here
    <2>2. QED
      BY <1>4, <1>11, <1>13, <2>1
  <1>15. ASSUME NEW r \in reloc, h <= r, r < c + POINTER PROVE r = c
    <2>1. r > current
      BY <1>5, <1>6, <1>7, <1>15 DEF FIRST, POINTER
    <2>2. c <= r /\ r \in Nat
      BY <1>5, <2>1
    <2>3. QED
      BY <1>5, <1>15, <2>2 DEF POINTER
  <1>16. GapFree(reloc) => d # EXTENDED + BYTE
    <2> SUFFICES ASSUME GapFree(reloc), d = EXTENDED + BYTE PROVE FALSE
      OBVIOUS
    <2> DEFINE a == IF current = 0 THEN FIRST - POINTER ELSE current
    <2>1. a \in reloc \cup {FIRST - POINTER} /\ a + POINTER = h
      BY <1>6, <1>7 DEF FIRST, POINTER
    <2> HIDE DEF a
    <2>2. c = h + LOST
      BY <1>5, <1>9, <1>13 DEF LOST, EXTENDED, BYTE
    <2>3. a + POINTER + LOST = c
      BY <2>1, <2>2
    <2>4. PICK e \in reloc : a < e /\ e < c
      BY <1>5, <2>1, <2>3 DEF GapFree
    <2>5. e > current
      BY <1>5, <1>6, <2>4 DEF a, FIRST, POINTER
    <2>6. QED
      BY <1>5, <2>4, <2>5
  <1>17. Typed'
    <2>1. reloc' = reloc /\ Data' = Data /\ nibbles' = nibbles /\ last' = last /\ pc' = "diff"
      BY <1>1
    <2>2. current' \in reloc' /\ diff' \in Nat /\ diff' <= 32767
      BY <1>c, <1>4, <1>11, <1>13, <2>1
    <2>3. Sound(reloc') /\ Data' \in Seq(Bytes) /\ nibbles' \in Seq(Nibbles)
          /\ last' \in Nat /\ last' <= 65535
      BY <2>1 DEF Typed
    <2>4. QED
      BY <2>1, <2>2, <2>3 DEF Typed
  <1>18. AtNext'
    BY <1>1 DEF AtNext
  <1>19. AtDiff'
    BY <1>1, <1>4, <1>5, <1>9, <1>11, <1>14, <1>15, <1>16 DEF AtDiff
  <1>20. Written(Data', reloc', nibbles', Here') /\ ToRead'
    BY <1>1, <1>8, <1>14 DEF ToRead, reader
  <1>21. QED
    BY <1>17, <1>18, <1>19, <1>20 DEF WriteInv

-----------------------------------------------------------------------------
\* Between two addresses the reader is diff words before current.
LEMMA OnTheWay ==
    ASSUME Typed, WriteInv, pc \in {"diff", "wide"}
    PROVE  /\ current \in Nat /\ current >= 24 /\ current # 0
           /\ diff \in Nat /\ diff <= 32767
           /\ Here \in Nat /\ Here + 2 * diff = current
           /\ Hits(reloc, Here, current)
           /\ \A r \in reloc : r \in Nat
           /\ Written(Data, reloc, nibbles, Here) /\ ToRead
  <1>1. AtDiff /\ Written(Data, reloc, nibbles, Here) /\ ToRead
    BY DEF WriteInv, Writing
  <1>2. /\ current \in reloc /\ Here \in Nat
        /\ \A r \in reloc : Here <= r /\ r < current + POINTER => r = current
    BY <1>1 DEF AtDiff
  <1>3. Sound(reloc) /\ diff \in Nat /\ diff <= 32767
    BY DEF Typed
  <1>4. \A a \in reloc : a \in Nat /\ FIRST <= a
    BY <1>3 DEF Sound
  <1>5. current \in Nat /\ current >= 24 /\ current # 0
    BY <1>2, <1>4 DEF FIRST
  <1>6. Here = current - 2 * diff
    BY DEF Here
  <1>7. Here + 2 * diff = current
    BY <1>2, <1>3, <1>5, <1>6
  <1>8. QED
    BY <1>1, <1>2, <1>3, <1>4, <1>5, <1>7 DEF Hits

\* After an address is dumped the reader is behind it.
LEMMA Behind ==
    ASSUME Typed, WriteInv, pc \in {"diff", "wide"}, Dumped, reloc' = reloc,
           current' = current, diff' \in Nat, diff' <= 32767,
           Data' \in Seq(Bytes), nibbles' \in Seq(Nibbles), UNCHANGED reader,
           Written(Data', reloc, nibbles', current + POINTER)
    PROVE  Typed' /\ WriteInv'
  <1>1. /\ current \in Nat /\ current # 0 /\ ToRead
    BY OnTheWay
  <1>2. pc' = "next" /\ last' = (current + POINTER) % 65536
    BY DEF Dumped
  <1>3. Here' = current + POINTER
    BY <1>1, <1>2 DEF Here
  <1>4. last' \in Nat /\ last' <= 65535
    BY <1>1, <1>2 DEF POINTER
  <1>5. Sound(reloc') /\ (current' = 0 \/ current' \in reloc')
    BY DEF Typed
  <1>6. Typed'
    BY <1>2, <1>4, <1>5 DEF Typed
  <1>7. AtNext' /\ AtDiff'
    BY <1>2, <1>3 DEF AtNext, AtDiff
  <1>8. Written(Data', reloc', nibbles', Here') /\ ToRead'
    BY <1>1, <1>3 DEF ToRead, reader
  <1>9. QED
    BY <1>6, <1>7, <1>8 DEF WriteInv

\* A short distance is one more nibble collected.
LEMMA NibbleStays == Typed /\ WriteInv /\ DumpNibble => Typed' /\ WriteInv'
  <1> SUFFICES ASSUME Typed, WriteInv, DumpNibble PROVE Typed' /\ WriteInv'
    OBVIOUS
  <1> DEFINE h == Here
             x == diff + 1
  <1>1. /\ pc = "diff" /\ diff < 16 /\ nibbles' = Append(nibbles, x) /\ Dumped
        /\ UNCHANGED <<reloc, Data, current, diff, reader>>
    BY DEF DumpNibble, NIBBLE
  <1>2. /\ current \in Nat /\ diff \in Nat /\ diff <= 32767 /\ h \in Nat /\ h + 2 * diff = current
        /\ Hits(reloc, h, current) /\ Written(Data, reloc, nibbles, h)
    BY <1>1, OnTheWay
  <1>3. nibbles \in Seq(Nibbles) /\ Data \in Seq(Bytes)
    BY DEF Typed
  <1> HIDE DEF h
  <1>4. x \in Nat /\ 1 <= x /\ x <= 16 /\ x - 1 = diff
    BY <1>1, <1>2
  <1>5. x \in Nibbles
    BY <1>4 DEF Nibbles, NIBBLE
  <1>6. h + 2 * (x - 1) = current
    BY <1>2, <1>4
  <1> HIDE DEF x
  <1>7. nibbles' \in Seq(Nibbles)
    BY <1>1, <1>3, <1>5, AppendProperties
  <1>8. Written(Data, reloc, Append(nibbles, x), h + 2 * (x - 1) + POINTER)
    <2>1. Hits(reloc, h, h + 2 * (x - 1))
      BY <1>2, <1>6
    <2>2. /\ nibbles \in Seq(Nibbles) /\ h \in Nat /\ x \in Nibbles /\ x \in Nat /\ 1 <= x
          /\ Written(Data, reloc, nibbles, h)
      BY <1>2, <1>3, <1>4, <1>5
    <2>3. QED
      BY <2>1, <2>2, WrittenNibble
  <1>9. Written(Data', reloc, nibbles', current + POINTER)
    BY <1>1, <1>6, <1>8
  <1>10. pc \in {"diff", "wide"} /\ Data' \in Seq(Bytes) /\ diff' \in Nat /\ diff' <= 32767
    BY <1>1, <1>2, <1>3
  <1>11. QED
    BY <1>1, <1>7, <1>9, <1>10, Behind

\* The reader's place does not change while nibbles are written.
LEMMA HereStays ==
    ASSUME Typed, WriteInv, Writing, UNCHANGED <<reloc, last, current, diff, reader>>,
           \/ pc' = pc
           \/ pc = "diff" /\ pc' = "wide"
           \/ pc = "next" /\ pc' = "end" /\ Above = {},
           Data' \in Seq(Bytes), nibbles' \in Seq(Nibbles),
           Written(Data', reloc, nibbles', Here)
    PROVE  Typed' /\ WriteInv'
  <1>1. AtNext /\ AtDiff /\ ToRead
    BY DEF WriteInv
  <1>2. Here' = Here
    BY DEF Here
  <1>3. pc' \in {"next", "diff", "wide", "end", "load", "pairs", "done"}
    BY DEF Typed
  <1>4. Typed'
    BY <1>3 DEF Typed
  <1>5. \A r \in reloc : r \in Nat
    BY DEF Typed, Sound
  <1>6. current \in Nat
    BY <1>5 DEF Typed
  <1>7. Above = {} => \A r \in reloc : r <= current
    BY <1>5, <1>6 DEF Above
  <1>8. AtNext'
    BY <1>1, <1>2, <1>7 DEF AtNext
  <1>9. AtDiff'
    BY <1>1, <1>2 DEF AtDiff
  <1>10. Written(Data', reloc', nibbles', Here') /\ ToRead'
    BY <1>1, <1>2 DEF ToRead, reader
  <1>11. QED
    BY <1>4, <1>8, <1>9, <1>10 DEF WriteInv

\* DoNibbles takes back what pass 1 counted, no more.
LEMMA NibblesStay == Typed /\ WriteInv /\ DoNibbles => Typed' /\ WriteInv'
  <1> SUFFICES ASSUME Typed, WriteInv, DoNibbles PROVE Typed' /\ WriteInv'
    OBVIOUS
  <1>1. Writing /\ Data \in Seq(Bytes) /\ nibbles \in Seq(Nibbles)
    BY DEF DoNibbles, Writing, Typed
  <1>2. Written(Data, reloc, nibbles, Here)
    BY <1>1 DEF WriteInv
  <1>3. UNCHANGED <<reloc, Data, nibbles, last, current, diff, reader>>
    BY DEF DoNibbles
  <1>4. \/ pc = "diff" /\ pc' = "wide"
        \/ pc = "next" /\ pc' = "end" /\ Above = {}
    BY DEF DoNibbles
  <1>5. QED
    BY <1>1, <1>2, <1>3, <1>4, HereStays

\* A group written is a step for its first byte and one for each pair.
LEMMA GroupStays == Typed /\ WriteInv /\ PackGroup => Typed' /\ WriteInv'
  <1> SUFFICES ASSUME Typed, WriteInv, PackGroup PROVE Typed' /\ WriteInv'
    OBVIOUS
  <1> DEFINE n == Pairs
             E == Group(Pairs)
             M == SubSeq(nibbles, 2 * n + 2, Len(nibbles))
             L == Len(nibbles)
  <1>1. /\ pc \in {"wide", "end"} /\ L >= 3 /\ Data' = Data \o E /\ nibbles' = M
        /\ UNCHANGED <<reloc, pc, last, current, diff, reader>>
    BY DEF PackGroup, Packing
  <1>2. Data \in Seq(Bytes) /\ nibbles \in Seq(Nibbles)
    BY DEF Typed
  <1>3. Writing /\ Written(Data, reloc, nibbles, Here)
    BY <1>1 DEF WriteInv, Writing
  <1>4. Collected(nibbles) /\ L \in Nat
    BY <1>2, NibblesCollected DEF Collected
  <1>5. /\ n \in Nat /\ 1 <= n /\ n <= 4 /\ 2 * n + 1 <= L
        /\ E \in Seq(Bytes) /\ Len(E) = n + 1 /\ E[1] = First(n, nibbles[1])
        /\ \A i \in 1..n : E[i + 1] = Pair(nibbles[2 * i], nibbles[2 * i + 1])
    BY <1>1, <1>2, GroupWritten
  <1> HIDE DEF n, E
  <1>6. /\ M \in Seq(Nibbles) /\ Len(M) = L - (2 * n + 1)
        /\ \A k \in 1..Len(M) : M[k] = nibbles[k + (2 * n + 1)]
    <2> DEFINE s == 2 * n + 2
    <2>1. s \in Int /\ L \in Int /\ 1 <= s /\ s <= L + 1
      BY <1>4, <1>5
    <2>2. \A i \in 1..L : nibbles[i] \in Nibbles
      BY <1>2, ElementOfSeq
    <2>3. \A i \in s..L : nibbles[i] \in Nibbles
      BY <2>1, <2>2
    <2> HIDE DEF s, L
    <2>4. /\ SubSeq(nibbles, s, L) \in Seq(Nibbles)
          /\ Len(SubSeq(nibbles, s, L)) = IF s <= L THEN L - s + 1 ELSE 0
          /\ \A i \in 1..(L - s + 1) : SubSeq(nibbles, s, L)[i] = nibbles[s + i - 1]
      BY <2>1, <2>3, SubSeqProperties
    <2> DEFINE K == SubSeq(nibbles, s, L)
    <2> HIDE DEF K
    <2>5. /\ K \in Seq(Nibbles)
          /\ Len(K) = IF s <= L THEN L - s + 1 ELSE 0
          /\ \A i \in 1..(L - s + 1) : K[i] = nibbles[s + i - 1]
      BY <2>4 DEF K
    <2>6. Len(K) = L - s + 1
      BY <2>1, <2>5
    <2>7. L - s + 1 = L - (2 * n + 1) /\ \A k \in Int : s + k - 1 = k + (2 * n + 1)
      BY <1>5, <2>1 DEF s
    <2>8. K \in Seq(Nibbles) /\ Len(K) = L - (2 * n + 1)
      BY <2>5, <2>6, <2>7
    <2>9. ASSUME NEW k \in 1..Len(K) PROVE K[k] = nibbles[k + (2 * n + 1)]
      <3>1. k \in 1..(L - s + 1)
        BY <2>6
      <3>2. K[k] = nibbles[s + k - 1]
        BY <2>5, <3>1
      <3>3. s + k - 1 = k + (2 * n + 1)
        BY <2>7
      <3>4. QED
        BY <3>2, <3>3
    <2>10. M = K
      BY DEF K, L, s
    <2>11. QED
      BY <2>8, <2>9, <2>10
  <1> HIDE DEF M, L
  <1>7. Longer(Data, E, Data')
    BY <1>1, <1>2, <1>5, Joined
  <1>8. /\ n \in Nat /\ 1 <= n /\ n <= 4 /\ 2 * n + 1 <= Len(nibbles)
        /\ Len(E) = n + 1 /\ E[1] = First(n, nibbles[1])
        /\ \A i \in 1..n : E[i + 1] = Pair(nibbles[2 * i], nibbles[2 * i + 1])
        /\ Len(M) = Len(nibbles) - (2 * n + 1)
        /\ \A k \in 1..Len(M) : M[k] = nibbles[k + (2 * n + 1)]
    BY <1>5, <1>6 DEF L
  <1>9. Written(Data', reloc, M, Here)
    <2> DEFINE W == Data'
               h == Here
    <2>1. Longer(Data, E, W) /\ Collected(nibbles) /\ Written(Data, reloc, nibbles, h)
      BY <1>3, <1>4, <1>7
    <2> HIDE DEF W, h
    <2>2. Written(W, reloc, M, h)
      BY <1>8, <2>1, WrittenGroup
    <2>3. QED
      BY <2>2 DEF W, h
  <1>10. Data' \in Seq(Bytes)
    BY <1>7 DEF Longer
  <1>11. QED
    BY <1>1, <1>3, <1>6, <1>9, <1>10, HereStays

\* One or two nibbles left over are bytes with short distances.
LEMMA RestStays == Typed /\ WriteInv /\ PackRest => Typed' /\ WriteInv'
  <1> SUFFICES ASSUME Typed, WriteInv, PackRest PROVE Typed' /\ WriteInv'
    OBVIOUS
  <1>1. /\ pc \in {"wide", "end"} /\ nibbles # <<>> /\ Data' = Data \o nibbles /\ nibbles' = <<>>
        /\ UNCHANGED <<reloc, pc, last, current, diff, reader>>
    BY DEF PackRest, Packing
  <1>2. Data \in Seq(Bytes) /\ nibbles \in Seq(Nibbles)
    BY DEF Typed
  <1>3. Writing /\ Written(Data, reloc, nibbles, Here)
    BY <1>1 DEF WriteInv, Writing
  <1>4. Collected(nibbles) /\ nibbles \in Seq(Bytes)
    BY <1>2, NibblesCollected
  <1>5. Len(nibbles) >= 1
    BY <1>1, <1>2, EmptySeq
  <1>6. Longer(Data, nibbles, Data')
    BY <1>1, <1>2, <1>4, Joined
  <1>7. Written(Data', reloc, <<>>, Here)
    BY <1>3, <1>4, <1>5, <1>6, WrittenRest
  <1>8. Data' \in Seq(Bytes) /\ nibbles' \in Seq(Nibbles)
    BY <1>1, <1>6, EmptySeq DEF Longer
  <1>9. QED
    BY <1>1, <1>3, <1>7, <1>8, HereStays

-----------------------------------------------------------------------------
\* One byte, two bytes.
LEMMA Short ==
    ASSUME NEW b \in Bytes, NEW c \in Bytes
    PROVE  /\ <<b>> \in Seq(Bytes) /\ Len(<<b>>) = 1 /\ <<b>>[1] = b
           /\ <<b, c>> \in Seq(Bytes) /\ Len(<<b, c>>) = 2
           /\ <<b, c>>[1] = b /\ <<b, c>>[2] = c
  OBVIOUS

\* A distance below 127 is a step by a byte.
LEMMA ByteStays == Typed /\ WriteInv /\ DumpByte => Typed' /\ WriteInv'
  <1> SUFFICES ASSUME Typed, WriteInv, DumpByte PROVE Typed' /\ WriteInv'
    OBVIOUS
  <1> DEFINE h == Here
             E == <<diff + 1>>
  <1>1. /\ pc = "wide" /\ nibbles = <<>> /\ nibbles' = nibbles /\ diff < 127
        /\ Data' = Data \o E /\ Dumped
        /\ UNCHANGED <<reloc, current, diff, reader>>
    BY DEF DumpByte, Writes, BYTE
  <1>2. /\ current \in Nat /\ diff \in Nat /\ diff <= 32767 /\ h \in Nat /\ h + 2 * diff = current
        /\ Hits(reloc, h, current) /\ Written(Data, reloc, nibbles, h)
    BY <1>1, OnTheWay
  <1>3. nibbles \in Seq(Nibbles) /\ Data \in Seq(Bytes)
    BY DEF Typed
  <1>4. diff + 1 \in Bytes /\ diff <= 126
    BY <1>1, <1>2 DEF Bytes
  <1>5. E \in Seq(Bytes) /\ Len(E) = 1 /\ E[1] = diff + 1
    BY <1>4, Short
  <1> HIDE DEF h, E
  <1>6. Longer(Data, E, Data')
    BY <1>1, <1>3, <1>5, Joined
  <1>7. Hits(reloc, h, h + 2 * diff)
    BY <1>2
  <1>8. Written(Data', reloc, <<>>, h + 2 * diff + POINTER)
    <2> DEFINE W == Data'
               d == diff
    <2>1. /\ Longer(Data, E, W) /\ d \in Nat /\ d <= 126 /\ Len(E) = 1 /\ E[1] = d + 1
          /\ Hits(reloc, h, h + 2 * d) /\ h \in Nat /\ Written(Data, reloc, <<>>, h)
      BY <1>1, <1>2, <1>4, <1>5, <1>6, <1>7
    <2> HIDE DEF W, d
    <2>2. Written(W, reloc, <<>>, h + 2 * d + POINTER)
      BY <2>1, WrittenByte
    <2>3. QED
      BY <2>2 DEF W, d
  <1>9. Written(Data', reloc, nibbles', current + POINTER)
    BY <1>1, <1>2, <1>8
  <1>10. /\ pc \in {"diff", "wide"} /\ Data' \in Seq(Bytes) /\ nibbles' \in Seq(Nibbles)
         /\ diff' \in Nat /\ diff' <= 32767
    BY <1>1, <1>2, <1>3, <1>6 DEF Longer
  <1>11. QED
    BY <1>1, <1>9, <1>10, Behind

\* One that fits a word is a step by a word, unless it is the one lost.
LEMMA WordStays == Typed /\ WriteInv /\ DumpWord => Typed' /\ WriteInv'
  <1> SUFFICES ASSUME Typed, WriteInv, DumpWord PROVE Typed' /\ WriteInv'
    OBVIOUS
  <1> DEFINE h == Here
             x == diff - 127
             E == <<High(x), Low(x)>>
  <1>a. /\ pc = "wide" /\ nibbles = <<>> /\ nibbles' = nibbles
        /\ diff >= 127 /\ diff - 127 <= 16383 /\ diff' = diff - 127 /\ Dumped
        /\ UNCHANGED <<reloc, current, reader>>
    BY DEF DumpWord, Writes, BYTE, EXTENDED
  <1> DEFINE w == 49152 + diff - BYTE
  <1>b. Data' = Data \o <<w \div 256, w % 256>>
    BY DEF DumpWord, Writes
  <1>2. /\ current \in Nat /\ diff \in Nat /\ diff <= 32767 /\ h \in Nat /\ h + 2 * diff = current
        /\ Hits(reloc, h, current) /\ Written(Data, reloc, nibbles, h)
    BY <1>a, OnTheWay
  <1>3. nibbles \in Seq(Nibbles) /\ Data \in Seq(Bytes)
    BY DEF Typed
  <1>c. w = 49152 + x
    BY <1>2 DEF BYTE
  <1> HIDE DEF w, x
  <1>f. w \div 256 = High(x) /\ w % 256 = Low(x)
    BY <1>c DEF High, Low
  <1>1. Data' = Data \o E
    BY <1>b, <1>f
  <1> USE DEF x
  <1>4. x \in Nat /\ x <= 16383 /\ x + BYTE = diff
    BY <1>a, <1>2 DEF BYTE
  <1>d. GapFree(reloc) => x # EXTENDED
    <2>1. GapFree(reloc) => diff # EXTENDED + BYTE
      BY <1>a DEF WriteInv, Writing, AtDiff
    <2>2. QED
      BY <1>2, <1>4, <2>1 DEF EXTENDED, BYTE
  <1> HIDE DEF h, x, E
  <1>e. High(x) \in Bytes /\ Low(x) \in Bytes
    <2>1. High(x) \in 192..255 /\ Low(x) \in 0..255
      BY <1>4, WordBytes
    <2>2. QED
      BY <2>1 DEF Bytes
  <1>5. E \in Seq(Bytes) /\ Len(E) = 2 /\ E[1] = High(x) /\ E[2] = Low(x)
    BY <1>e, Short DEF E
  <1>6. Longer(Data, E, Data')
    BY <1>1, <1>3, <1>5, Joined
  <1>7. Hits(reloc, h, h + 2 * (x + BYTE))
    BY <1>2, <1>4
  <1>8. Written(Data', reloc, <<>>, h + 2 * (x + BYTE) + POINTER)
    <2> DEFINE W == Data'
    <2>1. /\ Longer(Data, E, W) /\ x \in Nat
          /\ Len(E) = 2 /\ E[1] = High(x) /\ E[2] = Low(x)
          /\ Hits(reloc, h, h + 2 * (x + BYTE)) /\ h \in Nat /\ Written(Data, reloc, <<>>, h)
      BY <1>a, <1>2, <1>4, <1>5, <1>6, <1>7
    <2> HIDE DEF W
    <2>a. x <= EXTENDED
      BY <1>4 DEF EXTENDED
    <2>2. Written(W, reloc, <<>>, h + 2 * (x + BYTE) + POINTER)
      BY <1>d, <2>1, <2>a, WrittenWord
    <2>3. QED
      BY <2>2 DEF W
  <1>9. Written(Data', reloc, nibbles', current + POINTER)
    BY <1>a, <1>2, <1>4, <1>8
  <1>10. /\ pc \in {"diff", "wide"} /\ Data' \in Seq(Bytes) /\ nibbles' \in Seq(Nibbles)
         /\ diff' \in Nat /\ diff' <= 32767
    BY <1>a, <1>2, <1>3, <1>6 DEF Longer
  <1>11. QED
    BY <1>a, <1>9, <1>10, Behind

\* A longer one begins with a step that changes nothing and misses nothing.
LEMMA ExtensionStays == Typed /\ WriteInv /\ DumpExtension => Typed' /\ WriteInv'
  <1> SUFFICES ASSUME Typed, WriteInv, DumpExtension PROVE Typed' /\ WriteInv'
    OBVIOUS
  <1> DEFINE h == Here
             E == <<255, 255>>
             t == h + 2 * (EXTENDED + BYTE)
  <1>1. /\ pc = "wide" /\ nibbles = <<>> /\ nibbles' = nibbles
        /\ diff - 127 > 16383 /\ diff' = diff - 127 - 16383 /\ pc' = "diff"
        /\ Data' = Data \o E
        /\ UNCHANGED <<reloc, current, last, reader>>
    BY DEF DumpExtension, Writes, BYTE, EXTENDED
  <1>2. /\ current \in Nat /\ diff \in Nat /\ diff <= 32767 /\ h \in Nat /\ h + 2 * diff = current
        /\ Written(Data, reloc, nibbles, h) /\ ToRead /\ \A r \in reloc : r \in Nat
    BY <1>1, OnTheWay
  <1>3. /\ current \in reloc
        /\ \A r \in reloc : h <= r /\ r < current + POINTER => r = current
    BY <1>1 DEF WriteInv, Writing, AtDiff
  <1>4. nibbles \in Seq(Nibbles) /\ Data \in Seq(Bytes)
    BY DEF Typed
  <1>5. E \in Seq(Bytes) /\ Len(E) = 2 /\ E[1] = 255 /\ E[2] = 255
    <2>1. 255 \in Bytes
      BY DEF Bytes
    <2>2. QED
      BY <2>1, Short
  <1> HIDE DEF h, E
  <1>6. Longer(Data, E, Data')
    BY <1>1, <1>4, <1>5, Joined
  <1>7. diff' \in Nat /\ diff' <= 32767 - 16510 /\ t \in Nat /\ t + 2 * diff' = current
    BY <1>1, <1>2 DEF EXTENDED, BYTE
  <1>8. Here' = t
    <2>1. Here' = current - 2 * diff'
      BY <1>1 DEF Here
    <2>2. QED
      BY <1>2, <1>7, <2>1
  <1>9. h <= t
    BY <1>2 DEF EXTENDED, BYTE
  <1> HIDE DEF t
  <1>10. ASSUME NEW r \in reloc, h <= r, r < t PROVE FALSE
    <2>a. r \in Nat
      BY <1>2
    <2>b. t <= current
      BY <1>7
    <2>1. r \in Nat /\ t <= current
      BY <2>a, <2>b
    <2>2. r < current + POINTER
      BY <1>2, <1>7, <1>10, <2>1 DEF POINTER
    <2>3. r = current
      BY <1>3, <1>10, <2>2
    <2>4. QED
      BY <1>2, <1>7, <1>10, <2>1, <2>3
  <1>11. Misses(reloc, h, t)
    BY <1>10 DEF Misses
  <1>12. Written(Data', reloc, <<>>, t)
    <2> DEFINE W == Data'
    <2>1. /\ Longer(Data, E, W) /\ Len(E) = 2 /\ E[1] = 255 /\ E[2] = 255
          /\ Misses(reloc, h, h + 2 * (EXTENDED + BYTE))
          /\ h \in Nat /\ Written(Data, reloc, <<>>, h)
      BY <1>1, <1>2, <1>5, <1>6, <1>11 DEF t
    <2> HIDE DEF W
    <2>2. Written(W, reloc, <<>>, h + 2 * (EXTENDED + BYTE))
      BY <2>1, WrittenEscape
    <2>3. QED
      BY <2>2 DEF W, t
  <1>13. Typed'
    <2>1. /\ Sound(reloc') /\ (current' = 0 \/ current' \in reloc')
          /\ last' \in Nat /\ last' <= 65535
      BY <1>1 DEF Typed
    <2>2. Data' \in Seq(Bytes)
      BY <1>6 DEF Longer
    <2>3. diff' \in Nat /\ diff' <= 32767
      BY <1>7
    <2>4. QED
      BY <1>1, <1>4, <2>1, <2>2, <2>3 DEF Typed
  <1>14. AtNext'
    BY <1>1 DEF AtNext
  <1>15. AtDiff'
    <2>1. diff' # EXTENDED + BYTE
      BY <1>7 DEF EXTENDED, BYTE
    <2>2. ASSUME NEW r \in reloc, t <= r, r < current + POINTER PROVE r = current
      <3>1. h <= r
        BY <1>2, <1>7, <1>9, <2>2
      <3>2. QED
        BY <1>3, <2>2, <3>1
    <2>3. reloc' = reloc /\ current' = current
      BY <1>1
    <2>4. QED
      BY <1>3, <1>7, <1>8, <2>1, <2>2, <2>3 DEF AtDiff
  <1>16. Written(Data', reloc', nibbles', Here') /\ ToRead'
    BY <1>1, <1>2, <1>8, <1>12 DEF ToRead, reader
  <1>17. QED
    BY <1>13, <1>14, <1>15, <1>16 DEF WriteInv

-----------------------------------------------------------------------------
(* The reader. *)

\* A path ends at the byte that ends the table, behind every address.
Ends(D, R, e) ==
    /\ e.left = 0 /\ e.pos + 1 = Len(D) /\ D[e.pos + 1] = 0
    /\ GapFree(R) => \A r \in R : r < e.at

\* the mark of do_reloc's registers
At(a, p, l) == [pos |-> a, at |-> p, left |-> l]

\* do_reloc is on a path through the table.
Marked(D, R, m) ==
    /\ m \in Mark
    /\ \E P, e : Path(D, R, P, e) /\ m \in P /\ Ends(D, R, e)

\* It is at the end, or its next step is on the path.
LEMMA MarkedSteps ==
    ASSUME NEW D, NEW R, NEW m, Marked(D, R, m)
    PROVE  Ends(D, R, m) \/ \E k : ReadStep(D, R, m, k) /\ Marked(D, R, k)
  <1>1. PICK P, e : Path(D, R, P, e) /\ m \in P /\ Ends(D, R, e)
    BY DEF Marked
  <1>2. CASE m = e
    BY <1>1, <1>2
  <1>3. CASE m # e
    <2>1. PICK k \in P : ReadStep(D, R, m, k)
      BY <1>1, <1>3 DEF Path
    <2>2. k \in Mark
      BY <1>1 DEF Path
    <2>3. Marked(D, R, k)
      BY <1>1, <2>2 DEF Marked
    <2>4. QED
      BY <2>1, <2>3
  <1>4. QED
    BY <1>2, <1>3

\* When the writer is done there is a path from the first byte.
LEMMA MarkedFirst ==
    ASSUME NEW D, NEW E, NEW W, Longer(D, E, W), NEW R, NEW h \in Nat,
           Len(E) = 1, E[1] = 0, Written(D, R, <<>>, h), \A r \in R : r < h
    PROVE  Marked(W, R, Start)
  <1>1. PICK P, A :
        /\ A \in [0..Len(<<>>) -> Nat]
        /\ Path(D, R, P, [pos |-> Len(D), at |-> A[0], left |-> 0])
        /\ GapFree(R) => A[Len(<<>>)] = h
    BY DEF Written
  <1> DEFINE e == [pos |-> Len(D), at |-> A[0], left |-> 0]
  <1>2. Len(<<>>) = 0
    BY EmptySeq
  <1>3. /\ Len(D) \in Nat /\ Len(W) = Len(D) + 1 /\ W[Len(D) + 1] = 0
    BY LenProperties DEF Longer
  <1>4. Ends(W, R, e)
    <2>1. e.left = 0 /\ e.pos = Len(D) /\ e.at = A[0]
      OBVIOUS
    <2>2. GapFree(R) => \A r \in R : r < e.at
      BY <1>1, <1>2, <2>1
    <2>3. QED
      BY <1>3, <2>1, <2>2 DEF Ends
  <1>5. ASSUME NEW m \in P, m # e PROVE \E k \in P : ReadStep(W, R, m, k)
    <2>1. PICK k \in P : ReadStep(D, R, m, k)
      BY <1>1, <1>5 DEF Path
    <2>2. m \in Mark
      BY <1>1 DEF Path
    <2>3. ReadStep(W, R, m, k)
      BY <2>1, <2>2, StepGrows
    <2>4. QED
      BY <2>3
  <1>6. P \subseteq Mark /\ Start \in P /\ e \in P
    BY <1>1 DEF Path
  <1> HIDE DEF e
  <1>7. Path(W, R, P, e)
    BY <1>5, <1>6 DEF Path
  <1>8. QED
    BY <1>4, <1>6, <1>7 DEF Marked

\* T is S and one more address.
Follows(S, T, a) ==
    /\ S \in Seq(Nat) /\ T \in Seq(Nat) /\ Len(T) = Len(S) + 1
    /\ \A i \in 1..Len(S) : T[i] = S[i]
    /\ T[Len(S) + 1] = a

\* Of the addresses listed those before p have been changed, in order.
SoFar(R, S, p) ==
    GapFree(R) =>
        /\ \A i \in 1..Len(S) : /\ S[i] \in R /\ S[i] + POINTER <= p
                                /\ i > 1 => S[i - 1] < S[i]
        /\ \A r \in R : r < p => \E i \in 1..Len(S) : S[i] = r

\* A step that hits the next address listed adds it to those changed.
LEMMA SoFarHit ==
    ASSUME NEW R, \A r \in R : r \in Nat, NEW S, NEW T, NEW p \in Nat, NEW a \in Nat,
           p <= a, Hits(R, p, a), SoFar(R, S, p), Follows(S, T, a)
    PROVE  SoFar(R, T, a + POINTER)
  <1> SUFFICES ASSUME GapFree(R)
               PROVE  /\ \A i \in 1..Len(T) : /\ T[i] \in R /\ T[i] + POINTER <= a + POINTER
                                              /\ i > 1 => T[i - 1] < T[i]
                      /\ \A r \in R : r < a + POINTER => \E i \in 1..Len(T) : T[i] = r
    BY DEF SoFar
  <1> DEFINE n == Len(S)
  <1>1. n \in Nat /\ Len(T) = n + 1 /\ T[n + 1] = a /\ \A i \in 1..n : T[i] = S[i]
    BY LenProperties DEF Follows
  <1>2. /\ \A i \in 1..n : /\ S[i] \in R /\ S[i] + POINTER <= p
                           /\ i > 1 => S[i - 1] < S[i]
        /\ \A r \in R : r < p => \E i \in 1..n : S[i] = r
    BY DEF SoFar
  <1>3. a \in R /\ \A r \in R : p <= r /\ r < a + POINTER => r = a
    BY DEF Hits
  <1> HIDE DEF n
  <1>4. ASSUME NEW i \in 1..(n + 1)
        PROVE  /\ T[i] \in R /\ T[i] + POINTER <= a + POINTER
               /\ i > 1 => T[i - 1] < T[i]
    <2>1. CASE i = n + 1
      <3>1. T[i] = a
        BY <1>1, <2>1
      <3>2. ASSUME i > 1 PROVE T[i - 1] < T[i]
        <4>1. n \in 1..n /\ i - 1 = n
          BY <1>1, <2>1, <3>2
        <4>2. T[n] = S[n] /\ S[n] \in R /\ S[n] + POINTER <= p
          BY <1>1, <1>2, <4>1
        <4>3. S[n] \in Nat
          BY <4>2
        <4>4. S[n] < a
          BY <4>2, <4>3 DEF POINTER
        <4>5. QED
          BY <3>1, <4>1, <4>2, <4>4
      <3>3. a + POINTER <= a + POINTER
        BY DEF POINTER
      <3>4. QED
        BY <1>3, <3>1, <3>2, <3>3
    <2>2. CASE i # n + 1
      <3>1. i \in 1..n
        BY <1>1, <2>2
      <3>2. T[i] = S[i] /\ S[i] \in R /\ S[i] + POINTER <= p
        BY <1>1, <1>2, <3>1
      <3>3. S[i] \in Nat
        BY <3>2
      <3>4. S[i] + POINTER <= a + POINTER
        BY <3>2, <3>3 DEF POINTER
      <3>5. ASSUME i > 1 PROVE T[i - 1] < T[i]
        <4>1. i - 1 \in 1..n
          BY <1>1, <3>1, <3>5
        <4>2. T[i - 1] = S[i - 1] /\ S[i - 1] < S[i]
          BY <1>1, <1>2, <3>1, <3>5, <4>1
        <4>3. QED
          BY <3>2, <4>2
      <3>6. QED
        BY <3>2, <3>4, <3>5
    <2>3. QED
      BY <2>1, <2>2
  <1>5. ASSUME NEW r \in R, r < a + POINTER
        PROVE  \E i \in 1..(n + 1) : T[i] = r
    <2>1. CASE r < p
      <3>1. PICK i \in 1..n : S[i] = r
        BY <1>2, <2>1
      <3>2. i \in 1..(n + 1) /\ T[i] = r
        BY <1>1, <3>1
      <3>3. QED
        BY <3>2
    <2>2. CASE ~(r < p)
      <3>1. p <= r
        BY <2>2
      <3>2. r = a
        BY <1>3, <1>5, <3>1
      <3>3. n + 1 \in 1..(n + 1)
        BY <1>1
      <3>4. QED
        BY <1>1, <3>2, <3>3
    <2>3. QED
      BY <2>1, <2>2
  <1>6. QED
    BY <1>1, <1>4, <1>5

\* A step that changes nothing passes none.
LEMMA SoFarMiss ==
    ASSUME NEW R, \A r \in R : r \in Nat, NEW S, NEW p \in Nat, NEW a \in Nat,
           p <= a, Misses(R, p, a), SoFar(R, S, p)
    PROVE  SoFar(R, S, a)
  <1> SUFFICES ASSUME GapFree(R)
               PROVE  /\ \A i \in 1..Len(S) : /\ S[i] \in R /\ S[i] + POINTER <= a
                                              /\ i > 1 => S[i - 1] < S[i]
                      /\ \A r \in R : r < a => \E i \in 1..Len(S) : S[i] = r
    BY DEF SoFar
  <1>1. /\ \A i \in 1..Len(S) : /\ S[i] \in R /\ S[i] + POINTER <= p
                                /\ i > 1 => S[i - 1] < S[i]
        /\ \A r \in R : r < p => \E i \in 1..Len(S) : S[i] = r
    BY DEF SoFar
  <1>2. \A r \in R : ~(p <= r /\ r < a)
    BY DEF Misses
  <1>3. ASSUME NEW i \in 1..Len(S) PROVE S[i] + POINTER <= a
    <2>1. S[i] \in Nat /\ S[i] + POINTER <= p
      BY <1>1
    <2>2. QED
      BY <2>1 DEF POINTER
  <1>4. ASSUME NEW r \in R, r < a PROVE r < p
    BY <1>2, <1>4
  <1>5. QED
    BY <1>1, <1>3, <1>4

\* A function from 1..n is a sequence.
LEMMA ListIsSeq ==
    ASSUME NEW n \in Nat, NEW E \in [1..n -> Nat]
    PROVE  E \in Seq(Nat) /\ Len(E) = n
  <1>1. E \in Seq(Nat)
    <2>1. [1..n -> Nat] \in {[1..m -> Nat] : m \in Nat}
      OBVIOUS
    <2>2. Seq(Nat) = UNION {[1..m -> Nat] : m \in Nat}
      BY SeqDef
    <2>3. QED
      BY <2>1, <2>2, Zenon
  <1>2. DOMAIN E = 1..n /\ DOMAIN E = 1..Len(E) /\ Len(E) \in Nat
    BY <1>1, LenProperties
  <1>3. QED
    BY <1>1, <1>2

\* What Relocates appends to the list of addresses: one, or two.
LEMMA RelocatesOne ==
    ASSUME relocated \in Seq(Nat), a6 \in Nat, NEW d \in Nat, Relocates(<<d>>)
    PROVE  /\ Follows(relocated, relocated', a6 + 2 * d)
           /\ a6' = a6 + 2 * d + POINTER
  <1> DEFINE a == a6 + 2 * d
             E == [i \in DOMAIN <<d>> |-> a6 + 2 * <<d>>[i]
                    + (IF i = 1 THEN 0 ELSE 2 * <<d>>[1] + POINTER)]
  <1>1. relocated' = relocated \o E /\ a6' = a6 + 2 * d + POINTER
    BY DEF Relocates
  <1>2. DOMAIN E = 1..1 /\ E[1] = a /\ a \in Nat
    OBVIOUS
  <1>3. E \in [1..1 -> Nat]
    BY <1>2
  <1> HIDE DEF E, a
  <1>4. E \in Seq(Nat) /\ Len(E) = 1
    BY <1>3, ListIsSeq
  <1> DEFINE T == relocated \o E
  <1>5. /\ Len(relocated) \in Nat /\ T \in Seq(Nat) /\ Len(T) = Len(relocated) + Len(E)
        /\ \A i \in 1..(Len(relocated) + Len(E)) :
              T[i] = IF i <= Len(relocated) THEN relocated[i] ELSE E[i - Len(relocated)]
    BY <1>4, ConcatProperties, LenProperties
  <1> HIDE DEF T
  <1> DEFINE n == Len(relocated)
  <1>6. n \in Nat /\ Len(T) = n + 1
    BY <1>4, <1>5
  <1>7. \A i \in 1..(n + 1) : T[i] = IF i <= n THEN relocated[i] ELSE E[i - n]
    BY <1>4, <1>5
  <1> HIDE DEF n
  <1>8. \A i \in 1..n : T[i] = relocated[i]
    BY <1>6, <1>7
  <1>9. T[n + 1] = a
    <2>1. n + 1 \in 1..(n + 1) /\ ~(n + 1 <= n) /\ (n + 1) - n = 1
      BY <1>6
    <2>2. QED
      BY <1>2, <1>7, <2>1
  <1>10. Follows(relocated, T, a)
    BY <1>5, <1>6, <1>8, <1>9 DEF Follows, n
  <1>11. QED
    BY <1>1, <1>10 DEF T, a

\* A pair of nibbles changes two longwords.
LEMMA RelocatesTwo ==
    ASSUME relocated \in Seq(Nat), a6 \in Nat, NEW d \in Nat, NEW e \in Nat,
           Relocates(<<d, e>>),
           NEW a, a = a6 + 2 * d, NEW b, b = a + POINTER + 2 * e
    PROVE  /\ \E U : Follows(relocated, U, a) /\ Follows(U, relocated', b)
           /\ a6' = b + POINTER
  <1> DEFINE E == [i \in DOMAIN <<d, e>> |-> a6 + 2 * <<d, e>>[i]
                    + (IF i = 1 THEN 0 ELSE 2 * <<d, e>>[1] + POINTER)]
  <1>1. relocated' = relocated \o E
    BY DEF Relocates
  <1>2. a6' = a6 + 2 * e + (2 * d + POINTER) + POINTER
    BY DEF Relocates
  <1>3. a6' = b + POINTER /\ a \in Nat /\ b \in Nat
    BY <1>2 DEF POINTER
  <1>4. E \in [1..2 -> Nat] /\ E[1] = a /\ E[2] = b
    <2>1. DOMAIN E = 1..2
      OBVIOUS
    <2>2. E[1] = a6 + 2 * d + 0 /\ E[2] = a6 + 2 * e + (2 * d + POINTER)
      OBVIOUS
    <2>3. E[1] = a /\ E[2] = b
      BY <2>2 DEF POINTER
    <2>4. \A i \in DOMAIN E : i = 1 \/ i = 2
      BY <2>1
    <2>5. \A i \in DOMAIN E : E[i] \in Nat
      BY <1>3, <2>3, <2>4
    <2>6. E = [i \in DOMAIN E |-> E[i]]
      OBVIOUS
    <2> HIDE DEF E
    <2>7. QED
      BY <2>1, <2>3, <2>5, <2>6
  <1> HIDE DEF E
  <1>5. E \in Seq(Nat) /\ Len(E) = 2
    BY <1>4, ListIsSeq
  <1> DEFINE T == relocated \o E
  <1>6. /\ Len(relocated) \in Nat /\ T \in Seq(Nat) /\ Len(T) = Len(relocated) + Len(E)
        /\ \A i \in 1..(Len(relocated) + Len(E)) :
              T[i] = IF i <= Len(relocated) THEN relocated[i] ELSE E[i - Len(relocated)]
    BY <1>5, ConcatProperties, LenProperties
  <1> HIDE DEF T
  <1> DEFINE n == Len(relocated)
  <1>7. n \in Nat /\ Len(T) = n + 2
    BY <1>5, <1>6
  <1>8. \A i \in 1..(n + 2) : T[i] = IF i <= n THEN relocated[i] ELSE E[i - n]
    BY <1>5, <1>6
  <1>9. n = Len(relocated)
    OBVIOUS
  <1> HIDE DEF n
  <1>10. ASSUME NEW i \in 1..n PROVE T[i] = relocated[i]
    <2>1. i \in 1..(n + 2) /\ i <= n
      BY <1>7
    <2>2. QED
      BY <1>8, <2>1
  <1>11. T[n + 1] = a /\ T[n + 2] = b
    <2>1. /\ n + 1 \in 1..(n + 2) /\ ~(n + 1 <= n) /\ (n + 1) - n = 1
          /\ n + 2 \in 1..(n + 2) /\ ~(n + 2 <= n) /\ (n + 2) - n = 2
      BY <1>7
    <2>2. QED
      BY <1>4, <1>8, <2>1
  <1> DEFINE U == [i \in 1..(n + 1) |-> T[i]]
  <1>12. /\ U \in Seq(Nat) /\ Len(U) = n + 1 /\ \A i \in 1..(n + 1) : U[i] = T[i]
    <2>1. \A i \in 1..(n + 2) : T[i] \in Nat
      BY <1>6, <1>7, ElementOfSeq
    <2>2. U \in [1..(n + 1) -> Nat] /\ n + 1 \in Nat
      BY <1>7, <2>1
    <2>3. \A i \in 1..(n + 1) : U[i] = T[i]
      OBVIOUS
    <2> HIDE DEF U
    <2>4. U \in Seq(Nat) /\ Len(U) = n + 1
      BY <2>2, ListIsSeq
    <2>5. QED
      BY <2>3, <2>4
  <1> HIDE DEF U
  <1>13. Follows(relocated, U, a)
    <2>1. /\ \A i \in 1..n : i \in 1..(n + 1)
          /\ n + 1 \in 1..(n + 1)
      BY <1>7
    <2>2. /\ \A i \in 1..n : U[i] = relocated[i]
          /\ U[n + 1] = a
      BY <1>10, <1>11, <1>12, <2>1
    <2>3. QED
      BY <1>9, <1>12, <2>2 DEF Follows
  <1>14. Follows(U, T, b)
    <2>1. Len(U) + 1 = n + 2 /\ Len(T) = Len(U) + 1
      BY <1>7, <1>12
    <2>2. T[Len(U) + 1] = b
      BY <1>11, <2>1
    <2>3. \A i \in 1..Len(U) : T[i] = U[i]
      BY <1>12
    <2>4. QED
      BY <1>6, <1>12, <2>1, <2>2, <2>3 DEF Follows
  <1>15. relocated' = T
    BY <1>1 DEF T
  <1>16. QED
    BY <1>3, <1>13, <1>14, <1>15

-----------------------------------------------------------------------------
\* the invariant once the table is written
ReadInv ==
    /\ pc \in {"load", "pairs", "done"} =>
          /\ Marked(Data, reloc, Start)
          /\ relocated \in Seq(Nat) /\ a6 \in Nat
          /\ SoFar(reloc, relocated, a6)
    /\ pc \in {"load", "pairs"} =>
          /\ Marked(Data, reloc, At(a2, a6, pairs))
          /\ pc = "load" <=> pairs = 0
    /\ pc = "done" =>
          /\ a2 = Len(Data) /\ pairs = 0
          /\ GapFree(reloc) => \A r \in reloc : r < a6

\* the inductive invariant for a table's way from the linker to the kernel
TableInv == Typed /\ WriteInv /\ ReadInv

\* The reader leaves the table alone.
LEMMA ReaderStays ==
    ASSUME Typed, UNCHANGED <<reloc, writer>>, pc' \in {"load", "pairs", "done"}
    PROVE  Typed' /\ WriteInv'
  <1>1. Typed'
    BY DEF Typed, writer
  <1>2. ~ Writing'
    BY DEF Writing
  <1>3. QED
    BY <1>1, <1>2 DEF WriteInv

\* The end of the table is written, and the reader starts.
LEMMA EndWritten == TableInv /\ DumpEnd => TableInv'
  <1> SUFFICES ASSUME Typed, WriteInv, DumpEnd PROVE TableInv'
    BY DEF TableInv
  <1> DEFINE h == Here
             E == <<0>>
  <1>1. /\ pc = "end" /\ nibbles = <<>> /\ Data' = Append(Data, 0) /\ pc' = "load"
        /\ UNCHANGED <<reloc, nibbles, last, current, diff, reader>>
    BY DEF DumpEnd
  <1>2. Sound(reloc) /\ Data \in Seq(Bytes)
    BY DEF Typed
  <1>3. \A r \in reloc : r \in Nat /\ FIRST <= r
    BY <1>2 DEF Sound
  <1>4. current \in Nat /\ (current = 0 \/ current >= 24)
    BY <1>3 DEF Typed, FIRST
  <1>5. Written(Data, reloc, <<>>, h) /\ ToRead /\ \A r \in reloc : r <= current
    BY <1>1 DEF WriteInv, Writing, AtNext
  <1>6. h = IF current = 0 THEN FIRST ELSE current + POINTER
    BY <1>1 DEF Here
  <1> HIDE DEF h
  <1>7. h \in Nat
    BY <1>4, <1>6 DEF FIRST, POINTER
  <1>8. ASSUME NEW r \in reloc PROVE r < h
    <2>1. r <= current /\ r \in Nat /\ 24 <= r
      BY <1>3, <1>5 DEF FIRST
    <2>2. QED
      BY <1>4, <1>6, <2>1 DEF POINTER
  <1>9. 0 \in Bytes
    BY DEF Bytes
  <1>10. E \in Seq(Bytes) /\ Len(E) = 1 /\ E[1] = 0
    BY <1>9, Short
  <1>11. Data' = Data \o E
    BY <1>1, <1>2, <1>9, AppendIsConcat
  <1> HIDE DEF E
  <1>12. Longer(Data, E, Data')
    BY <1>2, <1>10, <1>11, Joined
  <1>13. Marked(Data', reloc, Start)
    <2> DEFINE W == Data'
    <2>1. Longer(Data, E, W)
      BY <1>12
    <2> HIDE DEF W
    <2>2. Marked(W, reloc, Start)
      BY <1>5, <1>7, <1>8, <1>10, <2>1, MarkedFirst
    <2>3. QED
      BY <2>2 DEF W
  <1>14. At(a2', a6', pairs') = Start /\ pairs' = 0 /\ a6' = FIRST /\ relocated' = <<>>
    BY <1>1, <1>5 DEF ToRead, reader, Start, At
  <1>15. SoFar(reloc, <<>>, FIRST)
    <2>1. Len(<<>>) = 0
      BY EmptySeq
    <2>2. ASSUME NEW r \in reloc, r < FIRST PROVE FALSE
      BY <1>3, <2>2 DEF FIRST
    <2>3. \A i \in 1..Len(<<>>) : FALSE
      BY <2>1
    <2>4. QED
      BY <2>2, <2>3 DEF SoFar
  <1>16. Typed'
    <2>1. /\ Sound(reloc') /\ (current' = 0 \/ current' \in reloc')
          /\ nibbles' \in Seq(Nibbles)
          /\ last' \in Nat /\ last' <= 65535 /\ diff' \in Nat /\ diff' <= 32767
      BY <1>1 DEF Typed
    <2>2. Data' \in Seq(Bytes)
      BY <1>12 DEF Longer
    <2>3. QED
      BY <1>1, <2>1, <2>2 DEF Typed
  <1>17. WriteInv'
    BY <1>1 DEF WriteInv, Writing
  <1>18. ReadInv'
    <2>1. reloc' = reloc
      BY <1>1
    <2>2. FIRST \in Nat /\ <<>> \in Seq(Nat)
      BY EmptySeq DEF FIRST
    <2>3. SoFar(reloc', relocated', a6') /\ relocated' \in Seq(Nat) /\ a6' \in Nat
      BY <1>14, <1>15, <2>1, <2>2
    <2>4. Marked(Data', reloc', Start) /\ Marked(Data', reloc', At(a2', a6', pairs'))
      BY <1>13, <1>14, <2>1
    <2>5. QED
      BY <1>1, <1>14, <2>3, <2>4 DEF ReadInv
  <1>19. QED
    BY <1>16, <1>17, <1>18 DEF TableInv

\* What is known when do_reloc reads a byte.
LEMMA ReadsByte ==
    ASSUME TableInv, pc \in {"load", "pairs"}
    PROVE  /\ Typed /\ Sound(reloc) /\ Data \in Seq(Bytes) /\ \A r \in reloc : r \in Nat
           /\ Marked(Data, reloc, Start)
           /\ relocated \in Seq(Nat) /\ SoFar(reloc, relocated, a6)
           /\ a2 \in Nat /\ a6 \in Nat /\ pairs \in 0..4
           /\ At(a2, a6, pairs).pos = a2 /\ At(a2, a6, pairs).at = a6
           /\ At(a2, a6, pairs).left = pairs
           /\ (pc = "load") = (pairs = 0)
           /\ \/ Ends(Data, reloc, At(a2, a6, pairs))
              \/ \E k : /\ ReadStep(Data, reloc, At(a2, a6, pairs), k)
                        /\ Marked(Data, reloc, k)
  <1> DEFINE m == At(a2, a6, pairs)
  <1>1. /\ Marked(Data, reloc, Start) /\ relocated \in Seq(Nat)
        /\ SoFar(reloc, relocated, a6) /\ Marked(Data, reloc, m)
        /\ pc = "load" <=> pairs = 0
    BY DEF TableInv, ReadInv
  <1>2. Typed /\ Sound(reloc) /\ Data \in Seq(Bytes)
    BY DEF TableInv, Typed
  <1>3. \A r \in reloc : r \in Nat
    BY <1>2 DEF Sound
  <1>4. m.pos = a2 /\ m.at = a6 /\ m.left = pairs
    BY DEF At
  <1>5. m \in Mark
    BY <1>1 DEF Marked
  <1>6. a2 \in Nat /\ a6 \in Nat /\ pairs \in 0..4
    BY <1>4, <1>5 DEF Mark
  <1> HIDE DEF m
  <1>7. \/ Ends(Data, reloc, m)
        \/ \E k : ReadStep(Data, reloc, m, k) /\ Marked(Data, reloc, k)
    BY <1>1, MarkedSteps
  <1>8. (pc = "load") = (pairs = 0)
    BY <1>1
  <1>9. QED
    BY <1>1, <1>2, <1>3, <1>4, <1>6, <1>7, <1>8 DEF m

-----------------------------------------------------------------------------
\* The first byte of an entry says what it is.
LEMMA StepKind ==
    ASSUME NEW D, NEW R, NEW m, NEW k, ReadStep(D, R, m, k), m.left = 0,
           NEW b, b = D[m.pos + 1]
    PROVE  \/ b \in 1..127 /\ ByteStep(D, R, m, k)
           \/ b \in 192..255 /\ WordStep(D, R, m, k)
           \/ b \in 128..191 /\ NibbleStep(D, R, m, k)
  <1>1. ~ PairStep(D, R, m, k)
    BY DEF PairStep
  <1>2. CASE ByteStep(D, R, m, k)
    BY <1>2 DEF ByteStep
  <1>3. CASE WordStep(D, R, m, k)
    BY <1>3 DEF WordStep
  <1>4. CASE NibbleStep(D, R, m, k)
    BY <1>4 DEF NibbleStep
  <1>5. QED
    BY <1>1, <1>2, <1>3, <1>4 DEF ReadStep

\* Where do_reloc is after a byte.
LEMMA ReaderMoves ==
    ASSUME TableInv, pc \in {"load", "pairs"}, UNCHANGED <<reloc, writer>>,
           pc' \in {"load", "pairs"}, NEW k, Marked(Data, reloc, k),
           k = At(a2', a6', pairs'), (pc' = "load") = (pairs' = 0),
           relocated' \in Seq(Nat), a6' \in Nat, SoFar(reloc, relocated', a6')
    PROVE  TableInv'
  <1>1. Typed /\ Marked(Data, reloc, Start)
    BY ReadsByte
  <1>2. Typed' /\ WriteInv'
    BY <1>1, ReaderStays
  <1>3. Data' = Data /\ reloc' = reloc
    BY DEF writer
  <1>4. Marked(Data', reloc', Start) /\ Marked(Data', reloc', At(a2', a6', pairs'))
    BY <1>1, <1>3
  <1>5. SoFar(reloc', relocated', a6')
    BY <1>3
  <1>6. ReadInv'
    BY <1>4, <1>5 DEF ReadInv
  <1>7. QED
    BY <1>2, <1>6 DEF TableInv

\* do_reloc, step by step: a byte is the step from the mark it is at.
LEMMA ByteRead == TableInv /\ RelocByte => TableInv'
  <1> SUFFICES ASSUME TableInv, RelocByte PROVE TableInv'
    OBVIOUS
  <1> DEFINE m == At(a2, a6, pairs)
             b == Data[a2 + 1]
             d == b - 1
             a == a6 + 2 * d
  <1>1. /\ pc = "load" /\ pc' = "load" /\ b \in 1..127 /\ Relocates(<<d>>)
        /\ a2' = a2 + 1 /\ pairs' = pairs /\ UNCHANGED <<reloc, writer>>
    BY DEF RelocByte, Byte
  <1>2. /\ \A r \in reloc : r \in Nat
        /\ relocated \in Seq(Nat) /\ SoFar(reloc, relocated, a6)
        /\ a2 \in Nat /\ a6 \in Nat /\ pairs = 0
        /\ m.pos = a2 /\ m.at = a6 /\ m.left = 0
        /\ \/ Ends(Data, reloc, m)
           \/ \E k : ReadStep(Data, reloc, m, k) /\ Marked(Data, reloc, k)
    BY <1>1, ReadsByte
  <1>a. Data[m.pos + 1] = b
    BY <1>2
  <1>b. b # 0
    BY <1>1
  <1> HIDE DEF m, b
  <1>3. ~ Ends(Data, reloc, m)
    BY <1>a, <1>b DEF Ends
  <1>4. PICK k : ReadStep(Data, reloc, m, k) /\ Marked(Data, reloc, k)
    BY <1>2, <1>3
  <1>5. ByteStep(Data, reloc, m, k)
    <2>1. \/ b \in 1..127 /\ ByteStep(Data, reloc, m, k)
          \/ b \in 192..255 /\ WordStep(Data, reloc, m, k)
          \/ b \in 128..191 /\ NibbleStep(Data, reloc, m, k)
      <3>1. m.left = 0 /\ b = Data[m.pos + 1] /\ ReadStep(Data, reloc, m, k)
        BY <1>2, <1>4, <1>a
      <3>2. QED
        BY <3>1, StepKind
    <2>2. QED
      BY <1>1, <2>1
  <1>6. Hits(reloc, a6, a) /\ k = [pos |-> a2 + 1, at |-> a + POINTER, left |-> 0]
    BY <1>2, <1>5 DEF ByteStep, b
  <1>7. d \in Nat
    BY <1>1
  <1> HIDE DEF d
  <1>8. Follows(relocated, relocated', a) /\ a6' = a + POINTER
    BY <1>1, <1>2, <1>7, RelocatesOne
  <1>9. a \in Nat /\ a6 <= a
    BY <1>2, <1>7
  <1> HIDE DEF a
  <1>10. SoFar(reloc, relocated', a6')
    BY <1>2, <1>6, <1>8, <1>9, SoFarHit
  <1>11. a6' \in Nat /\ relocated' \in Seq(Nat)
    BY <1>8, <1>9 DEF Follows, POINTER
  <1>12. k = At(a2', a6', pairs')
    BY <1>1, <1>2, <1>6, <1>8 DEF At
  <1>13. (pc' = "load") = (pairs' = 0)
    BY <1>1, <1>2
  <1>14. QED
    BY <1>1, <1>4, <1>10, <1>11, <1>12, <1>13, ReaderMoves

\* A word, with the distance or the part of one.
LEMMA WordRead == TableInv /\ RelocWord => TableInv'
  <1> SUFFICES ASSUME TableInv, RelocWord PROVE TableInv'
    OBVIOUS
  <1> DEFINE m == At(a2, a6, pairs)
             b == Data[a2 + 1]
             c == Data[a2 + 2]
             w == Distance(b, c)
             d == w + BYTE
             a == a6 + 2 * d
  <1>1. /\ pc = "load" /\ pc' = "load" /\ b >= 192
        /\ IF w = EXTENDED THEN a6' = a /\ UNCHANGED relocated ELSE Relocates(<<d>>)
        /\ a2' = a2 + 2 /\ pairs' = pairs /\ UNCHANGED <<reloc, writer>>
    BY DEF RelocWord, Byte, Distance
  <1>2. /\ \A r \in reloc : r \in Nat
        /\ relocated \in Seq(Nat) /\ SoFar(reloc, relocated, a6)
        /\ a2 \in Nat /\ a6 \in Nat /\ pairs = 0
        /\ m.pos = a2 /\ m.at = a6 /\ m.left = 0
        /\ \/ Ends(Data, reloc, m)
           \/ \E k : ReadStep(Data, reloc, m, k) /\ Marked(Data, reloc, k)
    BY <1>1, ReadsByte
  <1>a. Data[m.pos + 1] = b
    BY <1>2
  <1>b. b # 0
    BY <1>1
  <1> HIDE DEF m, b
  <1>3. ~ Ends(Data, reloc, m)
    BY <1>a, <1>b DEF Ends
  <1>4. PICK k : ReadStep(Data, reloc, m, k) /\ Marked(Data, reloc, k)
    BY <1>2, <1>3
  <1>5. WordStep(Data, reloc, m, k)
    <2>1. \/ b \in 1..127 /\ ByteStep(Data, reloc, m, k)
          \/ b \in 192..255 /\ WordStep(Data, reloc, m, k)
          \/ b \in 128..191 /\ NibbleStep(Data, reloc, m, k)
      <3>1. m.left = 0 /\ b = Data[m.pos + 1] /\ ReadStep(Data, reloc, m, k)
        BY <1>2, <1>4, <1>a
      <3>2. QED
        BY <3>1, StepKind
    <2>2. QED
      BY <1>1, <2>1
  <1>6. /\ b \in 192..255 /\ c \in 0..255
        /\ \/ /\ w # EXTENDED /\ Hits(reloc, a6, a)
              /\ k = [pos |-> a2 + 2, at |-> a + POINTER, left |-> 0]
           \/ /\ w = EXTENDED /\ Misses(reloc, a6, a)
              /\ k = [pos |-> a2 + 2, at |-> a, left |-> 0]
    BY <1>2, <1>5 DEF WordStep, b
  <1> HIDE DEF c
  <1>7. w \in Nat
    <2>1. (b % 64) * 256 + c \in Nat
      BY <1>6
    <2>2. QED
      BY <2>1 DEF Distance
  <1> HIDE DEF w
  <1>8. d \in Nat /\ a \in Nat /\ a6 <= a
    BY <1>2, <1>7 DEF BYTE
  <1>9. (pc' = "load") = (pairs' = 0)
    BY <1>1, <1>2
  <1>10. CASE w # EXTENDED
    <2>1. Relocates(<<d>>) /\ Hits(reloc, a6, a)
          /\ k = [pos |-> a2 + 2, at |-> a + POINTER, left |-> 0]
      BY <1>1, <1>6, <1>10
    <2> HIDE DEF d
    <2>2. Follows(relocated, relocated', a) /\ a6' = a + POINTER
      BY <1>2, <1>8, <2>1, RelocatesOne
    <2> HIDE DEF a
    <2>3. SoFar(reloc, relocated', a6')
      BY <1>2, <1>8, <2>1, <2>2, SoFarHit
    <2>4. a6' \in Nat /\ relocated' \in Seq(Nat)
      BY <1>8, <2>2 DEF Follows, POINTER
    <2>5. k = At(a2', a6', pairs')
      BY <1>1, <1>2, <2>1, <2>2 DEF At
    <2>6. QED
      BY <1>1, <1>4, <1>9, <2>3, <2>4, <2>5, ReaderMoves
  <1>11. CASE w = EXTENDED
    <2>1. a6' = a /\ relocated' = relocated /\ Misses(reloc, a6, a)
          /\ k = [pos |-> a2 + 2, at |-> a, left |-> 0]
      BY <1>1, <1>6, <1>11
    <2> HIDE DEF a
    <2>2. SoFar(reloc, relocated, a)
      BY <1>2, <1>8, <2>1, SoFarMiss
    <2>3. k = At(a2', a6', pairs')
      BY <1>1, <1>2, <2>1 DEF At
    <2>4. QED
      BY <1>1, <1>2, <1>4, <1>8, <1>9, <2>1, <2>2, <2>3, ReaderMoves
  <1>12. QED
    BY <1>10, <1>11

\* The first byte of a group.
LEMMA NibblesRead == TableInv /\ RelocNibbles => TableInv'
  <1> SUFFICES ASSUME TableInv, RelocNibbles PROVE TableInv'
    OBVIOUS
  <1> DEFINE m == At(a2, a6, pairs)
             b == Data[a2 + 1]
             d == Lower(b)
             a == a6 + 2 * d
  <1>1. /\ pc = "load" /\ pc' = "pairs" /\ b \in 128..191 /\ Relocates(<<d>>)
        /\ a2' = a2 + 1 /\ pairs' = Left(b) /\ UNCHANGED <<reloc, writer>>
    BY DEF RelocNibbles, Byte, Lower, Left
  <1>2. /\ \A r \in reloc : r \in Nat
        /\ relocated \in Seq(Nat) /\ SoFar(reloc, relocated, a6)
        /\ a2 \in Nat /\ a6 \in Nat /\ pairs = 0
        /\ m.pos = a2 /\ m.at = a6 /\ m.left = 0
        /\ \/ Ends(Data, reloc, m)
           \/ \E k : ReadStep(Data, reloc, m, k) /\ Marked(Data, reloc, k)
    BY <1>1, ReadsByte
  <1>a. Data[m.pos + 1] = b
    BY <1>2
  <1>b. b # 0
    BY <1>1
  <1> HIDE DEF m, b
  <1>3. ~ Ends(Data, reloc, m)
    BY <1>a, <1>b DEF Ends
  <1>4. PICK k : ReadStep(Data, reloc, m, k) /\ Marked(Data, reloc, k)
    BY <1>2, <1>3
  <1>5. NibbleStep(Data, reloc, m, k)
    <2>1. \/ b \in 1..127 /\ ByteStep(Data, reloc, m, k)
          \/ b \in 192..255 /\ WordStep(Data, reloc, m, k)
          \/ b \in 128..191 /\ NibbleStep(Data, reloc, m, k)
      <3>1. m.left = 0 /\ b = Data[m.pos + 1] /\ ReadStep(Data, reloc, m, k)
        BY <1>2, <1>4, <1>a
      <3>2. QED
        BY <3>1, StepKind
    <2>2. QED
      BY <1>1, <2>1
  <1>6. Hits(reloc, a6, a) /\ k = [pos |-> a2 + 1, at |-> a + POINTER, left |-> Left(b)]
    BY <1>2, <1>5 DEF NibbleStep, b
  <1>7. d \in Nat /\ Left(b) # 0
    BY <1>1 DEF Lower, Left
  <1> HIDE DEF d
  <1>8. Follows(relocated, relocated', a) /\ a6' = a + POINTER
    BY <1>1, <1>2, <1>7, RelocatesOne
  <1>9. a \in Nat /\ a6 <= a
    BY <1>2, <1>7
  <1> HIDE DEF a
  <1>10. SoFar(reloc, relocated', a6')
    BY <1>2, <1>6, <1>8, <1>9, SoFarHit
  <1>11. a6' \in Nat /\ relocated' \in Seq(Nat)
    BY <1>8, <1>9 DEF Follows, POINTER
  <1>12. k = At(a2', a6', pairs')
    BY <1>1, <1>2, <1>6, <1>8 DEF At
  <1>13. (pc' = "load") = (pairs' = 0)
    BY <1>1, <1>7
  <1>14. QED
    BY <1>1, <1>4, <1>10, <1>11, <1>12, <1>13, ReaderMoves

\* A pair: the last one ends the group.
LEMMA PairRead == TableInv /\ RelocPair => TableInv'
  <1> SUFFICES ASSUME TableInv, RelocPair PROVE TableInv'
    OBVIOUS
  <1> DEFINE m == At(a2, a6, pairs)
             v == Data[a2 + 1]
             d == Upper(v)
             e == Lower(v)
             a == a6 + 2 * d
             b == a + POINTER + 2 * e
  <1>1. /\ pc = "pairs" /\ Relocates(<<d, e>>)
        /\ pc' = IF pairs = 1 THEN "load" ELSE "pairs"
        /\ a2' = a2 + 1 /\ pairs' = pairs - 1 /\ UNCHANGED <<reloc, writer>>
    BY DEF RelocPair, Byte, Lower, Upper
  <1>2. /\ \A r \in reloc : r \in Nat
        /\ relocated \in Seq(Nat) /\ SoFar(reloc, relocated, a6)
        /\ a2 \in Nat /\ a6 \in Nat /\ pairs \in 0..4 /\ pairs # 0
        /\ m.pos = a2 /\ m.at = a6 /\ m.left = pairs
        /\ \/ Ends(Data, reloc, m)
           \/ \E k : ReadStep(Data, reloc, m, k) /\ Marked(Data, reloc, k)
    BY <1>1, ReadsByte
  <1> HIDE DEF m
  <1>3. ~ Ends(Data, reloc, m)
    BY <1>2 DEF Ends
  <1>4. PICK k : ReadStep(Data, reloc, m, k) /\ Marked(Data, reloc, k)
    BY <1>2, <1>3
  <1>5. PairStep(Data, reloc, m, k)
    BY <1>2, <1>4 DEF ReadStep, ByteStep, WordStep, NibbleStep
  <1>6. /\ v \in 0..255
        /\ Hits(reloc, a6, a) /\ Hits(reloc, a + POINTER, b)
        /\ k = [pos |-> a2 + 1, at |-> b + POINTER, left |-> pairs - 1]
    BY <1>2, <1>5 DEF PairStep
  <1>7. d \in Nat /\ e \in Nat
    BY <1>6 DEF Lower, Upper
  <1> HIDE DEF v, d, e
  <1>8. a \in Nat /\ b \in Nat /\ a6 <= a /\ a + POINTER \in Nat /\ a + POINTER <= b
    BY <1>2, <1>7 DEF POINTER
  <1>9. /\ \E U : Follows(relocated, U, a) /\ Follows(U, relocated', b)
        /\ a6' = b + POINTER
    BY <1>1, <1>2, <1>7, RelocatesTwo
  <1>10. PICK U : Follows(relocated, U, a) /\ Follows(U, relocated', b)
    BY <1>9
  <1> HIDE DEF a, b
  <1>11. SoFar(reloc, U, a + POINTER)
    BY <1>2, <1>6, <1>8, <1>10, SoFarHit
  <1>12. SoFar(reloc, relocated', b + POINTER)
    BY <1>2, <1>6, <1>8, <1>10, <1>11, SoFarHit
  <1>13. a6' \in Nat /\ relocated' \in Seq(Nat)
    BY <1>8, <1>9, <1>10 DEF Follows, POINTER
  <1>14. k = At(a2', a6', pairs')
    BY <1>1, <1>6, <1>9 DEF At
  <1>15. (pc' = "load") = (pairs' = 0) /\ pc' \in {"load", "pairs"}
    BY <1>1, <1>2
  <1>16. QED
    BY <1>1, <1>4, <1>9, <1>12, <1>13, <1>14, <1>15, ReaderMoves

\* The byte 0 is read at the end of the path, behind every address.
LEMMA EndRead == TableInv /\ RelocEnd => TableInv'
  <1> SUFFICES ASSUME TableInv, RelocEnd PROVE TableInv'
    OBVIOUS
  <1> DEFINE m == At(a2, a6, pairs)
             b == Data[a2 + 1]
  <1>1. /\ pc = "load" /\ pc' = "done" /\ b = 0
        /\ a2' = a2 + 1 /\ UNCHANGED <<reloc, writer, a6, pairs, relocated>>
    BY DEF RelocEnd, Byte
  <1>2. /\ Typed /\ Marked(Data, reloc, Start)
        /\ relocated \in Seq(Nat) /\ SoFar(reloc, relocated, a6)
        /\ a2 \in Nat /\ a6 \in Nat /\ pairs = 0
        /\ m.pos = a2 /\ m.at = a6 /\ m.left = 0
        /\ \/ Ends(Data, reloc, m)
           \/ \E k : ReadStep(Data, reloc, m, k) /\ Marked(Data, reloc, k)
    BY <1>1, ReadsByte
  <1>a. Data[m.pos + 1] = b
    BY <1>2
  <1> HIDE DEF m, b
  <1>3. ASSUME NEW k, ReadStep(Data, reloc, m, k) PROVE FALSE
    <2>1. \/ b \in 1..127
          \/ b \in 192..255
          \/ b \in 128..191
      BY <1>2, <1>3, <1>a, StepKind, Zenon
    <2>2. QED
      BY <1>1, <2>1
  <1>4. Ends(Data, reloc, m)
    BY <1>2, <1>3
  <1>5. a2' = Len(Data) /\ (GapFree(reloc) => \A r \in reloc : r < a6)
    BY <1>1, <1>2, <1>4 DEF Ends, b
  <1>6. Typed' /\ WriteInv'
    BY <1>1, <1>2, ReaderStays
  <1>7. Data' = Data /\ reloc' = reloc
    BY <1>1 DEF writer
  <1>8. ReadInv'
    BY <1>1, <1>2, <1>5, <1>7 DEF ReadInv
  <1>9. QED
    BY <1>6, <1>8 DEF TableInv

-----------------------------------------------------------------------------
(* The loop that skips a table. *)

\* where the loop may be: Data is counted from 1
Positions == Nat \ {0}

\* The bytes an entry takes.
LEMMA EntryTakes ==
    ASSUME NEW b \in Bytes, b # 0
    PROVE  /\ Entry(b) \in Nat /\ Entry(b) >= 1
           /\ b \in 1..127 => Entry(b) = 1
           /\ b \in 192..255 => Entry(b) = 2
           /\ b \in 128..191 => Entry(b) = 1 + Left(b)
  <1>1. b \in 1..127 \/ b \in 128..191 \/ b \in 192..255
    BY DEF Bytes
  <1>2. CASE b \in 1..127
    <2>1. Entry(b) = 1
      BY <1>2 DEF Entry
    <2>2. QED
      BY <1>2, <2>1
  <1>3. CASE b \in 192..255
    <2>1. Entry(b) = 2
      BY <1>3 DEF Entry
    <2>2. QED
      BY <1>3, <2>1
  <1>4. CASE b \in 128..191
    <2>1. Entry(b) = 2 + ((b \div 16) % 8)
      BY <1>4 DEF Entry
    <2>2. (b \div 16) % 8 \in Nat
      BY <1>4
    <2>3. QED
      BY <1>4, <2>1, <2>2 DEF Left
  <1>5. QED
    BY <1>1, <1>2, <1>3, <1>4

\* g stops, from the i-th byte, where the loop does.
Stops(D, g, i) == g[i] = IF i > Len(D) \/ D[i] = 0 THEN i ELSE g[i + Entry(D[i])]

\* There is such a function: the loop goes forward, and ends behind Data.
LEMMA SkipDefined ==
    ASSUME NEW D \in Seq(Bytes)
    PROVE  \E g : g = [i \in Positions |->
                          IF i > Len(D) \/ D[i] = 0 THEN i ELSE g[i + Entry(D[i])]]
  <1> DEFINE K == {k \in Positions : \E g \in [Positions -> Nat] :
                      \A i \in Positions : i >= k => Stops(D, g, i)}
             L == Len(D)
  <1>1. L \in Nat /\ \A i \in 1..L : D[i] \in Bytes
    BY LenProperties, ElementOfSeq
  <1>2. K # {} /\ K \subseteq Nat
    <2> DEFINE f == [i \in Positions |-> i]
    <2>1. f \in [Positions -> Nat] /\ \A i \in Positions : f[i] = i
      BY DEF Positions
    <2> HIDE DEF f
    <2>2. ASSUME NEW i \in Positions, i >= L + 1 PROVE Stops(D, f, i)
      <3>1. i > L
        BY <1>1, <2>2 DEF Positions
      <3>2. QED
        BY <2>1, <3>1 DEF Stops
    <2>3. L + 1 \in Positions
      BY <1>1 DEF Positions
    <2> HIDE DEF L
    <2>4. L + 1 \in K
      BY <2>1, <2>2, <2>3
    <2>5. K \subseteq Nat
      BY DEF Positions
    <2>6. QED
      BY <2>4, <2>5
  <1>3. PICK k \in K : \A j \in K : k <= j
    BY <1>2, LeastExists
  <1>4. k \in Positions
    OBVIOUS
  <1>5. PICK g \in [Positions -> Nat] : \A i \in Positions : i >= k => Stops(D, g, i)
    OBVIOUS
  <1>6. k = 1
    <2> SUFFICES ASSUME k # 1 PROVE FALSE
      OBVIOUS
    <2> DEFINE j == k - 1
               v == IF j > L \/ D[j] = 0 THEN j ELSE g[j + Entry(D[j])]
               h == [i \in Positions |-> IF i = j THEN v ELSE g[i]]
    <2>1. k \in Nat /\ j \in Positions /\ j \in Nat /\ j >= 1 /\ j < k /\ k = j + 1
      BY <1>4 DEF Positions
    <2>2. ASSUME NEW i \in Positions, ~(i > L \/ D[i] = 0)
          PROVE  i + Entry(D[i]) \in Positions /\ i + Entry(D[i]) > i
      <3>1. i \in 1..L /\ i \in Nat
        BY <1>1, <2>2 DEF Positions
      <3>2. D[i] \in Bytes /\ D[i] # 0
        BY <1>1, <2>2, <3>1
      <3>3. Entry(D[i]) \in Nat /\ Entry(D[i]) >= 1
        BY <3>2, EntryTakes
      <3>4. QED
        BY <3>1, <3>3 DEF Positions
    <2> HIDE DEF j
    <2>3. v \in Nat
      <3>1. CASE j > L \/ D[j] = 0
        BY <2>1, <3>1
      <3>2. CASE ~(j > L \/ D[j] = 0)
        <4>1. j + Entry(D[j]) \in Positions
          BY <2>1, <2>2, <3>2
        <4>2. g[j + Entry(D[j])] \in Nat
          BY <1>5, <4>1
        <4>3. QED
          BY <3>2, <4>2
      <3>3. QED
        BY <3>1, <3>2
    <2>v. v = IF j > L \/ D[j] = 0 THEN j ELSE g[j + Entry(D[j])]
      OBVIOUS
    <2> HIDE DEF v
    <2>4. /\ h \in [Positions -> Nat] /\ h[j] = v
          /\ \A i \in Positions : i # j => h[i] = g[i]
      BY <1>5, <2>1, <2>3
    <2> HIDE DEF h
    <2>5. ASSUME NEW i \in Positions, i >= j PROVE Stops(D, h, i)
      <3>1. i \in Nat
        BY DEF Positions
      <3>2. ASSUME ~(i > L \/ D[i] = 0)
            PROVE  h[i + Entry(D[i])] = g[i + Entry(D[i])]
        <4>1. i + Entry(D[i]) \in Positions /\ i + Entry(D[i]) > i
          BY <2>2, <3>2
        <4> DEFINE n == i + Entry(D[i])
        <4> HIDE DEF n
        <4>2. n \in Positions /\ n > i
          BY <4>1 DEF n
        <4>3. n # j
          BY <2>1, <2>5, <3>1, <4>2 DEF Positions
        <4>4. h[n] = g[n]
          BY <2>4, <4>2, <4>3
        <4>5. QED
          BY <4>4 DEF n
      <3>3. h[i] = IF i > L \/ D[i] = 0 THEN i ELSE g[i + Entry(D[i])]
        <4>1. CASE i = j
          BY <2>4, <2>v, <4>1
        <4>2. CASE i # j
          <5>1. i >= k
            BY <2>1, <2>5, <3>1, <4>2
          <5>2. Stops(D, g, i)
            BY <1>5, <5>1
          <5>3. h[i] = g[i]
            BY <2>4, <4>2
          <5>4. QED
            BY <5>2, <5>3 DEF Stops
        <4>3. QED
          BY <4>1, <4>2
      <3>4. QED
        BY <3>2, <3>3 DEF Stops
    <2>6. j \in K
      BY <2>1, <2>4, <2>5
    <2>7. k <= j
      BY <1>3, <2>6
    <2>8. QED
      BY <2>1, <2>7
  <1>7. ASSUME NEW i \in Positions PROVE Stops(D, g, i)
    <2>1. i >= 1
      BY DEF Positions
    <2>2. QED
      BY <1>5, <1>6, <2>1
  <1>8. g = [i \in Positions |-> g[i]]
    BY <1>5
  <1>9. g = [i \in Positions |-> IF i > Len(D) \/ D[i] = 0 THEN i ELSE g[i + Entry(D[i])]]
    BY <1>7, <1>8 DEF Stops
  <1>10. QED
    BY <1>9

\* So the loop does what its definition says.
LEMMA SkipGoes ==
    ASSUME Data \in Seq(Bytes), NEW i \in Positions
    PROVE  SkipFrom[i] = IF i > Len(Data) \/ Data[i] = 0 THEN i
                         ELSE SkipFrom[i + Entry(Data[i])]
  <1> DEFINE Is(g) == g = [j \in Nat \ {0} |->
                          IF j > Len(Data) \/ Data[j] = 0 THEN j ELSE g[j + Entry(Data[j])]]
  <1>1. \E g : Is(g)
    BY SkipDefined DEF Positions
  <1>2. SkipFrom = CHOOSE g : Is(g)
    BY DEF SkipFrom
  <1>3. Is(SkipFrom)
    BY <1>1, <1>2
  <1>4. QED
    BY <1>3 DEF Positions

\* From every byte at which an entry begins it comes to the end of the table.
LEMMA SkipEnds ==
    ASSUME Data \in Seq(Bytes), NEW R, NEW P, NEW e, Path(Data, R, P, e), Ends(Data, R, e),
           NEW m \in P
    PROVE  SkipFrom[m.pos + m.left + 1] = Len(Data)
  <1> DEFINE L == Len(Data)
             Skip(q) == SkipFrom[q.pos + q.left + 1]
             Bad == {q \in P : Skip(q) # L}
             N == {L - q.pos : q \in Bad}
  <1>1. L \in Nat /\ \A i \in 1..L : Data[i] \in Bytes
    BY LenProperties, ElementOfSeq
  <1>2. \A q \in P : q.pos \in Nat /\ q.left \in 0..4 /\ q = [pos |-> q.pos, at |-> q.at, left |-> q.left]
    BY DEF Path, Mark
  <1>3. e.left = 0 /\ e.pos + 1 = L /\ Data[e.pos + 1] = 0 /\ e \in P
    BY DEF Ends, Path
  <1>4. ASSUME NEW q \in P, q # e
        PROVE  \E k \in P : ReadStep(Data, R, q, k)
    BY <1>4 DEF Path
  <1> HIDE DEF L, Skip
  <1>5. ASSUME NEW q \in P PROVE L - q.pos \in Nat
    <2>1. CASE q = e
      BY <1>1, <1>2, <1>3, <2>1
    <2>2. CASE q # e
      <3>1. q.pos + 1 <= L
        BY <1>4, <2>2 DEF ReadStep, L
      <3>2. QED
        BY <1>1, <1>2, <3>1
    <2>3. QED
      BY <2>1, <2>2
  <1>6. Bad = {}
    <2> SUFFICES ASSUME Bad # {} PROVE FALSE
      OBVIOUS
    <2>1. N # {} /\ N \subseteq Nat
      BY <1>5
    <2>2. PICK n \in N : \A j \in N : n <= j
      BY <2>1, LeastExists
    <2>3. PICK q \in Bad : n = L - q.pos
      OBVIOUS
    <2>4. q \in P /\ Skip(q) # L
      OBVIOUS
    <2>5. ASSUME NEW k \in P, k.pos > q.pos PROVE Skip(k) = L
      <3> SUFFICES ASSUME Skip(k) # L PROVE FALSE
        OBVIOUS
      <3>1. L - k.pos \in N
        OBVIOUS
      <3>2. n <= L - k.pos
        BY <2>2, <3>1
      <3>3. k.pos \in Nat /\ q.pos \in Nat
        BY <1>2, <2>4
      <3>4. QED
        BY <1>1, <2>3, <2>5, <3>2, <3>3
    <2> HIDE DEF Bad, N
    <2> DEFINE a == q.pos + 1
               b == Data[a]
    <2>6. a \in Positions /\ a \in Nat
      BY <1>2, <2>4 DEF Positions
    <2>7. SkipFrom[a] = IF a > L \/ b = 0 THEN a ELSE SkipFrom[a + Entry(b)]
      BY <2>6, SkipGoes DEF L
    <2>8. CASE q = e
      <3>1. q.left = 0 /\ a = L /\ b = 0
        BY <1>3, <2>8
      <3>2. SkipFrom[a] = L
        BY <2>7, <3>1
      <3>3. q.pos + q.left + 1 = a
        BY <1>2, <2>4, <3>1
      <3>4. QED
        BY <2>4, <3>2, <3>3 DEF Skip
    <2>9. CASE q # e
      <3>1. PICK k \in P : ReadStep(Data, R, q, k)
        BY <1>4, <2>4, <2>9
      <3>2. a <= L
        BY <3>1 DEF ReadStep, L
      <3> HIDE DEF a, b
      <3>a. a = q.pos + 1 /\ b = Data[a] /\ q.pos \in Nat
        BY <1>2, <2>4 DEF a, b
      <3>3. b \in Bytes
        <4>1. a \in 1..L
          BY <1>1, <2>6, <3>2 DEF Positions
        <4>2. QED
          BY <1>1, <4>1, <3>a
      <3>4. CASE PairStep(Data, R, q, k)
        <4>1. k.pos = q.pos + 1 /\ k.left = q.left - 1 /\ q.left \in 1..4
          BY <3>4 DEF PairStep
        <4>2. Skip(k) = L
          BY <2>5, <3>a, <4>1
        <4>3. k.pos + k.left + 1 = q.pos + q.left + 1
          BY <3>a, <4>1
        <4>4. QED
          BY <2>4, <4>2, <4>3 DEF Skip
      <3>5. CASE ~ PairStep(Data, R, q, k)
        <4>1. q.left = 0
          BY <3>1, <3>5 DEF ReadStep, ByteStep, WordStep, NibbleStep
        <4>2. q.pos + q.left + 1 = a
          BY <3>a, <4>1
        <4>3. /\ k.pos > q.pos
              /\ b # 0 /\ k.pos + k.left + 1 = a + Entry(b)
          <5>1. CASE ByteStep(Data, R, q, k)
            <6>1. b \in 1..127 /\ k.pos = q.pos + 1 /\ k.left = 0
              BY <3>a, <5>1 DEF ByteStep
            <6>2. b # 0 /\ Entry(b) = 1
              BY <3>3, <6>1, EntryTakes
            <6>3. QED
              BY <3>a, <6>1, <6>2
          <5>2. CASE WordStep(Data, R, q, k)
            <6>1. b \in 192..255 /\ k.pos = q.pos + 2 /\ k.left = 0
              BY <3>a, <5>2 DEF WordStep
            <6>2. b # 0
              BY <6>1
            <6>3. Entry(b) = 2
              BY <3>3, <6>1, <6>2, EntryTakes
            <6>4. QED
              BY <3>a, <6>1, <6>2, <6>3
          <5>3. CASE NibbleStep(Data, R, q, k)
            <6>1. b \in 128..191 /\ k.pos = q.pos + 1 /\ k.left = Left(b)
              BY <3>a, <5>3 DEF NibbleStep
            <6>2. b # 0
              BY <6>1
            <6>3. Entry(b) = 1 + Left(b)
              BY <3>3, <6>1, <6>2, EntryTakes
            <6>4. Left(b) \in Nat
              BY <1>2, <6>1
            <6>5. QED
              BY <3>a, <6>1, <6>2, <6>3, <6>4
          <5>4. QED
            BY <3>1, <3>5, <5>1, <5>2, <5>3 DEF ReadStep
        <4>4. Skip(k) = L
          BY <2>5, <4>3
        <4>5. SkipFrom[a] = SkipFrom[a + Entry(b)]
          <5>1. ~(a > L)
            BY <1>1, <2>6, <3>2
          <5>2. QED
            BY <2>7, <4>3, <5>1
        <4>6. QED
          BY <2>4, <4>2, <4>3, <4>4, <4>5 DEF Skip
      <3>6. QED
        BY <3>4, <3>5
    <2>10. QED
      BY <2>8, <2>9
  <1>7. Skip(m) = L
    BY <1>6
  <1>8. QED
    BY <1>7 DEF Skip, L

-----------------------------------------------------------------------------
\* At first nothing is written, and nothing is read.
LEMMA InitTable == Init => TableInv
  <1> SUFFICES ASSUME Init PROVE TableInv
    OBVIOUS
  <1>1. Typed /\ WriteInv
    BY InitWrites
  <1>2. ReadInv
    BY DEF Init, ReadInv
  <1>3. QED
    BY <1>1, <1>2 DEF TableInv

\* A step of the writer but the last says nothing of the reader.
LEMMA WriterStays ==
    ASSUME Typed', WriteInv', Writing'
    PROVE  TableInv'
  <1>1. ReadInv'
    BY DEF ReadInv, Writing
  <1>2. QED
    BY <1>1 DEF TableInv

\* Every step keeps the invariant.
LEMMA StepTable == TableInv /\ [Next]_vars => TableInv'
  <1> SUFFICES ASSUME TableInv, [Next]_vars PROVE TableInv'
    OBVIOUS
  <1>a. Typed /\ WriteInv
    BY DEF TableInv
  <1>1. CASE NextReloc
    <2>1. Writing'
      BY <1>1 DEF NextReloc, Writing
    <2>2. QED
      BY <1>a, <1>1, <2>1, NextStep, WriterStays
  <1>2. CASE DumpNibble
    <2>1. Writing'
      BY <1>2 DEF DumpNibble, Dumped, Writing
    <2>2. QED
      BY <1>a, <1>2, <2>1, NibbleStays, WriterStays
  <1>3. CASE DoNibbles
    <2>1. Writing'
      BY <1>3 DEF DoNibbles, Writing
    <2>2. QED
      BY <1>a, <1>3, <2>1, NibblesStay, WriterStays
  <1>4. CASE PackGroup
    <2>1. Writing'
      BY <1>4 DEF PackGroup, Packing, Writing
    <2>2. QED
      BY <1>a, <1>4, <2>1, GroupStays, WriterStays
  <1>5. CASE PackRest
    <2>1. Writing'
      BY <1>5 DEF PackRest, Packing, Writing
    <2>2. QED
      BY <1>a, <1>5, <2>1, RestStays, WriterStays
  <1>6. CASE DumpByte
    <2>1. Writing'
      BY <1>6 DEF DumpByte, Dumped, Writing
    <2>2. QED
      BY <1>a, <1>6, <2>1, ByteStays, WriterStays
  <1>7. CASE DumpExtension
    <2>1. Writing'
      BY <1>7 DEF DumpExtension, Writing
    <2>2. QED
      BY <1>a, <1>7, <2>1, ExtensionStays, WriterStays
  <1>8. CASE DumpWord
    <2>1. Writing'
      BY <1>8 DEF DumpWord, Dumped, Writing
    <2>2. QED
      BY <1>a, <1>8, <2>1, WordStays, WriterStays
  <1>9. CASE DumpEnd
    BY <1>9, EndWritten
  <1>10. CASE RelocByte
    BY <1>10, ByteRead
  <1>11. CASE RelocWord
    BY <1>11, WordRead
  <1>12. CASE RelocNibbles
    BY <1>12, NibblesRead
  <1>13. CASE RelocPair
    BY <1>13, PairRead
  <1>14. CASE RelocEnd
    BY <1>14, EndRead
  <1>15. CASE UNCHANGED vars
    <2>1. Typed'
      BY <1>a, <1>15 DEF Typed, vars
    <2>2. Here' = Here
      BY <1>15 DEF Here, vars
    <2>3. WriteInv'
      BY <1>a, <1>15, <2>2 DEF WriteInv, Writing, AtNext, AtDiff, ToRead, vars
    <2>4. ReadInv'
      BY <1>15 DEF TableInv, ReadInv, vars
    <2>5. QED
      BY <2>1, <2>3, <2>4 DEF TableInv
  <1>16. QED
    BY <1>1, <1>2, <1>3, <1>4, <1>5, <1>6, <1>7, <1>8, <1>9, <1>10, <1>11,
       <1>12, <1>13, <1>14, <1>15 DEF Next, Done

-----------------------------------------------------------------------------
\* do_reloc stays in the table.
LEMMA InTable ==
    ASSUME TableInv
    PROVE  a2 \in Nat /\ a2 <= Len(Data) /\ a6 \in Nat /\ pairs \in 0..4
           /\ relocated \in Seq(Nat)
  <1>1. Typed /\ WriteInv /\ ReadInv
    BY DEF TableInv
  <1>2. Len(Data) \in Nat
    BY <1>1, LenProperties DEF Typed
  <1>3. CASE Writing
    BY <1>1, <1>2, <1>3, EmptySeq DEF WriteInv, ToRead, FIRST
  <1>4. CASE pc \in {"load", "pairs"}
    <2> DEFINE m == At(a2, a6, pairs)
    <2>1. /\ a2 \in Nat /\ a6 \in Nat /\ pairs \in 0..4 /\ relocated \in Seq(Nat)
          /\ m.pos = a2
          /\ \/ Ends(Data, reloc, m)
             \/ \E k : ReadStep(Data, reloc, m, k)
      BY <1>4, ReadsByte
    <2>2. a2 + 1 <= Len(Data)
      BY <1>2, <2>1 DEF Ends, ReadStep
    <2>3. QED
      BY <1>2, <2>1, <2>2
  <1>5. CASE pc = "done"
    BY <1>1, <1>2, <1>5 DEF ReadInv
  <1>6. QED
    BY <1>1, <1>3, <1>4, <1>5 DEF Typed, Writing

\* The invariants give the types.
LEMMA TableTyped == TableInv /\ WriterInv => TypeOK
  <1> SUFFICES ASSUME TableInv, WriterInv PROVE TypeOK
    OBVIOUS
  <1>1. Typed
    BY DEF TableInv
  <1>2. /\ Sound(reloc) /\ Data \in Seq(Bytes) /\ nibbles \in Seq(Nibbles)
        /\ last \in Nat /\ last <= 65535 /\ diff \in Nat /\ diff <= 32767
        /\ (current = 0 \/ current \in reloc)
        /\ pc \in {"next", "diff", "wide", "end", "load", "pairs", "done"}
    BY <1>1 DEF Typed
  <1>3. /\ \A a \in reloc : a \in Nat /\ FIRST <= a /\ a <= TOP
        /\ last <= UWORD /\ diff <= SWORD /\ current \in Nat /\ current <= UWORD
    BY <1>2 DEF Sound, TOP, UWORD, SWORD
  <1>4. FIRST \in Int /\ TOP \in Nat /\ UWORD \in Nat /\ SWORD \in Nat
    BY DEF FIRST, TOP, UWORD, SWORD
  <1>5. reloc \subseteq FIRST..TOP
    BY <1>3, <1>4
  <1>6. last \in 0..UWORD /\ current \in 0..UWORD
    BY <1>2, <1>3, <1>4
  <1>7. diff \in 0..SWORD
    BY <1>2, <1>3, <1>4
  <1>8. Data \in Seq(0..255) /\ nibbles \in Seq(1..NIBBLE)
    BY <1>2 DEF Bytes, Nibbles
  <1>9. Offset \in Nat
    <2>1. Len(Data) \in Nat /\ Len(nibbles) \in Nat
      BY <1>2, LenProperties
    <2>2. QED
      BY <2>1 DEF WriterInv, PassesAgree
  <1>10. a2 \in 0..Len(Data) /\ a6 \in Nat /\ pairs \in 0..4 /\ relocated \in Seq(Nat)
    <2>1. Len(Data) \in Nat
      BY <1>2, LenProperties
    <2>2. QED
      BY <2>1, InTable
  <1>11. QED
    BY <1>2, <1>5, <1>6, <1>7, <1>8, <1>9, <1>10 DEF TypeOK

(***************************************************************************)
(* The program's variables keep their types: a byte of the table fits one, *)
(* a distance a word, and do_reloc reads nothing behind the table.         *)
(***************************************************************************)
THEOREM RelocTyped == Spec => []TypeOK
  <1>1. TableInv /\ WriterInv => TypeOK
    BY TableTyped
  <1>2. QED
    BY InitTable, StepTable, InitWriter, StepWriter, <1>1, PTL DEF Spec

(***************************************************************************)
(* The loop in check_imports that skips a table stops behind it, where     *)
(* do_reloc does.                                                          *)
(***************************************************************************)
THEOREM SkipStopsAlways == Spec => []SkipStopsThere
  <1>1. ASSUME TableInv PROVE SkipStopsThere
    <2> SUFFICES ASSUME pc = "done" PROVE SkipFrom[1] = a2
      BY DEF SkipStopsThere
    <2>1. a2 = Len(Data) /\ Marked(Data, reloc, Start) /\ Data \in Seq(Bytes)
      BY <1>1 DEF TableInv, Typed, ReadInv
    <2>2. PICK P, e : Path(Data, reloc, P, e) /\ Start \in P /\ Ends(Data, reloc, e)
      BY <2>1 DEF Marked
    <2>3. SkipFrom[Start.pos + Start.left + 1] = Len(Data)
      BY <2>1, <2>2, SkipEnds
    <2>4. Start.pos + Start.left + 1 = 1
      BY DEF Start
    <2>5. QED
      BY <2>1, <2>3, <2>4
  <1>2. TableInv => SkipStopsThere
    BY <1>1
  <1>3. QED
    BY InitTable, StepTable, <1>2, PTL DEF Spec

\* The list of a file is one list from beginning to end.
LEMMA ListKept == GapFree(reloc) /\ [Next]_vars => GapFree(reloc)'
  <1> SUFFICES ASSUME GapFree(reloc), [Next]_vars PROVE GapFree(reloc')
    OBVIOUS
  <1>1. reloc' = reloc
    BY DEF Next, vars, NextReloc, DumpNibble, DoNibbles, PackGroup, PackRest, DumpByte,
       DumpExtension, DumpWord, DumpEnd, RelocByte, RelocWord, RelocNibbles, RelocPair,
       RelocEnd, Done, Writes
  <1>2. QED
    BY <1>1

(***************************************************************************)
(* If no address of the list is 16383 + 127 words behind the one before it *)
(* (the distance that RelocTableGap shows to be lost) then do_reloc        *)
(* changes no longword but those the linker listed, each at most once, in  *)
(* order ...                                                               *)
(***************************************************************************)
THEOREM OnlyListedAlways == Spec /\ GapFree(reloc) => []OnlyListedRelocated
  <1>1. ASSUME TableInv, GapFree(reloc) PROVE OnlyListedRelocated
    <2>1. CASE Writing
      <3>1. relocated = <<>>
        BY <1>1, <2>1 DEF TableInv, WriteInv, ToRead
      <3>2. DOMAIN relocated = 1..Len(relocated) /\ Len(relocated) = 0
        BY <3>1, EmptySeq, LenProperties
      <3>3. QED
        BY <3>2 DEF OnlyListedRelocated
    <2>2. CASE pc \in {"load", "pairs", "done"}
      <3>1. relocated \in Seq(Nat) /\ SoFar(reloc, relocated, a6)
        BY <1>1, <2>2 DEF TableInv, ReadInv
      <3>2. DOMAIN relocated = 1..Len(relocated)
        BY <3>1, LenProperties
      <3>3. \A i \in 1..Len(relocated) : /\ relocated[i] \in reloc
                                         /\ i > 1 => relocated[i - 1] < relocated[i]
        BY <1>1, <3>1 DEF SoFar
      <3>4. QED
        BY <3>2, <3>3 DEF OnlyListedRelocated
    <2>3. QED
      BY <1>1, <2>1, <2>2 DEF TableInv, Typed, Writing
  <1>2. TableInv /\ GapFree(reloc) => OnlyListedRelocated
    BY <1>1
  <1>3. QED
    BY InitTable, StepTable, ListKept, <1>2, PTL DEF Spec

(***************************************************************************)
(* ... and has changed all of them when it is done (Fargo.txt, 2.1:        *)
(* programs are relocated before they are executed).                       *)
(***************************************************************************)
THEOREM AllListedAlways == Spec /\ GapFree(reloc) => []AllListedRelocated
  <1>1. ASSUME TableInv, GapFree(reloc) PROVE AllListedRelocated
    <2> SUFFICES ASSUME pc = "done", NEW r \in reloc PROVE r \in ToSet(relocated)
      BY DEF AllListedRelocated
    <2>1. /\ relocated \in Seq(Nat) /\ SoFar(reloc, relocated, a6) /\ r < a6
      BY <1>1 DEF TableInv, ReadInv
    <2>2. PICK i \in 1..Len(relocated) : relocated[i] = r
      BY <1>1, <2>1 DEF SoFar
    <2>3. i \in DOMAIN relocated
      BY <2>1, LenProperties
    <2>4. QED
      BY <2>2, <2>3 DEF ToSet
  <1>2. TableInv /\ GapFree(reloc) => AllListedRelocated
    BY <1>1
  <1>3. QED
    BY InitTable, StepTable, ListKept, <1>2, PTL DEF Spec
=============================================================================
