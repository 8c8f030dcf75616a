-------------------------- MODULE A68kSourceProofs --------------------------
(***************************************************************************)
(* The places that the reader of the source shares out stay apart, for     *)
(* any files, any options and any sizes: the secondary heap, where names   *)
(* grow towards frames, and the block of the two skip tables.              *)
(*                                                                         *)
(* The first needs to know of every open input what it will give back; the *)
(* second, that the fixups of the file being read are the last ones.       *)
(***************************************************************************)
EXTENDS A68kSource, TLAPS

IsSeq(s) == \E S : s \in Seq(S)

\* how far names may grow with n inputs open
Limit(n) == Heap2Size - SizeInF * n

\* each input remembers an end of the names that leaves room for the frames below it
Nested(inf) ==
    /\ IsSeq(inf) /\ Len(inf) >= 1
    /\ \A k \in 1..Len(inf) : /\ "NPtr" \in DOMAIN inf[k]
                              /\ inf[k].NPtr \in Int
                              /\ inf[k].NPtr <= Limit(Len(inf) - k)

HeapInv == Nested(InF) /\ NextFNS \in Int /\ NextFNS <= Limit(Len(InF))

Entries(k) == Len(k.Tab) + (IF k.Start = 0 THEN 0 ELSE 1)

Apart(k) ==
    /\ DOMAIN k = {"Start", "Ptr", "Set1", "Tab", "Fix"}
    /\ IsSeq(k.Tab) /\ IsSeq(k.Fix)
    /\ k.Start # 0 => k.Set1 \in 0..Len(k.Fix)
    /\ Room(Entries(k), Len(k.Fix))

-----------------------------------------------------------------------------
\* Sequences of anything.
LEMMA SeqLen ==
    ASSUME NEW s, IsSeq(s)
    PROVE  Len(s) \in Nat /\ DOMAIN s = 1..Len(s)
BY DEF IsSeq

LEMMA SeqAppend ==
    ASSUME NEW s, IsSeq(s), NEW v
    PROVE  IsSeq(Append(s, v)) /\ Len(Append(s, v)) = Len(s) + 1
<1>1. PICK S : s \in Seq(S)
  BY DEF IsSeq
<1>2. s \in Seq(S \cup {v}) /\ v \in S \cup {v}
  BY <1>1
<1>3. Append(s, v) \in Seq(S \cup {v}) /\ Len(Append(s, v)) = Len(s) + 1
  BY <1>2
<1> QED BY <1>3 DEF IsSeq

LEMMA SeqPrefix ==
    ASSUME NEW s, IsSeq(s), NEW n \in Nat, n <= Len(s)
    PROVE  IsSeq(SubSeq(s, 1, n)) /\ Len(SubSeq(s, 1, n)) = n
<1> DEFINE t == SubSeq(s, 1, n)
<1>1. PICK S : s \in Seq(S)
  BY DEF IsSeq
<1>2. t = [i \in 1..n |-> s[i]]
  BY <1>1
<1>3. \A i \in 1..n : s[i] \in S
  BY <1>1
<1> HIDE DEF t
<1>4. t \in [1..n -> S] /\ DOMAIN t = 1..n
  BY <1>2, <1>3
<1>5. t \in Seq(S)
  BY <1>4
<1>6. Len(t) = n
  BY <1>4, <1>5
<1>7. IsSeq(t)
  BY <1>5 DEF IsSeq
<1> QED BY <1>6, <1>7 DEF t

LEMMA SeqChanged ==
    ASSUME NEW s, IsSeq(s), NEW f, DOMAIN f = DOMAIN s, f = [j \in DOMAIN f |-> f[j]]
    PROVE  IsSeq(f) /\ Len(f) = Len(s)
<1> DEFINE n == Len(s)
           S == {f[j] : j \in 1..n}
<1>1. n \in Nat /\ DOMAIN f = 1..n
  BY SeqLen
<1>2. f \in [1..n -> S]
  BY <1>1
<1>3. f \in Seq(S)
  BY <1>1, <1>2
<1>4. Len(f) = n
  BY <1>1, <1>3
<1> QED BY <1>3, <1>4 DEF IsSeq

-----------------------------------------------------------------------------
(***************************************************************************)
(* The skip tables.                                                        *)
(***************************************************************************)
\* Where there is room, there is room for less.
LEMMA RoomForLess ==
    ASSUME NEW a \in Nat, NEW b \in Nat, NEW c \in Nat, NEW d \in Nat,
           a <= c, b <= d, Room(c, d)
    PROVE  Room(a, b)
<1>1. SizeEnt \in Nat /\ SizeFix \in Nat /\ INCSKSIZ \in Nat
  BY SizesAssumption
<1>2. PICK x \in Nat : c = a + x
  <2>1. c - a \in Nat /\ c = a + (c - a)
    OBVIOUS
  <2> QED BY <2>1
<1>3. PICK y \in Nat : d = b + y
  <2>1. d - b \in Nat /\ d = b + (d - b)
    OBVIOUS
  <2> QED BY <2>1
<1>4. SizeEnt * c = SizeEnt * a + SizeEnt * x /\ SizeEnt * x \in Nat /\ SizeEnt * a \in Nat
  BY <1>1, <1>2
<1>5. SizeFix * d = SizeFix * b + SizeFix * y /\ SizeFix * y \in Nat /\ SizeFix * b \in Nat
  BY <1>1, <1>3
<1>6. SizeEnt * c + SizeFix * d <= INCSKSIZ
  BY DEF Room
<1> DEFINE p == SizeEnt * a
           q == SizeFix * b
           r == SizeEnt * x
           t == SizeFix * y
<1>7. p \in Nat /\ q \in Nat /\ r \in Nat /\ t \in Nat /\ (p + r) + (q + t) <= INCSKSIZ
  BY <1>4, <1>5, <1>6
<1> HIDE DEF p, q, r, t
<1>8. p + q <= INCSKSIZ
  BY <1>1, <1>7
<1> QED BY <1>8 DEF Room, p, q

\* Dropping the file being read gives back its entry and its fixups.
LEMMA DroppedApart ==
    ASSUME NEW k, Apart(k)
    PROVE  Apart(Dropped(k)) /\ (Dropped(k) = k \/ Dropped(k).Start = 0)
<1>1. CASE k.Start = 0
  BY <1>1 DEF Dropped
<1>2. CASE k.Start # 0
  <2> DEFINE d == Dropped(k)
  <2>1. DOMAIN k = {"Start", "Ptr", "Set1", "Tab", "Fix"} /\ IsSeq(k.Tab) /\ IsSeq(k.Fix)
        /\ k.Set1 \in 0..Len(k.Fix) /\ Room(Len(k.Tab) + 1, Len(k.Fix))
    BY <1>2 DEF Apart, Entries
  <2>2. /\ DOMAIN d = {"Start", "Ptr", "Set1", "Tab", "Fix"}
        /\ d.Start = 0 /\ d.Tab = k.Tab
        /\ d.Fix = IF k.Set1 = 0 THEN k.Fix ELSE SubSeq(k.Fix, 1, k.Set1 - 1)
    BY <1>2, <2>1 DEF Dropped
  <2>3. Len(k.Tab) \in Nat /\ Len(k.Fix) \in Nat
    BY <2>1, SeqLen
  <2>4. IsSeq(d.Fix) /\ Len(d.Fix) \in Nat /\ Len(d.Fix) <= Len(k.Fix)
    <3>1. CASE k.Set1 = 0
      BY <2>1, <2>2, <2>3, <3>1
    <3>2. CASE k.Set1 # 0
      <4>1. k.Set1 - 1 \in Nat /\ k.Set1 - 1 <= Len(k.Fix)
        BY <2>1, <2>3, <3>2
      <4> QED BY <2>1, <2>2, <3>2, <4>1, SeqPrefix
    <3> QED BY <3>1, <3>2
  <2> HIDE DEF d
  <2>5. Room(Len(k.Tab), Len(d.Fix))
    BY <2>1, <2>3, <2>4, RoomForLess
  <2>6. Entries(d) = Len(k.Tab)
    BY <2>2, <2>3 DEF Entries
  <2>7. Apart(d)
    BY <2>1, <2>2, <2>4, <2>5, <2>6 DEF Apart
  <2> QED BY <2>2, <2>7 DEF d
<1> QED BY <1>1, <1>2

LEMMA DespiteApart ==
    ASSUME NEW codes, Apart(Incl)
    PROVE  Apart(Despite(codes))
BY DroppedApart DEF Despite

\* A file that ends turns the room kept for it into an entry.
LEMMA EndedApart ==
    ASSUME NEW k, Apart(k), NEW depth
    PROVE  Apart(Ended(k, depth))
<1>1. CASE pass = 2 \/ k.Start = 0 \/ k.Ptr # depth
  BY <1>1 DEF Ended
<1>2. CASE ~(pass = 2 \/ k.Start = 0 \/ k.Ptr # depth)
  <2> DEFINE e == [Set1 |-> k.Set1, Start |-> k.Start, Finish |-> LineCount, MCount |-> MacCount]
             d == Ended(k, depth)
  <2>1. DOMAIN k = {"Start", "Ptr", "Set1", "Tab", "Fix"} /\ IsSeq(k.Tab) /\ IsSeq(k.Fix)
        /\ Room(Len(k.Tab) + 1, Len(k.Fix))
    BY <1>2 DEF Apart, Entries
  <2>2. /\ DOMAIN d = {"Start", "Ptr", "Set1", "Tab", "Fix"}
        /\ d.Start = 0 /\ d.Tab = Append(k.Tab, e)
        /\ d.Fix = IF k.Set1 # 0 /\ Room(Len(k.Tab) + 1, Len(k.Fix) + 1)
                   THEN Append(k.Fix, NoFix) ELSE k.Fix
    BY <1>2, <2>1 DEF Ended
  <2> HIDE DEF d, e
  <2>3. Len(k.Tab) \in Nat /\ Len(k.Fix) \in Nat
    BY <2>1, SeqLen
  <2>4. IsSeq(d.Tab) /\ Len(d.Tab) = Len(k.Tab) + 1
    BY <2>1, <2>2, SeqAppend
  <2>5. IsSeq(d.Fix) /\ Room(Len(k.Tab) + 1, Len(d.Fix))
    <3>1. IsSeq(Append(k.Fix, NoFix)) /\ Len(Append(k.Fix, NoFix)) = Len(k.Fix) + 1
      BY <2>1, SeqAppend
    <3> QED BY <2>1, <2>2, <3>1
  <2>6. Entries(d) = Len(k.Tab) + 1
    BY <2>2, <2>3, <2>4 DEF Entries
  <2>7. Apart(d)
    BY <2>2, <2>4, <2>5, <2>6 DEF Apart
  <2> QED BY <2>7 DEF d
<1> QED BY <1>1, <1>2

\* A new fixup is made where there is room beside the entry to come.
LEMMA FixedApart ==
    ASSUME NEW k, Apart(k), NEW key, NEW val
    PROVE  Apart(Fixed(k, key, val))
<1>1. CASE pass = 2 \/ k.Start = 0
  BY <1>1 DEF Fixed
<1>2. CASE ~(pass = 2 \/ k.Start = 0)
  <2> DEFINE d == Fixed(k, key, val)
             v == [Sym |-> key, Val |-> val]
  <2>1. DOMAIN k = {"Start", "Ptr", "Set1", "Tab", "Fix"} /\ IsSeq(k.Tab) /\ IsSeq(k.Fix)
        /\ k.Set1 \in 0..Len(k.Fix) /\ Room(Len(k.Tab) + 1, Len(k.Fix)) /\ k.Start # 0
    BY <1>2 DEF Apart, Entries
  <2>2. Len(k.Tab) \in Nat /\ Len(k.Fix) \in Nat
    BY <2>1, SeqLen
  <2>3. CASE SetBefore(k, key) # {}
    <3> DEFINE f == [j \in DOMAIN k.Fix |-> IF j \in SetBefore(k, key) THEN v ELSE k.Fix[j]]
    <3>1. d = [k EXCEPT !.Fix = f]
      BY <1>2, <2>3 DEF Fixed
    <3>2. IsSeq(f) /\ Len(f) = Len(k.Fix)
      BY <2>1, SeqChanged
    <3> HIDE DEF f, d
    <3>3. /\ DOMAIN d = {"Start", "Ptr", "Set1", "Tab", "Fix"}
          /\ d.Start = k.Start /\ d.Set1 = k.Set1 /\ d.Tab = k.Tab /\ d.Fix = f
      BY <2>1, <3>1
    <3>4. Apart(d)
      BY <2>1, <3>2, <3>3 DEF Apart, Entries
    <3> QED BY <3>4 DEF d
  <2>4. CASE SetBefore(k, key) = {} /\ ~Room(Len(k.Tab) + 1, Len(k.Fix) + 1)
    <3>1. d = Dropped(k)
      BY <1>2, <2>4 DEF Fixed
    <3> QED BY <3>1, DroppedApart
  <2>5. CASE SetBefore(k, key) = {} /\ Room(Len(k.Tab) + 1, Len(k.Fix) + 1)
    <3>1. d = [k EXCEPT !.Set1 = IF @ = 0 THEN Len(k.Fix) + 1 ELSE @, !.Fix = Append(@, v)]
      BY <1>2, <2>5 DEF Fixed
    <3> HIDE DEF d, v
    <3>2. /\ DOMAIN d = {"Start", "Ptr", "Set1", "Tab", "Fix"}
          /\ d.Start = k.Start /\ d.Tab = k.Tab /\ d.Fix = Append(k.Fix, v)
          /\ d.Set1 = IF k.Set1 = 0 THEN Len(k.Fix) + 1 ELSE k.Set1
      BY <2>1, <3>1
    <3>3. IsSeq(d.Fix) /\ Len(d.Fix) = Len(k.Fix) + 1
      BY <2>1, <3>2, SeqAppend
    <3>4. d.Set1 \in 0..Len(d.Fix)
      BY <2>1, <2>2, <3>2, <3>3
    <3>5. Apart(d)
      BY <2>1, <2>5, <3>2, <3>3, <3>4 DEF Apart, Entries
    <3> QED BY <3>5 DEF d
  <2> QED BY <2>3, <2>4, <2>5
<1> QED BY <1>1, <1>2

-----------------------------------------------------------------------------
\* Every step changes the tables in one of these ways.
LEMMA TablesStep ==
    ASSUME Apart(Incl), [Next]_vars
    PROVE  Apart(Incl')
<1>1. CASE UNCHANGED Incl
  BY <1>1
<1>2. CASE \E codes : Incl' = Despite(codes)
  BY <1>2, DespiteApart
<1>3. CASE \E codes, depth : Incl' = Ended(Despite(codes), depth)
  BY <1>3, DespiteApart, EndedApart
<1>4. CASE \E codes, key, val : Incl' = Fixed(Despite(codes), key, val)
  BY <1>4, DespiteApart, FixedApart
<1>5. CASE Incl' = Dropped(Incl)
  BY <1>5, DroppedApart
<1>6. CASE Starting /\ Incl' = [Incl EXCEPT !.Start = LineCount, !.Ptr = InFNum + 1, !.Set1 = 0]
  <2>1. /\ DOMAIN Incl = {"Start", "Ptr", "Set1", "Tab", "Fix"} /\ IsSeq(Incl.Tab) /\ IsSeq(Incl.Fix)
        /\ Room(Len(Incl.Tab) + 1, Len(Incl.Fix))
    BY <1>6 DEF Apart, Starting
  <2>2. /\ DOMAIN Incl' = {"Start", "Ptr", "Set1", "Tab", "Fix"}
        /\ Incl'.Tab = Incl.Tab /\ Incl'.Fix = Incl.Fix /\ Incl'.Set1 = 0
    BY <1>6, <2>1
  <2>3. Len(Incl.Tab) \in Nat /\ Len(Incl.Fix) \in Nat
    BY <2>1, SeqLen
  <2>4. Room(Len(Incl.Tab), Len(Incl.Fix))
    BY <2>1, <2>3, RoomForLess
  <2>5. Room(Entries(Incl'), Len(Incl'.Fix))
    BY <2>1, <2>2, <2>3, <2>4 DEF Entries
  <2> QED BY <2>1, <2>2, <2>3, <2>5 DEF Apart
<1>7. CASE LineParts
  <2>1. UNCHANGED Incl \/ EndOfInput
    BY <1>7 DEF LineParts, EndOfSource, ReturnToOuter
  <2> QED BY <1>1, <1>3, <2>1 DEF EndOfInput
<1>8. CASE GetObjectCode
  <2>1. CASE Code
    BY <1>2, <2>1 DEF Code, Error
  <2>2. CASE Equ
    BY <1>2, <2>2 DEF Equ, Error
  <2>3. CASE Set
    BY <1>4, <2>3 DEF Set
  <2>4. CASE If
    BY <1>2, <2>4 DEF If, Error
  <2>5. CASE NoInclude
    BY <1>2, <2>5 DEF NoInclude, Error
  <2>6. CASE Include
    BY <1>1, <1>6, <2>6 DEF Include
  <2>7. CASE Macro
    BY <1>2, <2>7 DEF Macro, Error
  <2>8. CASE NoCode
    BY <1>2, <2>8 DEF NoCode, Error
  <2>9. CASE NoOpcode \/ SkipInclude \/ Incbin \/ CallMacro \/ CallFile \/ HeapOverflow
    BY <1>1, <2>9 DEF NoOpcode, SkipInclude, Incbin, CallMacro, CallFile, HeapOverflow, skips
  <2> QED BY <1>8, <2>1, <2>2, <2>3, <2>4, <2>5, <2>6, <2>7, <2>8, <2>9 DEF GetObjectCode
<1>9. CASE MacroBody
  BY <1>2, <1>9 DEF MacroBody, Error
<1>10. CASE Label1
  BY <1>1, <1>5, <1>10 DEF Label1
<1>11. CASE Label2
  BY <1>1, <1>2, <1>11 DEF Label2, Error
<1>12. CASE NoEnd
  BY <1>2, <1>12 DEF NoEnd, Error
<1>13. CASE UNCHANGED vars
  BY <1>1, <1>13 DEF vars, skips
<1> QED BY <1>7, <1>8, <1>9, <1>10, <1>11, <1>12, <1>13 DEF Next

\* At the start both tables are empty.
LEMMA TablesInit == Init => Apart(Incl)
<1> SUFFICES ASSUME Init PROVE Apart(Incl)
  OBVIOUS
<1>1. Incl = NoEntries
  BY DEF Init
<1>2. IsSeq(<<>>) /\ Len(<<>>) = 0
  BY DEF IsSeq
<1>3. Room(0, 0)
  BY SizesAssumption DEF Room
<1> QED BY <1>1, <1>2, <1>3 DEF Apart, Entries, NoEntries

(***************************************************************************)
(* However files, SETs and errors come one after the other, the table of   *)
(* skippable INCLUDE files never meets that of their fixups, and the file  *)
(* that is being read finds room for its entry when it ends.               *)
(***************************************************************************)
THEOREM TablesApartAlways == Spec => []TablesApart
<1>1. Apart(Incl) /\ [Next]_vars => Apart(Incl)'
  BY TablesStep
<1>2. Apart(Incl) => TablesApart
  BY DEF Apart, Entries, TablesApart, Room
<1> QED BY TablesInit, <1>1, <1>2, PTL DEF Spec

-----------------------------------------------------------------------------
(***************************************************************************)
(* The secondary heap.                                                     *)
(***************************************************************************)
\* A sequence with another first element, one more, or one less.
LEMMA SeqParts ==
    ASSUME NEW s, IsSeq(s), Len(s) >= 1, NEW v
    PROVE  /\ Len(s) \in Nat /\ Head(s) = s[1]
           /\ IsSeq(Tail(s)) /\ Len(Tail(s)) = Len(s) - 1
           /\ \A k \in 1..(Len(s) - 1) : Tail(s)[k] = s[k + 1]
           /\ IsSeq(<<v>> \o s) /\ Len(<<v>> \o s) = Len(s) + 1
           /\ (<<v>> \o s)[1] = v /\ \A k \in 2..(Len(s) + 1) : (<<v>> \o s)[k] = s[k - 1]
           /\ IsSeq(<<v>> \o Tail(s)) /\ Len(<<v>> \o Tail(s)) = Len(s)
           /\ (<<v>> \o Tail(s))[1] = v /\ \A k \in 2..Len(s) : (<<v>> \o Tail(s))[k] = s[k]
<1>1. PICK S : s \in Seq(S)
  BY DEF IsSeq
<1> DEFINE T == S \cup {v}
           t == Tail(s)
<1>2. s \in Seq(T) /\ v \in T /\ Len(s) \in Nat /\ Head(s) = s[1]
  BY <1>1
<1> HIDE DEF T
<1>3. t \in Seq(T) /\ Len(t) = Len(s) - 1 /\ \A k \in 1..(Len(s) - 1) : t[k] = s[k + 1]
  <2>1. s # <<>>
    BY <1>2
  <2> QED BY <1>2, <2>1
<1>4. <<v>> \in Seq(T) /\ Len(<<v>>) = 1 /\ <<v>>[1] = v
  BY <1>2
<1>5. /\ <<v>> \o s \in Seq(T) /\ Len(<<v>> \o s) = Len(s) + 1
      /\ (<<v>> \o s)[1] = v /\ \A k \in 2..(Len(s) + 1) : (<<v>> \o s)[k] = s[k - 1]
  BY <1>2, <1>4
<1> HIDE DEF t
<1>6. /\ <<v>> \o t \in Seq(T) /\ Len(<<v>> \o t) = Len(t) + 1
      /\ (<<v>> \o t)[1] = v /\ \A k \in 2..(Len(t) + 1) : (<<v>> \o t)[k] = t[k - 1]
  BY <1>3, <1>4
<1>7. Len(<<v>> \o t) = Len(s) /\ \A k \in 2..Len(s) : (<<v>> \o t)[k] = s[k]
  <2>1. Len(t) + 1 = Len(s)
    BY <1>2, <1>3
  <2>2. ASSUME NEW k \in 2..Len(s) PROVE (<<v>> \o t)[k] = s[k]
    <3>1. k \in 2..(Len(t) + 1) /\ k - 1 \in 1..(Len(s) - 1) /\ k - 1 + 1 = k
      BY <1>2, <2>1
    <3> QED BY <1>3, <1>6, <3>1
  <2> QED BY <1>6, <2>1, <2>2
<1> QED BY <1>2, <1>3, <1>5, <1>6, <1>7 DEF IsSeq, t

LEMMA NestedChanged ==
    ASSUME NEW inf, Nested(inf), NEW f, "NPtr" \in DOMAIN f, f.NPtr = inf[1].NPtr
    PROVE  Nested(<<f>> \o Tail(inf)) /\ Len(<<f>> \o Tail(inf)) = Len(inf)
<1> DEFINE new == <<f>> \o Tail(inf)
<1>1. IsSeq(inf) /\ Len(inf) >= 1
  BY DEF Nested
<1>2. /\ Len(inf) \in Nat /\ IsSeq(new) /\ Len(new) = Len(inf)
      /\ new[1] = f /\ \A k \in 2..Len(inf) : new[k] = inf[k]
  BY <1>1, SeqParts
<1> HIDE DEF new
<1>3. ASSUME NEW k \in 1..Len(inf)
      PROVE  "NPtr" \in DOMAIN new[k] /\ new[k].NPtr \in Int /\ new[k].NPtr <= Limit(Len(inf) - k)
  <2>1. /\ "NPtr" \in DOMAIN inf[k] /\ inf[k].NPtr \in Int
        /\ inf[k].NPtr <= Limit(Len(inf) - k)
    BY DEF Nested
  <2>2. CASE k = 1
    BY <1>2, <2>1, <2>2
  <2>3. CASE k # 1
    <3>1. k \in 2..Len(inf)
      BY <1>2, <2>3
    <3> QED BY <1>2, <2>1, <3>1
  <2> QED BY <2>2, <2>3
<1>4. Nested(new)
  BY <1>1, <1>2, <1>3 DEF Nested
<1> QED BY <1>2, <1>4 DEF new

LEMMA NestedPushed ==
    ASSUME NEW inf, Nested(inf), NEW f, "NPtr" \in DOMAIN f,
           f.NPtr \in Int, f.NPtr <= Limit(Len(inf))
    PROVE  Nested(<<f>> \o inf) /\ Len(<<f>> \o inf) = Len(inf) + 1
<1> DEFINE new == <<f>> \o inf
<1>1. IsSeq(inf) /\ Len(inf) >= 1
  BY DEF Nested
<1>2. /\ Len(inf) \in Nat /\ IsSeq(new) /\ Len(new) = Len(inf) + 1
      /\ new[1] = f /\ \A k \in 2..(Len(inf) + 1) : new[k] = inf[k - 1]
  BY <1>1, SeqParts
<1> HIDE DEF new
<1>3. ASSUME NEW k \in 1..(Len(inf) + 1)
      PROVE  /\ "NPtr" \in DOMAIN new[k] /\ new[k].NPtr \in Int
             /\ new[k].NPtr <= Limit(Len(inf) + 1 - k)
  <2>1. CASE k = 1
    <3>1. Len(inf) + 1 - k = Len(inf)
      BY <1>2, <2>1
    <3>2. new[k] = f
      BY <1>2, <2>1
    <3> QED BY <3>1, <3>2
  <2>2. CASE k # 1
    <3>1. k \in 2..(Len(inf) + 1) /\ k - 1 \in 1..Len(inf) /\ Len(inf) + 1 - k = Len(inf) - (k - 1)
      BY <1>2, <2>2
    <3>2. /\ "NPtr" \in DOMAIN inf[k - 1] /\ inf[k - 1].NPtr \in Int
          /\ inf[k - 1].NPtr <= Limit(Len(inf) - (k - 1))
      BY <3>1 DEF Nested
    <3>3. new[k] = inf[k - 1]
      BY <1>2, <3>1
    <3> QED BY <3>1, <3>2, <3>3
  <2> QED BY <2>1, <2>2
<1>4. Len(new) >= 1
  BY <1>1, <1>2
<1>5. Nested(new)
  BY <1>2, <1>3, <1>4 DEF Nested
<1> QED BY <1>2, <1>5 DEF new

LEMMA NestedPopped ==
    ASSUME NEW inf, Nested(inf), Len(inf) > 1
    PROVE  /\ Nested(Tail(inf)) /\ Len(Tail(inf)) = Len(inf) - 1
           /\ Head(inf).NPtr \in Int /\ Head(inf).NPtr <= Limit(Len(inf) - 1)
<1> DEFINE new == Tail(inf)
<1>1. IsSeq(inf) /\ Len(inf) >= 1
  BY DEF Nested
<1>2. /\ Len(inf) \in Nat /\ IsSeq(new) /\ Len(new) = Len(inf) - 1 /\ Head(inf) = inf[1]
      /\ \A k \in 1..(Len(inf) - 1) : new[k] = inf[k + 1]
  BY <1>1, SeqParts
<1> HIDE DEF new
<1>3. ASSUME NEW k \in 1..(Len(inf) - 1)
      PROVE  /\ "NPtr" \in DOMAIN new[k] /\ new[k].NPtr \in Int
             /\ new[k].NPtr <= Limit(Len(inf) - 1 - k)
  <2>1. k + 1 \in 1..Len(inf) /\ Len(inf) - 1 - k = Len(inf) - (k + 1)
    BY <1>2
  <2>2. /\ "NPtr" \in DOMAIN inf[k + 1] /\ inf[k + 1].NPtr \in Int
        /\ inf[k + 1].NPtr <= Limit(Len(inf) - (k + 1))
    BY <2>1 DEF Nested
  <2>3. new[k] = inf[k + 1]
    BY <1>2
  <2> QED BY <2>1, <2>2, <2>3
<1>4. Len(new) >= 1
  BY <1>2
<1>5. Nested(new)
  BY <1>2, <1>3, <1>4 DEF Nested
<1>6. 1 \in 1..Len(inf)
  BY <1>1, <1>2
<1> QED BY <1>2, <1>5, <1>6 DEF Nested, new

\* Remembering where a file is read touches no mark.
LEMMA RememberedNested ==
    ASSUME Nested(InF)
    PROVE  Nested(Remembered) /\ Len(Remembered) = Len(InF)
<1> DEFINE f == [Top EXCEPT !.Pos = In.at]
<1>1. IsSeq(InF) /\ Len(InF) >= 1
  BY DEF Nested
<1>2. Len(InF) \in Nat /\ Top = InF[1]
  BY <1>1, SeqParts DEF Top
<1>3. "NPtr" \in DOMAIN Top
  BY <1>1, <1>2 DEF Nested
<1>4. "NPtr" \in DOMAIN f /\ f.NPtr = InF[1].NPtr
  BY <1>2, <1>3
<1> HIDE DEF f
<1>5. Nested(<<f>> \o Tail(InF)) /\ Len(<<f>> \o Tail(InF)) = Len(InF)
  BY <1>4, NestedChanged
<1> QED BY <1>5 DEF Remembered, f

\* Another input with its names, where Heap2Space found room.
LEMMA EnterKeeps ==
    ASSUME HeapInv, NEW uptr, NEW path, NEW args, NEW narg, NEW mcnt, NEW names \in Nat,
           Fits(names), Enter(Frame(uptr, path, args, narg, mcnt), names)
    PROVE  HeapInv'
<1> DEFINE f == Frame(uptr, path, args, narg, mcnt)
<1>1. "NPtr" \in DOMAIN f /\ f.NPtr = NextFNS
  BY DEF Frame
<1>2. InF' = <<f>> \o Remembered /\ NextFNS' = NextFNS + names
  BY DEF Enter
<1> HIDE DEF f
<1>3. Nested(InF) /\ NextFNS \in Int /\ NextFNS <= Limit(Len(InF))
  BY DEF HeapInv
<1>4. Nested(Remembered) /\ Len(Remembered) = Len(InF)
  BY <1>3, RememberedNested
<1>5. Nested(InF') /\ Len(InF') = Len(InF) + 1
  BY <1>1, <1>2, <1>3, <1>4, NestedPushed
<1>6. NextFNS' <= Limit(Len(InF'))
  BY <1>2, <1>5 DEF Fits, Limit
<1> QED BY <1>2, <1>3, <1>5, <1>6 DEF HeapInv

LEMMA UnchangedHeap ==
    ASSUME HeapInv, UNCHANGED <<InF, NextFNS>>
    PROVE  HeapInv'
BY DEF HeapInv

LEMMA RememberedKeeps ==
    ASSUME HeapInv, InF' = Remembered, UNCHANGED NextFNS
    PROVE  HeapInv'
BY RememberedNested DEF HeapInv

\* Between statements: the next line, or back to the outer input.
LEMMA LinePartsKeeps ==
    ASSUME HeapInv, LineParts
    PROVE  HeapInv'
<1>1. Nested(InF) /\ NextFNS \in Int /\ NextFNS <= Limit(Len(InF))
  BY DEF HeapInv
<1>2. CASE HeaderStatement \/ EndOfSource
  BY <1>2, UnchangedHeap DEF HeaderStatement, EndOfSource, input
<1>3. CASE TakeStatement \/ PassOver
  <2> DEFINE f == [Top EXCEPT !.UPtr = @ + 1]
  <2>1. UNCHANGED InF \/ InF' = <<f>> \o Tail(InF)
    BY <1>3 DEF TakeStatement, PassOver, Advance
  <2>2. IsSeq(InF) /\ Len(InF) >= 1
    BY <1>1 DEF Nested
  <2>3. Len(InF) \in Nat /\ Top = InF[1]
    BY <2>2, SeqParts DEF Top
  <2>4. "NPtr" \in DOMAIN Top
    BY <1>1, <2>2, <2>3 DEF Nested
  <2>5. "NPtr" \in DOMAIN f /\ f.NPtr = InF[1].NPtr
    BY <2>3, <2>4
  <2> HIDE DEF f
  <2>6. Nested(<<f>> \o Tail(InF)) /\ Len(<<f>> \o Tail(InF)) = Len(InF)
    BY <1>1, <2>5, NestedChanged
  <2>7. NextFNS' = NextFNS
    BY <1>3 DEF TakeStatement, PassOver
  <2> QED BY <1>1, <2>1, <2>6, <2>7 DEF HeapInv
<1>4. CASE ReturnToOuter
  <2>1. InF' = Tail(InF) /\ NextFNS' = Head(InF).NPtr /\ Len(InF) - 1 > 0
    BY <1>4 DEF ReturnToOuter, Top, InFNum
  <2>2. Len(InF) \in Nat
    BY <1>1, SeqLen DEF Nested
  <2>3. Len(InF) > 1
    BY <2>1, <2>2
  <2>4. Nested(Tail(InF)) /\ Len(Tail(InF)) = Len(InF) - 1
        /\ Head(InF).NPtr \in Int /\ Head(InF).NPtr <= Limit(Len(InF) - 1)
    BY <1>1, <2>3, NestedPopped
  <2> QED BY <2>1, <2>4 DEF HeapInv
<1> QED BY <1>2, <1>3, <1>4 DEF LineParts

\* INCLUDE and macro calls enter an input, everything else stays in it.
LEMMA GetObjectCodeKeeps ==
    ASSUME HeapInv, GetObjectCode
    PROVE  HeapInv'
<1>1. Names \in Nat
  BY DEF Names, Arguments
<1>2. CASE Include
  BY <1>2, EnterKeeps DEF Include
<1>3. CASE CallMacro
  <2>1. /\ Fits(Names)
        /\ Enter(Frame(sym[Called].text + 1, <<>>, Arguments, Len(Arguments), MacCount + 1), Names)
    BY <1>3 DEF CallMacro
  <2> QED BY <1>1, <2>1, EnterKeeps
<1>4. CASE CallFile
  <2>1. PICK file : /\ Fits(Names)
                    /\ Enter(Frame(0, file.fd, Arguments, Len(Arguments), MacCount), Names)
    BY <1>4 DEF CallFile
  <2> QED BY <1>1, <2>1, EnterKeeps
<1>5. CASE NoInclude \/ Incbin \/ NoCode
  BY <1>5, RememberedKeeps DEF NoInclude, Incbin, NoCode
<1>6. CASE Code \/ NoOpcode \/ Equ \/ Set \/ If \/ SkipInclude \/ Macro \/ HeapOverflow
  BY <1>6, UnchangedHeap DEF Code, NoOpcode, Equ, Set, If, SkipInclude, Macro, HeapOverflow, input
<1> QED BY <1>2, <1>3, <1>4, <1>5, <1>6 DEF GetObjectCode

\* A pass starts with the main file alone.
LEMMA MainFile ==
    ASSUME NEW f, "NPtr" \in DOMAIN f, f.NPtr = 0
    PROVE  Nested(<<f>>) /\ Len(<<f>>) = 1 /\ 1 <= Limit(1)
<1>1. IsSeq(<<f>>) /\ Len(<<f>>) = 1 /\ <<f>>[1] = f
  <2>1. <<f>> \in Seq({f})
    OBVIOUS
  <2> QED BY <2>1 DEF IsSeq
<1>2. 0 <= Limit(0) /\ 1 <= Limit(1)
  BY SizesAssumption DEF Limit
<1>3. ASSUME NEW k \in 1..1
      PROVE "NPtr" \in DOMAIN <<f>>[k] /\ <<f>>[k].NPtr \in Int /\ <<f>>[k].NPtr <= Limit(1 - k)
  <2>1. k = 1 /\ 1 - k = 0
    OBVIOUS
  <2> QED BY <1>1, <1>2, <2>1
<1> QED BY <1>1, <1>2, <1>3 DEF Nested

(***************************************************************************)
(* However deep INCLUDE files and macros call each other, also without     *)
(* end, the names and arguments kept for them never reach the frames of    *)
(* the open inputs.                                                        *)
(***************************************************************************)
THEOREM HeapApartAlways == Spec => []HeapApart
<1> DEFINE main == [UPtr |-> 0, path |-> <<"", "main">>, Pos |-> 0, args |-> <<>>, NArg |-> -1,
                    MCnt |-> 0, NPtr |-> 0]
<1>1. Nested(<<main>>) /\ Len(<<main>>) = 1 /\ 1 <= Limit(1)
  <2>1. "NPtr" \in DOMAIN main /\ main.NPtr = 0
    OBVIOUS
  <2> HIDE DEF main
  <2> QED BY <2>1, MainFile
<1>2. Init => HeapInv
  <2> SUFFICES ASSUME Init PROVE HeapInv
    OBVIOUS
  <2>1. InF = <<main>> /\ NextFNS = 1
    BY DEF Init
  <2> HIDE DEF main
  <2> QED BY <1>1, <2>1 DEF HeapInv
<1>3. HeapInv /\ [Next]_vars => HeapInv'
  <2> SUFFICES ASSUME HeapInv, [Next]_vars PROVE HeapInv'
    OBVIOUS
  <2>1. CASE LineParts
    BY <2>1, LinePartsKeeps
  <2>2. CASE GetObjectCode
    BY <2>2, GetObjectCodeKeeps
  <2>3. CASE MacroBody \/ Label2 \/ NoEnd
    BY <2>3, UnchangedHeap DEF MacroBody, Label2, NoEnd, input
  <2>4. CASE Label1
    <3>1. UNCHANGED input \/ (InF' = <<main>> /\ NextFNS' = 1)
      BY <2>4 DEF Label1, StartPass
    <3>2. CASE UNCHANGED input
      BY <3>2, UnchangedHeap DEF input
    <3> HIDE DEF main
    <3>3. CASE InF' = <<main>> /\ NextFNS' = 1
      BY <1>1, <3>3 DEF HeapInv
    <3> QED BY <3>1, <3>2, <3>3
  <2>5. CASE UNCHANGED vars
    BY <2>5, UnchangedHeap DEF vars, input
  <2> QED BY <2>1, <2>2, <2>3, <2>4, <2>5 DEF Next
<1>4. HeapInv => HeapApart
  BY DEF HeapInv, HeapApart, Limit
<1> QED BY <1>2, <1>3, <1>4, PTL DEF Spec
=============================================================================
