--------------------------- MODULE A68kExprProofs ---------------------------
(***************************************************************************)
(* The stacks of GetValue agree, and its value is what the operand says,   *)
(* for every operand and every source.                                     *)
(*                                                                         *)
(* The first inductive invariant counts two kinds of entries of the stack  *)
(* of operators: those that wait for a term, and the open parentheses.     *)
(* How many there are up to each place is a function that extends or       *)
(* shrinks with the stack, so no induction over the stack is needed.       *)
(*                                                                         *)
(* The second says what of the operand has been read: each entry is a      *)
(* token of it, and the terms that wait are the values of the spans        *)
(* between them.                                                           *)
(***************************************************************************)
EXTENDS A68kExpr, FiniteSetTheorems, WellFoundedInduction, TLAPS

Binary == {"+", "-", "*", "/", "&", "!", "|", "<<", ">>"}
Entries == [chr : Binary \cup {"~"}, prec : {3, 4, 5, 6, 9}] \cup {[chr |-> "(", prec |-> 1]}
Bottom  == [chr |-> " ", prec |-> -1]

StackOfOps(ops) ==
    /\ ops \in Seq(Entries \cup {Bottom})
    /\ Len(ops) >= 1 /\ ops[1] = Bottom
    /\ \A k \in 2..Len(ops) : ops[k] \in Entries

\* c[k] of the entries 2..k are a parenthesis, or are not
Counts(ops, c, paren) ==
    /\ c \in [1..Len(ops) -> Nat]
    /\ c[1] = 0
    /\ \A k \in 2..Len(ops) :
          c[k] = c[k - 1] + (IF (ops[k].chr = "(") = paren THEN 1 ELSE 0)

Counted(ops, n, paren) == \E c : Counts(ops, c, paren) /\ c[Len(ops)] = n

(* The operators wait for "need" terms, "open" parentheses are among them. *)
Agree(ops, need, open) ==
    StackOfOps(ops) /\ Counted(ops, need, FALSE) /\ Counted(ops, open, TRUE)

IsStack(s) == \E S : s \in Seq(S)

Parsing == parser \in {"start", "term", "close", "calc"}
Have == IF parser \in {"close", "calc"} THEN Len(Term) - 1 ELSE Len(Term)

CalledWith ==
    parser = "calc" =>
        \/ newprec = 0 /\ parncnt = 0
        \/ newprec = 2 /\ parncnt > 0
        \/ newprec \in {3, 4, 5, 6} /\ Tok \in Binary

ParserInv ==
    /\ parser \in {"start", "term", "close", "calc", "done"}
    /\ Parsing => IsStack(Term) /\ Agree(Ops, Have, parncnt) /\ CalledWith

-----------------------------------------------------------------------------
\* What is left of a sequence whose last element is taken away.
LEMMA PopShorter ==
    ASSUME NEW S, NEW s \in Seq(S), Len(s) >= 1
    PROVE  /\ Pop(s) \in Seq(S)
           /\ Len(Pop(s)) = Len(s) - 1
           /\ \A k \in 1..(Len(s) - 1) : Pop(s)[k] = s[k]
<1>1. Len(s) \in Nat
  OBVIOUS
<1>2. Pop(s) = [i \in 1..(Len(s) - 1) |-> s[i]]
  BY <1>1 DEF Pop
<1>3. \A i \in 1..(Len(s) - 1) : s[i] \in S
  BY <1>1
<1>4. Len(s) - 1 \in Nat
  BY <1>1
<1>5. Pop(s) \in [1..(Len(s) - 1) -> S]
  BY <1>2, <1>3
<1>6. Pop(s) \in Seq(S)
  BY <1>4, <1>5
<1>7. DOMAIN Pop(s) = 1..(Len(s) - 1)
  BY <1>2
<1>8. Len(Pop(s)) = Len(s) - 1
  BY <1>4, <1>6, <1>7
<1> QED BY <1>2, <1>6, <1>8

\* A stack of terms grows and shrinks by one.
LEMMA StackPush ==
    ASSUME NEW s, IsStack(s), NEW v
    PROVE  IsStack(Append(s, v)) /\ Len(Append(s, v)) = Len(s) + 1 /\ Len(s) \in Nat
<1>1. PICK S : s \in Seq(S)
  BY DEF IsStack
<1>2. s \in Seq(S \cup {v}) /\ v \in S \cup {v}
  BY <1>1
<1>3. Append(s, v) \in Seq(S \cup {v}) /\ Len(Append(s, v)) = Len(s) + 1 /\ Len(s) \in Nat
  BY <1>2
<1> QED BY <1>3 DEF IsStack

LEMMA StackPop ==
    ASSUME NEW s, IsStack(s), Len(s) >= 1
    PROVE  IsStack(Pop(s)) /\ Len(Pop(s)) = Len(s) - 1 /\ Len(s) \in Nat
<1>1. PICK S : s \in Seq(S)
  BY DEF IsStack
<1>2. Pop(s) \in Seq(S) /\ Len(Pop(s)) = Len(s) - 1
  BY <1>1, PopShorter
<1>3. Len(s) \in Nat
  BY <1>1
<1> QED BY <1>2, <1>3 DEF IsStack

-----------------------------------------------------------------------------
\* One more entry: the count goes on.
LEMMA CountedPush ==
    ASSUME NEW S, NEW ops \in Seq(S), Len(ops) >= 1, NEW e \in S, NEW paren \in BOOLEAN,
           NEW n, Counted(ops, n, paren)
    PROVE  /\ n \in Nat
           /\ Counted(Append(ops, e), n + (IF (e.chr = "(") = paren THEN 1 ELSE 0), paren)
<1> DEFINE m == Len(ops)
           more == IF (e.chr = "(") = paren THEN 1 ELSE 0
           longer == Append(ops, e)
<1>1. PICK c : Counts(ops, c, paren) /\ c[m] = n
  BY DEF Counted
<1> DEFINE d == [k \in 1..(m + 1) |-> IF k = m + 1 THEN c[m] + more ELSE c[k]]
<1>2. m \in Nat /\ m >= 1 /\ more \in Nat
  OBVIOUS
<1>3. Len(longer) = m + 1 /\ longer[m + 1] = e /\ \A k \in 1..m : longer[k] = ops[k]
  OBVIOUS
<1>4. c \in [1..m -> Nat] /\ c[1] = 0
  BY <1>1 DEF Counts
<1>5. d \in [1..(m + 1) -> Nat] /\ d[1] = 0
  BY <1>2, <1>4
<1>6. ASSUME NEW k \in 2..(m + 1)
      PROVE  d[k] = d[k - 1] + (IF (longer[k].chr = "(") = paren THEN 1 ELSE 0)
  <2>1. CASE k = m + 1
    BY <1>2, <1>3, <2>1
  <2>2. CASE k # m + 1
    <3>1. k \in 2..m /\ k - 1 \in 1..m /\ k \in 1..m
      BY <1>2, <2>2
    <3>2. c[k] = c[k - 1] + (IF (ops[k].chr = "(") = paren THEN 1 ELSE 0)
      BY <1>1, <3>1 DEF Counts
    <3>3. d[k] = c[k] /\ d[k - 1] = c[k - 1] /\ longer[k] = ops[k]
      BY <1>2, <1>3, <2>2, <3>1
    <3> QED BY <3>2, <3>3
  <2> QED BY <2>1, <2>2
<1>7. d[m + 1] = n + more
  BY <1>1, <1>2
<1>8. n \in Nat
  BY <1>1, <1>2, <1>4
<1> HIDE DEF d, more
<1>9. Counts(longer, d, paren)
  BY <1>3, <1>5, <1>6 DEF Counts
<1>10. Counted(longer, n + more, paren)
  BY <1>3, <1>7, <1>9 DEF Counted
<1> QED BY <1>8, <1>10 DEF more

\* One entry less: the count goes back.
LEMMA CountedPop ==
    ASSUME NEW S, NEW ops \in Seq(S), Len(ops) >= 2, NEW paren \in BOOLEAN,
           NEW n, Counted(ops, n, paren)
    PROVE  \E m \in Nat : /\ Counted(Pop(ops), m, paren)
                          /\ n = m + (IF (ops[Len(ops)].chr = "(") = paren THEN 1 ELSE 0)
<1> DEFINE l == Len(ops)
<1>1. PICK c : Counts(ops, c, paren) /\ c[l] = n
  BY DEF Counted
<1> DEFINE d == [k \in 1..(l - 1) |-> c[k]]
<1>2. l \in Nat /\ l >= 2
  OBVIOUS
<1>3. Len(Pop(ops)) = l - 1 /\ \A k \in 1..(l - 1) : Pop(ops)[k] = ops[k]
  BY <1>2, PopShorter
<1>4. c \in [1..l -> Nat] /\ c[1] = 0
  BY <1>1 DEF Counts
<1>5. d \in [1..(l - 1) -> Nat] /\ d[1] = 0
  BY <1>2, <1>4
<1>6. ASSUME NEW k \in 2..(l - 1)
      PROVE  d[k] = d[k - 1] + (IF (Pop(ops)[k].chr = "(") = paren THEN 1 ELSE 0)
  <2>1. k \in 2..l /\ k \in 1..(l - 1) /\ k - 1 \in 1..(l - 1)
    BY <1>2
  <2>2. c[k] = c[k - 1] + (IF (ops[k].chr = "(") = paren THEN 1 ELSE 0)
    BY <1>1, <2>1 DEF Counts
  <2> QED BY <1>3, <2>1, <2>2
<1>7. c[l] = c[l - 1] + (IF (ops[l].chr = "(") = paren THEN 1 ELSE 0)
  BY <1>1, <1>2 DEF Counts
<1>8. d[l - 1] = c[l - 1] /\ d[l - 1] \in Nat
  BY <1>2, <1>4
<1> HIDE DEF d
<1>9. Counts(Pop(ops), d, paren)
  BY <1>3, <1>5, <1>6 DEF Counts
<1>10. Counted(Pop(ops), d[l - 1], paren)
  BY <1>3, <1>9 DEF Counted
<1>11. n = d[l - 1] + (IF (ops[l].chr = "(") = paren THEN 1 ELSE 0)
  BY <1>1, <1>7, <1>8
<1> QED BY <1>8, <1>10, <1>11

-----------------------------------------------------------------------------
\* A new stack agrees with no terms.
LEMMA AgreeEmpty == Agree(<<Bottom>>, 0, 0)
<1>1. StackOfOps(<<Bottom>>)
  BY DEF StackOfOps
<1>2. ASSUME NEW paren \in BOOLEAN PROVE Counted(<<Bottom>>, 0, paren)
  <2> DEFINE c == [k \in 1..1 |-> 0]
  <2>1. Len(<<Bottom>>) = 1
    OBVIOUS
  <2>2. c \in [1..1 -> Nat] /\ c[1] = 0 /\ 2..1 = {}
    OBVIOUS
  <2> HIDE DEF c
  <2>3. Counts(<<Bottom>>, c, paren)
    BY <2>1, <2>2 DEF Counts
  <2> QED BY <2>1, <2>2, <2>3 DEF Counted
<1> QED BY <1>1, <1>2 DEF Agree

\* An operator waits for one more term, a parenthesis for its end.
LEMMA AgreePush ==
    ASSUME NEW ops, NEW need, NEW open, Agree(ops, need, open), NEW e \in Entries
    PROVE  /\ need \in Nat /\ open \in Nat
           /\ e.chr = "(" => Agree(Append(ops, e), need, open + 1)
           /\ e.chr # "(" => Agree(Append(ops, e), need + 1, open)
<1> DEFINE S == Entries \cup {Bottom}
<1>1. ops \in Seq(S) /\ Len(ops) >= 1 /\ Len(ops) \in Nat /\ e \in S
  BY DEF Agree, StackOfOps
<1>2. StackOfOps(Append(ops, e))
  <2>1. ops[1] = Bottom /\ \A k \in 2..Len(ops) : ops[k] \in Entries
    BY DEF Agree, StackOfOps
  <2> HIDE DEF S
  <2>2. Append(ops, e) \in Seq(S) /\ Len(Append(ops, e)) = Len(ops) + 1
    BY <1>1
  <2>3. Append(ops, e)[1] = Bottom
    BY <1>1, <2>1
  <2>4. ASSUME NEW k \in 2..(Len(ops) + 1) PROVE Append(ops, e)[k] \in Entries
    <3>1. CASE k = Len(ops) + 1
      BY <1>1, <3>1
    <3>2. CASE k # Len(ops) + 1
      <4>1. k \in 2..Len(ops) /\ k \in 1..Len(ops)
        BY <1>1, <3>2
      <4>2. Append(ops, e)[k] = ops[k]
        BY <1>1, <4>1
      <4> QED BY <2>1, <4>1, <4>2
    <3> QED BY <3>1, <3>2
  <2>5. Len(Append(ops, e)) >= 1
    BY <1>1, <2>2
  <2> QED BY <2>2, <2>3, <2>4, <2>5 DEF StackOfOps, S
<1> HIDE DEF S
<1>3. /\ need \in Nat
      /\ Counted(Append(ops, e), need + (IF (e.chr = "(") = FALSE THEN 1 ELSE 0), FALSE)
  BY <1>1, CountedPush DEF Agree
<1>4. /\ open \in Nat
      /\ Counted(Append(ops, e), open + (IF (e.chr = "(") = TRUE THEN 1 ELSE 0), TRUE)
  BY <1>1, CountedPush DEF Agree
<1>5. CASE e.chr = "("
  <2>1. Counted(Append(ops, e), need, FALSE)
    <3>1. need + (IF (e.chr = "(") = FALSE THEN 1 ELSE 0) = need
      BY <1>3, <1>5
    <3> QED BY <1>3, <3>1
  <2>2. Counted(Append(ops, e), open + 1, TRUE)
    BY <1>4, <1>5
  <2> QED BY <1>2, <1>3, <1>4, <1>5, <2>1, <2>2 DEF Agree
<1>6. CASE e.chr # "("
  <2>1. Counted(Append(ops, e), need + 1, FALSE)
    BY <1>3, <1>6
  <2>2. Counted(Append(ops, e), open, TRUE)
    <3>1. open + (IF (e.chr = "(") = TRUE THEN 1 ELSE 0) = open
      BY <1>4, <1>6
    <3> QED BY <1>4, <3>1
  <2> QED BY <1>2, <1>3, <1>4, <1>6, <2>1, <2>2 DEF Agree
<1> QED BY <1>5, <1>6

\* The top tells what a pop leaves: nothing is needed at the bottom.
LEMMA AgreeTop ==
    ASSUME NEW ops, NEW need, NEW open, Agree(ops, need, open)
    PROVE  LET top == ops[Len(ops)] IN
           \/ top = Bottom /\ need = 0 /\ open = 0
           \/ /\ top \in Entries /\ top.chr = "(" /\ need \in Nat /\ open - 1 \in Nat /\ open \in Nat
              /\ Agree(Pop(ops), need, open - 1)
           \/ /\ top \in Entries /\ top.chr # "(" /\ need - 1 \in Nat /\ need \in Nat /\ open \in Nat
              /\ Agree(Pop(ops), need - 1, open)
<1> DEFINE S == Entries \cup {Bottom}
           top == ops[Len(ops)]
<1>1. /\ ops \in Seq(S) /\ Len(ops) >= 1 /\ Len(ops) \in Nat /\ ops[1] = Bottom
      /\ \A k \in 2..Len(ops) : ops[k] \in Entries
  BY DEF Agree, StackOfOps, S
<1> HIDE DEF S
<1>2. CASE Len(ops) = 1
  <2>1. PICK c : Counts(ops, c, FALSE) /\ c[Len(ops)] = need
    BY DEF Agree, Counted
  <2>2. PICK d : Counts(ops, d, TRUE) /\ d[Len(ops)] = open
    BY DEF Agree, Counted
  <2>3. need = 0 /\ open = 0
    BY <1>2, <2>1, <2>2 DEF Counts
  <2> QED BY <1>1, <1>2, <2>3
<1>3. CASE Len(ops) # 1
  <2> DEFINE l == Len(ops)
  <2>0. l \in Nat /\ l >= 1 /\ l # 1
    BY <1>1, <1>3
  <2> HIDE DEF l
  <2>1. l >= 2 /\ l \in 2..l
    BY <2>0
  <2> USE DEF l
  <2>2. top \in Entries
    BY <1>1, <2>1
  <2>3. StackOfOps(Pop(ops))
    <3>1. /\ Pop(ops) \in Seq(S) /\ Len(Pop(ops)) = Len(ops) - 1
          /\ \A k \in 1..(Len(ops) - 1) : Pop(ops)[k] = ops[k]
      BY <1>1, PopShorter
    <3>2. Len(Pop(ops)) >= 1 /\ 1 \in 1..(Len(ops) - 1)
      BY <1>1, <2>1, <3>1
    <3>3. ASSUME NEW k \in 2..(Len(ops) - 1) PROVE Pop(ops)[k] \in Entries
      <4>1. k \in 2..Len(ops) /\ k \in 1..(Len(ops) - 1)
        BY <1>1
      <4> QED BY <1>1, <3>1, <4>1
    <3> QED BY <1>1, <3>1, <3>2, <3>3 DEF StackOfOps, S
  <2>9. \A paren \in BOOLEAN : \A n : Counted(ops, n, paren) =>
           \E m \in Nat : /\ Counted(Pop(ops), m, paren)
                         /\ n = m + (IF (top.chr = "(") = paren THEN 1 ELSE 0)
    BY <1>1, <2>1, CountedPop
  <2>4. PICK m \in Nat : /\ Counted(Pop(ops), m, FALSE)
                         /\ need = m + (IF (top.chr = "(") = FALSE THEN 1 ELSE 0)
    BY <1>1, <2>1, <2>9 DEF Agree
  <2>5. PICK o \in Nat : /\ Counted(Pop(ops), o, TRUE)
                         /\ open = o + (IF (top.chr = "(") = TRUE THEN 1 ELSE 0)
    BY <1>1, <2>1, <2>9 DEF Agree
  <2>6. CASE top.chr = "("
    <3>1. need = m /\ open - 1 = o /\ need \in Nat /\ open - 1 \in Nat /\ open \in Nat
      BY <2>4, <2>5, <2>6
    <3>2. Agree(Pop(ops), need, open - 1)
      BY <2>3, <2>4, <2>5, <3>1 DEF Agree
    <3> QED BY <2>2, <2>6, <3>1, <3>2
  <2>7. CASE top.chr # "("
    <3>1. need - 1 = m /\ open = o /\ need - 1 \in Nat /\ need \in Nat /\ open \in Nat
      BY <2>4, <2>5, <2>7
    <3>2. Agree(Pop(ops), need - 1, open)
      BY <2>3, <2>4, <2>5, <3>1 DEF Agree
    <3> QED BY <2>2, <2>7, <3>1, <3>2
  <2> QED BY <2>6, <2>7
<1> QED BY <1>2, <1>3

-----------------------------------------------------------------------------
\* What an operator's precedence says of it.
LEMMA Precedences ==
    ASSUME NEW c
    PROVE  /\ IsOperator(c) \in 0..6
           /\ IsOperator(c) > 0 /\ c \notin {"(", ")"} => IsOperator(c) \in {3, 4, 5, 6} /\ c \in Binary
           /\ c = "*" => IsOperator(c) > 0
BY DEF IsOperator, OpPrec, Binary

LEMMA ParserInvSafe == ParserInv => NoParserBug
<1> SUFFICES ASSUME ParserInv, parser = "calc" PROVE NoParserBug
  BY DEF NoParserBug
<1>1. IsStack(Term) /\ Agree(Ops, Len(Term) - 1, parncnt) /\ CalledWith
  BY DEF ParserInv, Parsing, Have
<1>2. Len(Term) \in Nat
  BY <1>1 DEF IsStack
<1>3. CASE Top = Bottom /\ Len(Term) - 1 = 0 /\ parncnt = 0
  <2>1. Top.prec = -1
    BY <1>3 DEF Bottom
  <2> QED BY <1>1, <1>2, <1>3, <2>1 DEF NoParserBug, CalledWith
<1>4. CASE Top \in Entries /\ Top.chr = "(" /\ parncnt - 1 \in Nat
  <2>1. Top.prec = 1 /\ parncnt # 0
    BY <1>4 DEF Entries, Binary
  <2> QED BY <1>1, <1>4, <2>1 DEF NoParserBug, CalledWith
<1>5. CASE Top \in Entries /\ Top.chr # "(" /\ Len(Term) - 1 - 1 \in Nat
  <2>1. Top.prec \in {3, 4, 5, 6, 9} /\ Top.chr \in Binary \cup {"~"}
    BY <1>5 DEF Entries
  <2> QED BY <1>1, <1>2, <1>5, <2>1 DEF NoParserBug, CalledWith, Binary
<1> QED BY <1>1, <1>3, <1>4, <1>5, AgreeTop DEF Top

-----------------------------------------------------------------------------
(***************************************************************************)
(* Each step of the parser keeps the stacks in agreement.                  *)
(***************************************************************************)
\* A new operand.
LEMMA GetValueKeeps ==
    ASSUME NEW text, GetValue(text)
    PROVE  ParserInv'
<1>1. CASE Single(text)
  BY <1>1 DEF GetValue, ParserInv, Parsing
<1>2. CASE ~Single(text)
  <2>1. Term' = <<>> /\ Ops' = <<Bottom>> /\ parncnt' = 0 /\ parser' = "start"
    BY <1>2 DEF GetValue, Bottom
  <2>2. IsStack(<<>>) /\ Len(<<>>) = 0
    BY DEF IsStack
  <2>3. Have' = 0
    BY <2>1, <2>2 DEF Have
  <2> QED BY <2>1, <2>2, <2>3, AgreeEmpty DEF ParserInv, CalledWith
<1> QED BY <1>1, <1>2

\* Before a term: as many terms as are needed.
LEMMA BeforeTerm ==
    ASSUME ParserInv, parser \in {"start", "term"}
    PROVE  IsStack(Term) /\ Agree(Ops, Len(Term), parncnt) /\ Len(Term) \in Nat
<1>1. IsStack(Term) /\ Agree(Ops, Len(Term), parncnt)
  BY DEF ParserInv, Parsing, Have
<1> QED BY <1>1 DEF IsStack

\* After a term: one more.
LEMMA AfterTerm ==
    ASSUME ParserInv, parser \in {"close", "calc"}
    PROVE  IsStack(Term) /\ Agree(Ops, Len(Term) - 1, parncnt) /\ Len(Term) \in Nat
<1>1. IsStack(Term) /\ Agree(Ops, Len(Term) - 1, parncnt)
  BY DEF ParserInv, Parsing, Have
<1> QED BY <1>1 DEF IsStack

LEMMA LeftParenthesisKeeps ==
    ASSUME ParserInv, LeftParenthesis
    PROVE  ParserInv'
<1>1. /\ parser = "start" /\ parser' = "start" /\ Term' = Term /\ parncnt' = parncnt + 1
      /\ Ops' = Append(Ops, [chr |-> "(", prec |-> 1])
  BY DEF LeftParenthesis, Push
<1>2. IsStack(Term) /\ Agree(Ops, Len(Term), parncnt)
  BY <1>1, BeforeTerm
<1>3. Agree(Ops', Len(Term), parncnt + 1)
  <2>1. [chr |-> "(", prec |-> 1] \in Entries /\ [chr |-> "(", prec |-> 1].chr = "("
    BY DEF Entries
  <2> QED BY <1>1, <1>2, <2>1, AgreePush
<1> QED BY <1>1, <1>2, <1>3 DEF ParserInv, CalledWith, Have

LEMMA UnaryOperatorKeeps ==
    ASSUME ParserInv, UnaryOperator
    PROVE  ParserInv'
<1>1. parser = "start" /\ parser' \in {"start", "term"} /\ parncnt' = parncnt
  BY DEF UnaryOperator, AfterSign
<1>2. IsStack(Term) /\ Agree(Ops, Len(Term), parncnt) /\ Len(Term) \in Nat
  BY <1>1, BeforeTerm
<1>3. CASE Tok = "+"
  <2>1. Term' = Term /\ Ops' = Ops
    BY <1>3 DEF UnaryOperator
  <2> QED BY <1>1, <1>2, <2>1 DEF ParserInv, CalledWith, Have
<1>4. CASE Tok # "+"
  <2> DEFINE e == [chr |-> Tok, prec |-> Unary]
             v == ValueOf(IF Tok = "-" THEN 0 ELSE -1, ABSHUNK, 0)
  <2>1. Term' = Append(Term, v) /\ Ops' = Append(Ops, e)
    BY <1>4 DEF UnaryOperator, Push
  <2>2. e \in Entries /\ e.chr # "("
    BY <1>4 DEF UnaryOperator, Entries, Binary, Unary
  <2> HIDE DEF e, v
  <2>3. IsStack(Term') /\ Len(Term') = Len(Term) + 1
    BY <1>2, <2>1, StackPush
  <2>4. Agree(Ops', Len(Term) + 1, parncnt)
    BY <1>2, <2>1, <2>2, AgreePush
  <2> QED BY <1>1, <2>3, <2>4 DEF ParserInv, CalledWith, Have
<1> QED BY <1>3, <1>4

LEMMA GetTermKeeps ==
    ASSUME ParserInv, GetTerm
    PROVE  ParserInv'
<1>1. parser \in {"start", "term"} /\ parser' = "close" /\ parncnt' = parncnt /\ Ops' = Ops
  BY DEF GetTerm, AtTerm
<1>2. PICK v : Term' = Append(Term, v)
  BY DEF GetTerm
<1>3. IsStack(Term) /\ Agree(Ops, Len(Term), parncnt) /\ Len(Term) \in Nat
  BY <1>1, BeforeTerm
<1>4. IsStack(Term') /\ Len(Term') - 1 = Len(Term)
  <2>1. IsStack(Term') /\ Len(Term') = Len(Term) + 1
    BY <1>2, <1>3, StackPush
  <2> QED BY <1>3, <2>1
<1> QED BY <1>1, <1>3, <1>4 DEF ParserInv, CalledWith, Have

\* CondCalc is called with what its argument promises.
LEMMA CallKeeps ==
    ASSUME ParserInv, RightParenthesis \/ NextOperator \/ EndOfOperand
    PROVE  ParserInv'
<1>1. /\ parser = "close" /\ parser' = "calc"
      /\ Term' = Term /\ Ops' = Ops /\ parncnt' = parncnt /\ operand' = operand /\ pos' = pos
  BY DEF RightParenthesis, NextOperator, EndOfOperand, Calls
<1>2. Tok' = Tok
  BY <1>1 DEF Tok, At
<1>3. \/ newprec' = 0 /\ parncnt = 0
      \/ newprec' = 2 /\ parncnt > 0
      \/ newprec' \in {3, 4, 5, 6} /\ Tok \in Binary
  BY Precedences DEF RightParenthesis, NextOperator, EndOfOperand, Calls
<1>4. IsStack(Term) /\ Agree(Ops, Len(Term) - 1, parncnt)
  BY <1>1, AfterTerm
<1>5. CalledWith'
  BY <1>1, <1>2, <1>3 DEF CalledWith
<1> QED BY <1>1, <1>4, <1>5 DEF ParserInv, Have

LEMMA CondCalcKeeps ==
    ASSUME ParserInv, CondCalc
    PROVE  ParserInv'
<1>1. /\ parser = "calc" /\ parser' = "calc" /\ Top.prec >= newprec
      /\ Ops' = Pop(Ops) /\ parncnt' = parncnt /\ newprec' = newprec
      /\ operand' = operand /\ pos' = pos
  BY DEF CondCalc, Binds
<1>2. PICK v : Term' = Append(Pop(Pop(Term)), v)
  BY DEF CondCalc
<1>3. IsStack(Term) /\ Agree(Ops, Len(Term) - 1, parncnt) /\ Len(Term) \in Nat
  BY <1>1, AfterTerm
<1>4. NoParserBug
  BY ParserInvSafe
<1>5. Len(Term) >= 2 /\ Top.chr # "(" /\ Top # Bottom
  <2>1. Len(Term) >= 2 /\ Top.chr # "(" /\ Top.chr # " "
    BY <1>1, <1>4 DEF NoParserBug
  <2>2. Bottom.chr = " "
    BY DEF Bottom
  <2> QED BY <2>1, <2>2
<1>6. Agree(Pop(Ops), Len(Term) - 1 - 1, parncnt)
  BY <1>3, <1>5, AgreeTop DEF Top
<1>7. IsStack(Term') /\ Len(Term') - 1 = Len(Term) - 1 - 1
  <2>1. IsStack(Pop(Term)) /\ Len(Pop(Term)) = Len(Term) - 1
    BY <1>3, <1>5, StackPop
  <2>2. IsStack(Pop(Pop(Term))) /\ Len(Pop(Pop(Term))) = Len(Term) - 2
    BY <1>3, <1>5, <2>1, StackPop
  <2>3. IsStack(Term') /\ Len(Term') = Len(Term) - 1
    BY <1>2, <1>3, <2>2, StackPush
  <2> QED BY <1>3, <2>3
<1>8. CalledWith'
  <2>1. Tok' = Tok
    BY <1>1 DEF Tok, At
  <2>2. CalledWith
    BY <1>1 DEF ParserInv, Parsing
  <2> QED BY <1>1, <2>1, <2>2 DEF CalledWith
<1> QED BY <1>1, <1>6, <1>7, <1>8 DEF ParserInv, Have

LEMMA ClosesParenthesisKeeps ==
    ASSUME ParserInv, ClosesParenthesis
    PROVE  ParserInv'
<1>1. /\ parser = "calc" /\ newprec = 2 /\ ~(Top.prec >= newprec)
      /\ parser' = "close" /\ Term' = Term /\ parncnt' = parncnt - 1
  BY DEF ClosesParenthesis, Calculated, Binds
<1>2. NoParserBug
  BY ParserInvSafe
<1>3. Top.chr = "("
  BY <1>1, <1>2 DEF NoParserBug
<1>4. Ops' = Pop(Ops)
  BY <1>3 DEF ClosesParenthesis
<1>5. IsStack(Term) /\ Agree(Ops, Len(Term) - 1, parncnt)
  BY <1>1, AfterTerm
<1>6. Agree(Pop(Ops), Len(Term) - 1, parncnt - 1)
  <2>1. Bottom.chr = " "
    BY DEF Bottom
  <2>2. Top # Bottom
    BY <1>3, <2>1
  <2> QED BY <1>3, <1>5, <2>2, AgreeTop DEF Top
<1> QED BY <1>1, <1>4, <1>5, <1>6 DEF ParserInv, CalledWith, Have

LEMMA StacksOperatorKeeps ==
    ASSUME ParserInv, StacksOperator
    PROVE  ParserInv'
<1> DEFINE e == [chr |-> Tok, prec |-> newprec]
<1>1. /\ parser = "calc" /\ newprec > 2 /\ parser' = "start"
      /\ Term' = Term /\ parncnt' = parncnt /\ Ops' = Append(Ops, e)
  BY DEF StacksOperator, Push
<1>2. IsStack(Term) /\ Agree(Ops, Len(Term) - 1, parncnt) /\ Len(Term) \in Nat
  BY <1>1, AfterTerm
<1>3. newprec \in {3, 4, 5, 6} /\ Tok \in Binary
  BY <1>1 DEF ParserInv, Parsing, CalledWith
<1>4. e \in Entries /\ e.chr # "("
  BY <1>3 DEF Entries, Binary
<1> HIDE DEF e
<1>5. Agree(Ops', Len(Term) - 1 + 1, parncnt)
  BY <1>1, <1>2, <1>4, AgreePush
<1>6. Len(Term) - 1 + 1 = Len(Term)
  BY <1>2
<1>7. Agree(Ops', Len(Term), parncnt)
  BY <1>5, <1>6
<1> QED BY <1>1, <1>2, <1>7 DEF ParserInv, CalledWith, Have

\* A return leaves the stacks behind.
LEMMA ReturnKeeps ==
    ASSUME NoTerm \/ Unbalanced \/ FinalValue
    PROVE  ParserInv'
<1>1. parser' = "done"
  BY DEF NoTerm, Unbalanced, FinalValue, Fails
<1> QED BY <1>1 DEF ParserInv, Parsing

\* Every step keeps the stacks in agreement.
LEMMA ParserInvKeeps == ParserInv /\ [ExprNext]_<<Pass2, exprVars>> => ParserInv'
<1> SUFFICES ASSUME ParserInv, [ExprNext]_<<Pass2, exprVars>> PROVE ParserInv'
  OBVIOUS
<1>1. CASE \E text \in Operands : GetValue(text)
  BY <1>1, GetValueKeeps
<1>2. CASE LeftParenthesis
  BY <1>2, LeftParenthesisKeeps
<1>3. CASE UnaryOperator
  BY <1>3, UnaryOperatorKeeps
<1>4. CASE GetTerm
  BY <1>4, GetTermKeeps
<1>5. CASE RightParenthesis \/ NextOperator \/ EndOfOperand
  BY <1>5, CallKeeps
<1>6. CASE CondCalc
  BY <1>6, CondCalcKeeps
<1>7. CASE ClosesParenthesis
  BY <1>7, ClosesParenthesisKeeps
<1>8. CASE StacksOperator
  BY <1>8, StacksOperatorKeeps
<1>9. CASE NoTerm \/ Unbalanced \/ FinalValue
  BY <1>9, ReturnKeeps
<1>10. CASE StartPass2
  BY <1>10 DEF StartPass2, ParserInv, Parsing
<1>11. CASE UNCHANGED <<Pass2, exprVars>>
  <2>1. /\ parser' = parser /\ Term' = Term /\ Ops' = Ops /\ parncnt' = parncnt
        /\ newprec' = newprec /\ operand' = operand /\ pos' = pos
    BY <1>11 DEF exprVars, stacks
  <2>2. Tok' = Tok
    BY <2>1 DEF Tok, At
  <2>3. (Parsing' <=> Parsing) /\ Have' = Have /\ (CalledWith' <=> CalledWith)
    BY <2>1, <2>2 DEF Parsing, Have, CalledWith
  <2> QED BY <2>1, <2>3 DEF ParserInv
<1> QED BY <1>1, <1>2, <1>3, <1>4, <1>5, <1>6, <1>7, <1>8, <1>9, <1>10, <1>11
       DEF ExprNext, ParseStep

(***************************************************************************)
(* NoParserBug of A68kExpr holds for every source and every operand: the   *)
(* stacks never run dry, no parenthesis is calculated with, and one term   *)
(* is left at the end.                                                     *)
(***************************************************************************)
THEOREM StacksAgree == ExprSpec => []NoParserBug
<1>1. ExprInit => ParserInv
  BY DEF ExprInit, ParserInv, Parsing
<1> QED BY <1>1, ParserInvKeeps, ParserInvSafe, PTL DEF ExprSpec

-----------------------------------------------------------------------------
(***************************************************************************)
(* What an operand says.  EndsTerm and Says are functions defined by       *)
(* recursion over the tokens; that there are such functions follows from   *)
(* the least place where one would fail.                                   *)
(***************************************************************************)
\* A set of natural numbers has a least element.
LEMMA LeastNumber ==
    ASSUME NEW S, S \subseteq Nat, S # {}
    PROVE  \E a \in S : \A b \in S : a <= b
<1> DEFINE R == {ss \in Nat \X Nat : ss[1] < ss[2]}
<1>1. IsWellFoundedOn(R, Nat)
  BY NatLessThanWellFounded DEF OpToRel
<1> HIDE DEF R
<1>2. PICK a \in S : \A b \in S : <<b, a>> \notin R
  BY <1>1, WFMin
<1>3. ASSUME NEW b \in S, ~ (a <= b) PROVE FALSE
  <2>1. a \in Nat /\ b \in Nat /\ b < a
    BY <1>3
  <2>2. <<b, a>> \in R
    BY <2>1 DEF R
  <2> QED BY <1>2, <2>2
<1> QED BY <1>3

Last == Len(operand)
IsText == operand \in Seq(STRING)

EndsByItself(c) == c = ")" \/ (IsOperator(c) = 0 /\ c # "~")

\* There is such a function: each value needs the one before.
LEMMA EndsTermDefined ==
    ASSUME NEW t, NEW l \in Nat
    PROVE  \E f : f = [k \in 0..l |->
                         /\ k > 0
                         /\ \/ t[k] = ")" \/ (IsOperator(t[k]) = 0 /\ t[k] # "~")
                            \/ t[k] = "*" /\ ~f[k - 1]]
<1> DEFINE Is(f, k) == f[k] <=> (k > 0 /\ (EndsByItself(t[k]) \/ (t[k] = "*" /\ ~f[k - 1])))
           Bad == {d \in 0..l : ~\E f \in [0..l -> BOOLEAN] : \A k \in 0..d : Is(f, k)}
<1>1. Bad = {}
  <2> SUFFICES ASSUME Bad # {} PROVE FALSE
    OBVIOUS
  <2>1. PICK d \in Bad : \A e \in Bad : d <= e
    <3>1. Bad \subseteq Nat
      OBVIOUS
    <3> HIDE DEF Bad
    <3> QED BY <3>1, LeastNumber
  <2>2. d \in 0..l /\ d \in Nat
    OBVIOUS
  <2>3. PICK f \in [0..l -> BOOLEAN] : \A k \in 0..(d - 1) : Is(f, k)
    <3>1. CASE d = 0
      <4>1. [k \in 0..l |-> FALSE] \in [0..l -> BOOLEAN] /\ 0..(d - 1) = {}
        BY <3>1
      <4> QED BY <4>1
    <3>2. CASE d # 0
      <4>1. d - 1 \in 0..l /\ ~(d <= d - 1)
        BY <2>2, <3>2
      <4>2. d - 1 \notin Bad
        BY <2>1, <4>1
      <4> QED BY <4>1, <4>2
    <3> QED BY <3>1, <3>2
  <2> DEFINE v == d > 0 /\ (EndsByItself(t[d]) \/ (t[d] = "*" /\ ~f[d - 1]))
             g == [k \in 0..l |-> IF k = d THEN v ELSE f[k]]
  <2>4. v \in BOOLEAN
    OBVIOUS
  <2>5. v = (d > 0 /\ (EndsByItself(t[d]) \/ (t[d] = "*" /\ ~f[d - 1])))
    OBVIOUS
  <2> HIDE DEF v
  <2>6. /\ g \in [0..l -> BOOLEAN] /\ g[d] = v
        /\ \A k \in 0..l : k # d => g[k] = f[k]
    BY <2>2, <2>4
  <2> HIDE DEF g
  <2>7. ASSUME NEW k \in 0..d PROVE Is(g, k)
    <3>1. CASE k = d
      <4>1. d > 0 => g[d - 1] = f[d - 1]
        BY <2>2, <2>6
      <4> QED BY <2>5, <2>6, <3>1, <4>1
    <3>2. CASE k # d
      <4>1. k \in 0..(d - 1) /\ k \in 0..l /\ (k > 0 => k - 1 \in 0..l /\ k - 1 # d)
        BY <2>2, <3>2
      <4>2. g[k] = f[k] /\ (k > 0 => g[k - 1] = f[k - 1]) /\ Is(f, k)
        BY <2>3, <2>6, <3>2, <4>1
      <4> QED BY <4>2
    <3> QED BY <3>1, <3>2
  <2>8. d \notin Bad
    BY <2>6, <2>7
  <2> QED BY <2>8
<1>2. PICK f \in [0..l -> BOOLEAN] : \A k \in 0..l : Is(f, k)
  <2>1. l \in 0..l
    OBVIOUS
  <2>2. l \notin Bad
    BY <1>1
  <2> QED BY <2>1, <2>2
<1> DEFINE g == [k \in 0..l |-> /\ k > 0
                              /\ \/ t[k] = ")" \/ (IsOperator(t[k]) = 0 /\ t[k] # "~")
                                 \/ t[k] = "*" /\ ~f[k - 1]]
<1>3. g \in [0..l -> BOOLEAN] /\ \A k \in 0..l : g[k] <=> f[k]
  BY <1>2 DEF EndsByItself
<1>4. f = g
  <2> HIDE DEF g
  <2> QED BY <1>2, <1>3
<1> QED BY <1>4

\* What ends a term.
LEMMA EndsTermIs ==
    ASSUME IsText
    PROVE  /\ Last \in Nat
           /\ EndsTerm \in [0..Last -> BOOLEAN]
           /\ ~EndsTerm[0]
           /\ \A k \in 1..Last : EndsTerm[k] <=>
                 EndsByItself(operand[k]) \/ (operand[k] = "*" /\ ~EndsTerm[k - 1])
<1> DEFINE Is(f) == f = [k \in 0..Len(operand) |->
                         /\ k > 0
                         /\ \/ operand[k] = ")" \/ (IsOperator(operand[k]) = 0 /\ operand[k] # "~")
                            \/ operand[k] = "*" /\ ~f[k - 1]]
<1>1. Len(operand) \in Nat
  BY DEF IsText
<1>2. \E f : Is(f)
  BY <1>1, EndsTermDefined
<1>3. EndsTerm = CHOOSE f : Is(f)
  BY DEF EndsTerm
<1>4. Is(EndsTerm)
  BY <1>2, <1>3
<1> QED BY <1>1, <1>4 DEF Last, EndsByItself

Signs == {"+", "-", "~"}
Depth(k) == Parentheses("(", 1, k) - Parentheses(")", 1, k)
Step(k) == IF operand[k] = "(" THEN 1 ELSE IF operand[k] = ")" THEN -1 ELSE 0
IsBinary(k) == IsOperator(operand[k]) > 2 /\ EndsTerm[k - 1]

\* Parentheses are counted one by one, and piece by piece.
LEMMA ParenthesesCount ==
    ASSUME NEW c, NEW i \in Int, NEW k \in Int
    PROVE  /\ Parentheses(c, i, k) \in Nat
           /\ i > k => Parentheses(c, i, k) = 0
           /\ i <= k => Parentheses(c, i, k) = Parentheses(c, i, k - 1) + (IF operand[k] = c THEN 1 ELSE 0)
           /\ \A m \in i..(k + 1) : Parentheses(c, i, k) = Parentheses(c, i, m - 1) + Parentheses(c, m, k)
<1> DEFINE S(a, b) == {j \in a..b : operand[j] = c}
<1>0. \A a, b : Parentheses(c, a, b) = Cardinality(S(a, b))
  BY DEF Parentheses
<1>1. ASSUME NEW a \in Int, NEW b \in Int PROVE IsFiniteSet(S(a, b)) /\ Cardinality(S(a, b)) \in Nat
  <2>1. IsFiniteSet(a..b) /\ S(a, b) \subseteq a..b
    BY FS_Interval
  <2>2. IsFiniteSet(S(a, b))
    BY <2>1, FS_Subset
  <2> QED BY <2>2, FS_CardinalityType
<1>2. Parentheses(c, i, k) \in Nat
  BY <1>1 DEF Parentheses
<1>3. ASSUME i > k PROVE Parentheses(c, i, k) = 0
  <2>1. S(i, k) = {}
    BY <1>3
  <2> QED BY <2>1, FS_EmptySet DEF Parentheses
<1>4. ASSUME i <= k
      PROVE  Parentheses(c, i, k) = Parentheses(c, i, k - 1) + (IF operand[k] = c THEN 1 ELSE 0)
  <2>1. k \notin S(i, k - 1) /\ k - 1 \in Int
    OBVIOUS
  <2>2. CASE operand[k] = c
    <3>1. S(i, k) = S(i, k - 1) \cup {k}
      BY <1>4, <2>2
    <3>2. Cardinality(S(i, k)) = Cardinality(S(i, k - 1)) + 1
      <4>1. IsFiniteSet(S(i, k - 1))
        BY <1>1, <2>1
      <4> HIDE DEF S
      <4> QED BY <2>1, <3>1, <4>1, FS_AddElement
    <3> HIDE DEF S
    <3> QED BY <1>0, <2>2, <3>2
  <2>3. CASE operand[k] # c
    <3>1. S(i, k) = S(i, k - 1)
      BY <1>4, <2>3
    <3>2. Cardinality(S(i, k - 1)) \in Nat
      BY <1>1, <2>1
    <3> HIDE DEF S
    <3> QED BY <1>0, <2>3, <3>1, <3>2
  <2> QED BY <2>2, <2>3
<1>5. ASSUME NEW m \in i..(k + 1)
      PROVE  Parentheses(c, i, k) = Parentheses(c, i, m - 1) + Parentheses(c, m, k)
  <2>1. S(i, k) = S(i, m - 1) \cup S(m, k) /\ S(i, m - 1) \cap S(m, k) = {}
    OBVIOUS
  <2>2. /\ IsFiniteSet(S(i, m - 1)) /\ Cardinality(S(i, m - 1)) \in Nat
        /\ IsFiniteSet(S(m, k)) /\ Cardinality(S(m, k)) \in Nat
    <3>1. m \in Int /\ m - 1 \in Int
      OBVIOUS
    <3> HIDE DEF S
    <3> QED BY <1>1, <3>1
  <2>3. Cardinality(S(i, k)) = Cardinality(S(i, m - 1)) + Cardinality(S(m, k))
    <3> HIDE DEF S
    <3>1. Cardinality(S(i, k)) = Cardinality(S(i, m - 1)) + Cardinality(S(m, k)) - Cardinality({})
      BY <2>1, <2>2, FS_Union
    <3> QED BY <2>2, <3>1, FS_EmptySet
  <2> HIDE DEF S
  <2> QED BY <1>0, <2>3
<1> QED BY <1>2, <1>3, <1>4, <1>5

\* How deep the parentheses are after each token.
LEMMA DepthIs ==
    /\ Depth(0) = 0
    /\ \A k \in Nat : Depth(k) \in Int
    /\ \A k \in Nat \ {0} : Depth(k) = Depth(k - 1) + Step(k)
<1>1. ASSUME NEW k \in Nat PROVE Depth(k) \in Int
  BY ParenthesesCount DEF Depth
<1>2. Depth(0) = 0
  BY ParenthesesCount DEF Depth
<1>3. ASSUME NEW k \in Nat \ {0} PROVE Depth(k) = Depth(k - 1) + Step(k)
  <2>1. \A c : /\ Parentheses(c, 1, k - 1) \in Nat
               /\ Parentheses(c, 1, k) = Parentheses(c, 1, k - 1) + (IF operand[k] = c THEN 1 ELSE 0)
    BY ParenthesesCount
  <2>2. /\ Parentheses("(", 1, k - 1) \in Nat
        /\ Parentheses("(", 1, k) = Parentheses("(", 1, k - 1) + (IF operand[k] = "(" THEN 1 ELSE 0)
    BY <2>1
  <2>3. /\ Parentheses(")", 1, k - 1) \in Nat
        /\ Parentheses(")", 1, k) = Parentheses(")", 1, k - 1) + (IF operand[k] = ")" THEN 1 ELSE 0)
    BY <2>1
  <2> QED BY <2>2, <2>3 DEF Depth, Step
<1> QED BY <1>1, <1>2, <1>3

\* The operators outside parentheses.
LEMMA OuterIs ==
    ASSUME NEW i \in Nat \ {0}, NEW j \in Nat
    PROVE  Outer(i, j) = {k \in i..j : IsBinary(k) /\ Depth(k) = Depth(i - 1)}
<1>1. ASSUME NEW k \in i..j
      PROVE  Parentheses("(", i, k) = Parentheses(")", i, k) <=> Depth(k) = Depth(i - 1)
  <2>1. \A c : /\ Parentheses(c, 1, i - 1) \in Nat /\ Parentheses(c, i, k) \in Nat
               /\ Parentheses(c, 1, k) = Parentheses(c, 1, i - 1) + Parentheses(c, i, k)
    <3>1. i \in 1..(k + 1) /\ k \in Int /\ i - 1 \in Int /\ i \in Int
      OBVIOUS
    <3> QED BY <3>1, ParenthesesCount
  <2>2. /\ Parentheses("(", 1, i - 1) \in Nat /\ Parentheses("(", i, k) \in Nat
        /\ Parentheses("(", 1, k) = Parentheses("(", 1, i - 1) + Parentheses("(", i, k)
    BY <2>1
  <2>3. /\ Parentheses(")", 1, i - 1) \in Nat /\ Parentheses(")", i, k) \in Nat
        /\ Parentheses(")", 1, k) = Parentheses(")", 1, i - 1) + Parentheses(")", i, k)
    BY <2>1
  <2> QED BY <2>2, <2>3 DEF Depth
<1> QED BY <1>1 DEF Outer, IsBinary

Spans == (1..Last) \X (0..Last)

\* No operator binds closer than a shift.
LEMMA PrecedenceRange == \A c : IsOperator(c) \in 0..6
BY DEF IsOperator, OpPrec

\* An operand is split at the last operator of the least precedence.
LEMMA SplitIs ==
    ASSUME NEW i \in Nat \ {0}, NEW j \in Nat, Outer(i, j) # {}
    PROVE  /\ SplitAt(i, j) \in Outer(i, j)
           /\ SplitAt(i, j) \in i..j
           /\ \A l \in Outer(i, j) :
                 /\ IsOperator(operand[SplitAt(i, j)]) <= IsOperator(operand[l])
                 /\ IsOperator(operand[SplitAt(i, j)]) = IsOperator(operand[l]) => l <= SplitAt(i, j)
<1> DEFINE O == Outer(i, j)
           least == {k \in O : \A l \in O : IsOperator(operand[k]) <= IsOperator(operand[l])}
<1>1. O \subseteq i..j
  BY DEF Outer
<1>2. PICK k \in O : \A l \in O : IsOperator(operand[k]) <= IsOperator(operand[l])
  <2> DEFINE Q == {IsOperator(operand[l]) : l \in O}
  <2>1. Q \subseteq Nat /\ Q # {}
    BY PrecedenceRange
  <2>2. PICK q \in Q : \A b \in Q : q <= b
    <3> HIDE DEF Q
    <3> QED BY <2>1, LeastNumber
  <2>3. PICK k \in O : IsOperator(operand[k]) = q
    BY <2>2
  <2>4. \A l \in O : IsOperator(operand[l]) \in Q
    OBVIOUS
  <2> QED BY <2>2, <2>3, <2>4
<1>3. PICK m \in least : \A l \in least : l <= m
  <2> DEFINE Q == {j - l : l \in least}
  <2>1. Q \subseteq Nat /\ Q # {}
    <3>1. least # {}
      BY <1>2
    <3>2. \A l \in least : j - l \in Nat
      BY <1>1
    <3> HIDE DEF least
    <3> QED BY <3>1, <3>2
  <2>2. PICK q \in Q : \A b \in Q : q <= b
    <3> HIDE DEF Q
    <3> QED BY <2>1, LeastNumber
  <2>3. PICK m \in least : j - m = q
    BY <2>2
  <2>4. \A l \in least : j - l \in Q /\ l \in Int
    BY <1>1
  <2>5. \A l \in least : j - m <= j - l /\ l \in Int
    BY <2>2, <2>3, <2>4
  <2> HIDE DEF least
  <2> QED BY <2>3, <2>5
<1>4. SplitAt(i, j) = CHOOSE n \in least : \A l \in least : l <= n
  BY DEF SplitAt
<1>5. SplitAt(i, j) \in least /\ \A l \in least : l <= SplitAt(i, j)
  <2> HIDE DEF least
  <2> QED BY <1>3, <1>4
<1>6. ASSUME NEW l \in O, IsOperator(operand[SplitAt(i, j)]) = IsOperator(operand[l])
      PROVE  l \in least
  BY <1>5, <1>6
<1> QED BY <1>1, <1>5, <1>6

\* What an operand says depends on what its parts say.
LEMMA SaysOfAgrees ==
    ASSUME Last \in Nat, NEW i \in 1..Last, NEW j \in 0..Last, NEW F, NEW G,
           \A a \in 1..Last, b \in 0..Last : b - a < j - i => F[<<a, b>>] = G[<<a, b>>]
    PROVE  SaysOf(F, i, j) = SaysOf(G, i, j)
<1>1. ASSUME NEW k \in i..j, k # i, k # j
      PROVE  F[<<i, k - 1>>] = G[<<i, k - 1>>] /\ F[<<k + 1, j>>] = G[<<k + 1, j>>]
  <2>1. k - 1 \in 0..Last /\ k + 1 \in 1..Last /\ (k - 1) - i < j - i /\ j - (k + 1) < j - i
    BY <1>1
  <2> QED BY <2>1
<1>2. ASSUME Outer(i, j) # {}
      PROVE  SplitAt(i, j) \in i..j
  BY <1>2, SplitIs
<1>3. ASSUME i < j
      PROVE  F[<<i + 1, j>>] = G[<<i + 1, j>>] /\ F[<<i + 1, j - 1>>] = G[<<i + 1, j - 1>>]
  <2>1. i + 1 \in 1..Last /\ j - 1 \in 0..Last /\ j - (i + 1) < j - i /\ (j - 1) - (i + 1) < j - i
    BY <1>3
  <2> QED BY <2>1
<1> QED BY <1>1, <1>2, <1>3 DEF SaysOf

\* F is right for the spans shorter than d; H is one step further.
RightUpTo(F, d) == \A a \in 1..Last, b \in 0..Last : b - a < d => F[<<a, b>>] = SaysOf(F, a, b)
Further(F) == [s \in Spans |-> SaysOf(F, s[1], s[2])]

\* From the spans of one length to the next.
LEMMA SaysLonger ==
    ASSUME Last \in Nat, NEW F, NEW d \in Nat, RightUpTo(F, d), NEW H, H = Further(F)
    PROVE  RightUpTo(H, d + 1)
<1> SUFFICES ASSUME NEW i \in 1..Last, NEW j \in 0..Last, j - i < d + 1
             PROVE  H[<<i, j>>] = SaysOf(H, i, j)
  BY DEF RightUpTo
<1>1. \A a \in 1..Last, b \in 0..Last : H[<<a, b>>] = SaysOf(F, a, b)
  BY DEF Spans, Further
<1>2. ASSUME NEW a \in 1..Last, NEW b \in 0..Last, b - a < j - i
      PROVE  F[<<a, b>>] = H[<<a, b>>]
  <2>1. b - a < d
    BY <1>2
  <2>2. F[<<a, b>>] = SaysOf(F, a, b)
    BY <2>1 DEF RightUpTo
  <2> QED BY <1>1, <2>2
<1>3. SaysOf(F, i, j) = SaysOf(H, i, j)
  BY <1>2, SaysOfAgrees
<1> QED BY <1>1, <1>3

\* So there is such a function.
LEMMA SaysDefined ==
    ASSUME Last \in Nat
    PROVE  \E F : F = [s \in Spans |-> SaysOf(F, s[1], s[2])]
<1> DEFINE Bad == {d \in Nat : ~\E F : RightUpTo(F, d)}
<1>1. Bad = {}
  <2> SUFFICES ASSUME Bad # {} PROVE FALSE
    OBVIOUS
  <2>1. PICK d \in Bad : \A e \in Bad : d <= e
    <3>1. Bad \subseteq Nat
      OBVIOUS
    <3> HIDE DEF Bad
    <3> QED BY <3>1, LeastNumber
  <2>2. d \in Nat /\ ~\E F : RightUpTo(F, d)
    OBVIOUS
  <2>3. CASE d = 0
    <3> DEFINE F == [s \in Spans |-> Malformed]
    <3>1. ASSUME NEW i \in 1..Last, NEW j \in 0..Last, j - i < 0 PROVE F[<<i, j>>] = SaysOf(F, i, j)
      <4>1. F[<<i, j>>] = Malformed
        BY DEF Spans
      <4> HIDE DEF F
      <4>2. i > j /\ i # j /\ ~(i < j) /\ i..j = {}
        BY <3>1
      <4>3. Outer(i, j) = {}
        BY <4>2 DEF Outer
      <4>4. SaysOf(F, i, j) = Malformed
        BY <4>2, <4>3 DEF SaysOf
      <4> QED BY <4>1, <4>4
    <3> HIDE DEF F
    <3> QED BY <2>2, <2>3, <3>1 DEF RightUpTo
  <2>4. CASE d # 0
    <3>1. PICK e \in Nat : ~(d <= e) /\ e + 1 = d
      <4>1. d - 1 \in Nat /\ ~(d <= d - 1) /\ (d - 1) + 1 = d
        BY <2>2, <2>4
      <4> QED BY <4>1
    <3>2. e \notin Bad
      BY <2>1, <3>1
    <3>3. PICK F : RightUpTo(F, e)
      BY <3>1, <3>2
    <3> HIDE DEF Bad
    <3> QED BY <2>2, <3>1, <3>3, SaysLonger
  <2> QED BY <2>3, <2>4
<1>2. Last + 1 \in Nat /\ Last + 1 \notin Bad
  <2>1. Last + 1 \in Nat
    OBVIOUS
  <2> HIDE DEF Bad
  <2> QED BY <1>1, <2>1
<1>3. PICK F : RightUpTo(F, Last + 1)
  BY <1>2
<1>4. PICK H : H = Further(F)
  OBVIOUS
<1>5. RightUpTo(H, (Last + 1) + 1)
  BY <1>2, <1>3, <1>4, SaysLonger
<1>6. ASSUME NEW s \in Spans PROVE SaysOf(F, s[1], s[2]) = SaysOf(H, s[1], s[2])
  <2>1. PICK i \in 1..Last, j \in 0..Last : s = <<i, j>>
    BY DEF Spans
  <2>2. j - i < (Last + 1) + 1
    OBVIOUS
  <2>3. H[<<i, j>>] = SaysOf(H, i, j)
    BY <1>5, <2>2 DEF RightUpTo
  <2>4. H[<<i, j>>] = SaysOf(F, i, j)
    BY <1>4 DEF Spans, Further
  <2> QED BY <2>1, <2>3, <2>4
<1>7. H = Further(H)
  BY <1>4, <1>6 DEF Further
<1> QED BY <1>7 DEF Further

\* What a span says is what its parts make it say.
LEMMA SaysIs ==
    ASSUME Last \in Nat, NEW i \in 1..Last, NEW j \in 0..Last
    PROVE  Says[<<i, j>>] = SaysOf(Says, i, j)
<1> DEFINE Is(F) == F = [s \in (1..Len(operand)) \X (0..Len(operand)) |-> SaysOf(F, s[1], s[2])]
<1>1. \E F : Is(F)
  BY SaysDefined DEF Spans, Last
<1>2. Says = CHOOSE F : Is(F)
  BY DEF Says
<1>3. Is(Says)
  BY <1>1, <1>2
<1> QED BY <1>3 DEF Spans, Last

\* The precedences, one by one.
LEMMA OperatorsAre ==
    /\ IsOperator("(") = 1 /\ IsOperator(")") = 2 /\ IsOperator("+") = 3 /\ IsOperator("-") = 3
    /\ IsOperator("*") = 4 /\ IsOperator("~") = 0
    /\ \A c : IsOperator(c) > 2 <=> c \in Binary
BY DEF IsOperator, OpPrec, Binary

\* What the tokens say of the ends of terms.
LEMMA TokenEnds ==
    ASSUME IsText, NEW k \in 1..Last
    PROVE  /\ operand[k] \in {"(", "+", "-", "~"} => ~EndsTerm[k]
           /\ IsBinary(k) => ~EndsTerm[k]
           /\ operand[k] = ")" => EndsTerm[k]
           /\ IsOperator(operand[k]) = 0 /\ operand[k] # "~" => EndsTerm[k]
           /\ operand[k] = "*" => (EndsTerm[k] <=> ~EndsTerm[k - 1])
           /\ EndsTerm[k] => operand[k] \in {")", "*"} \/ (IsOperator(operand[k]) = 0 /\ operand[k] # "~")
<1>1. EndsTerm[k] <=> EndsByItself(operand[k]) \/ (operand[k] = "*" /\ ~EndsTerm[k - 1])
  BY EndsTermIs
<1>2. IsBinary(k) => operand[k] \in Binary /\ EndsTerm[k - 1]
  BY OperatorsAre DEF IsBinary
<1>3. \A c \in Binary : IsOperator(c) > 2
  BY OperatorsAre
<1> QED BY <1>1, <1>2, <1>3, OperatorsAre DEF EndsByItself

\* A term is no operator, and nothing no operand.
LEMMA OuterEmpty ==
    ASSUME IsText, NEW i \in 1..Last, NEW j \in 0..Last
    PROVE  /\ i > j => Outer(i, j) = {}
           /\ ~IsBinary(i) => Outer(i, i) = {}
           /\ EndsTerm[i] => ~IsBinary(i)
<1>0. Last \in Nat
  BY EndsTermIs
<1>1. ASSUME i > j PROVE Outer(i, j) = {}
  <2>1. i..j = {}
    BY <1>0, <1>1
  <2> QED BY <2>1 DEF Outer
<1>2. ASSUME ~IsBinary(i) PROVE Outer(i, i) = {}
  <2>1. i..i = {i}
    BY <1>0
  <2> QED BY <1>2, <2>1 DEF Outer, IsBinary
<1> QED BY <1>1, <1>2, TokenEnds

\* A single term says its value.
LEMMA SaysAtom ==
    ASSUME IsText, NEW i \in 1..Last, EndsTerm[i], operand[i] # ")"
    PROVE  Says[<<i, i>>] = Atom(operand[i]) /\ Outer(i, i) = {}
<1>0. Last \in Nat /\ Outer(i, i) = {}
  BY EndsTermIs, OuterEmpty
<1>1. i \in 0..Last /\ ~(i > i) /\ ~(i < i)
  BY <1>0
<1>2. Says[<<i, i>>] = SaysOf(Says, i, i)
  BY <1>0, <1>1, SaysIs
<1> QED BY <1>0, <1>1, <1>2 DEF SaysOf

\* An operator outside parentheses says what its two sides give.
LEMMA SaysSplit ==
    ASSUME Last \in Nat, NEW i \in 1..Last, NEW j \in 0..Last, i < j, Outer(i, j) # {},
           NEW k, k = SplitAt(i, j)
    PROVE  /\ k = i \/ k = j => Says[<<i, j>>] = Malformed
           /\ k # i /\ k # j => Says[<<i, j>>] = Applied(operand[k], Says[<<i, k - 1>>], Says[<<k + 1, j>>])
<1>1. ~(i > j) /\ i # j
  OBVIOUS
<1>2. Says[<<i, j>>] = SaysOf(Says, i, j)
  BY SaysIs
<1> QED BY <1>1, <1>2 DEF SaysOf

\* A sign without such an operator applies to the rest.
LEMMA SaysSigned ==
    ASSUME Last \in Nat, NEW i \in 1..Last, NEW j \in 0..Last, i < j, Outer(i, j) = {}, operand[i] \in Signs
    PROVE  Says[<<i, j>>] =
              IF operand[i + 1] \in Signs THEN Malformed ELSE Signed(operand[i], Says[<<i + 1, j>>])
<1>1. ~(i > j) /\ i # j
  OBVIOUS
<1>2. Says[<<i, j>>] = SaysOf(Says, i, j)
  BY SaysIs
<1> QED BY <1>1, <1>2 DEF SaysOf, Signs

\* Parentheses say what is in them.
LEMMA SaysEnclosed ==
    ASSUME Last \in Nat, NEW i \in 1..Last, NEW j \in 0..Last, i < j, Outer(i, j) = {},
           operand[i] = "(", operand[j] = ")"
    PROVE  Says[<<i, j>>] = Says[<<i + 1, j - 1>>]
<1>1. ~(i > j) /\ i # j /\ operand[i] \notin {"+", "-", "~"}
  OBVIOUS
<1>2. Says[<<i, j>>] = SaysOf(Says, i, j)
  BY SaysIs
<1> QED BY <1>1, <1>2 DEF SaysOf

\* An operator has a form when its two sides have one.
LEMMA AppliedForm == \A op, a, b : Applied(op, a, b).form <=> a.form /\ b.form
<1> SUFFICES ASSUME NEW op, NEW a, NEW b PROVE Applied(op, a, b).form <=> a.form /\ b.form
  OBVIOUS
<1>1. CASE op \in {"+", "-"}
  BY <1>1 DEF Applied
<1>2. CASE op \notin {"+", "-"}
  BY <1>2 DEF Applied
<1> QED BY <1>1, <1>2

\* A sign has a form when what follows has one.
LEMMA SignedForm ==
    ASSUME NEW op \in Signs, NEW a
    PROVE  Signed(op, a).form <=> a.form
<1> DEFINE zero == [Malformed EXCEPT !.form = TRUE, !.fixed = TRUE]
           ones == [zero EXCEPT !.value = -1]
<1>1. zero.form /\ ones.form
  BY DEF Malformed
<1>2. Applied("-", zero, a).form <=> a.form
  <2> HIDE DEF zero, ones
  <2> QED BY <1>1, AppliedForm
<1>3. Applied("~", ones, a).form <=> a.form
  <2> HIDE DEF zero, ones
  <2> QED BY <1>1, AppliedForm
<1>4. CASE op = "+"
  BY <1>4 DEF Signed
<1>5. CASE op = "-"
  BY <1>2, <1>5 DEF Signed
<1>6. CASE op = "~"
  BY <1>3, <1>6 DEF Signed
<1> QED BY <1>4, <1>5, <1>6 DEF Signs

\* The four forms there are.
LEMMA FormIsOneOf ==
    ASSUME IsText, NEW i \in 1..Last, NEW j \in 0..Last, Says[<<i, j>>].form
    PROVE  /\ i <= j
           /\ \/ i = j /\ EndsTerm[i] /\ operand[i] # ")"
              \/ \E k \in (i + 1)..(j - 1) :
                    k \in Outer(i, j) /\ Says[<<i, k - 1>>].form /\ Says[<<k + 1, j>>].form
              \/ i < j /\ operand[i] \in Signs /\ operand[i + 1] \notin Signs /\ Says[<<i + 1, j>>].form
              \/ i < j /\ operand[i] = "(" /\ operand[j] = ")" /\ Says[<<i + 1, j - 1>>].form
<1>0. ~Malformed.form /\ Last \in Nat
  BY EndsTermIs DEF Malformed
<1>1. Says[<<i, j>>] = SaysOf(Says, i, j) /\ Says[<<i, j>>] # Malformed
  BY <1>0, SaysIs
<1>2. i <= j
  <2> SUFFICES ASSUME i > j PROVE FALSE
    BY <1>0
  <2>1. Outer(i, j) = {} /\ i # j /\ ~(i < j)
    BY <1>0, OuterEmpty
  <2> QED BY <1>1, <2>1 DEF SaysOf
<1>3. CASE i = j /\ EndsTerm[i] /\ operand[i] # ")"
  BY <1>2, <1>3
<1>4. CASE ~(i = j /\ EndsTerm[i] /\ operand[i] # ")") /\ Outer(i, j) # {}
  <2>1. PICK k : k = SplitAt(i, j)
    OBVIOUS
  <2>2. k \in Outer(i, j) /\ k \in i..j
    <3>1. i \in Nat \ {0} /\ j \in Nat
      BY <1>0
    <3> QED BY <1>4, <2>1, <3>1, SplitIs
  <2>3. ~(i > j)
    BY <1>0, <1>2
  <2>4. k # i /\ k # j /\ Says[<<i, j>>] = Applied(operand[k], Says[<<i, k - 1>>], Says[<<k + 1, j>>])
    BY <1>1, <1>4, <2>1, <2>3 DEF SaysOf
  <2>5. Says[<<i, k - 1>>].form /\ Says[<<k + 1, j>>].form
    BY <1>0, <1>1, <2>4, AppliedForm
  <2>6. k \in (i + 1)..(j - 1)
    BY <1>0, <2>2, <2>4
  <2> QED BY <1>2, <2>2, <2>5, <2>6
<1>5. CASE Outer(i, j) = {} /\ i < j /\ operand[i] \in Signs
  <2>1. operand[i + 1] \notin Signs /\ Says[<<i, j>>] = Signed(operand[i], Says[<<i + 1, j>>])
    BY <1>0, <1>1, <1>5, SaysSigned
  <2>2. Says[<<i + 1, j>>].form
    BY <1>5, <2>1, SignedForm
  <2> QED BY <1>2, <1>5, <2>1, <2>2
<1>6. CASE Outer(i, j) = {} /\ i < j /\ operand[i] = "(" /\ operand[j] = ")"
  <2>1. Says[<<i, j>>] = Says[<<i + 1, j - 1>>]
    BY <1>0, <1>6, SaysEnclosed
  <2> QED BY <1>2, <1>6, <2>1
<1>7. ASSUME ~(i = j /\ EndsTerm[i] /\ operand[i] # ")"), Outer(i, j) = {},
             ~(i < j /\ operand[i] \in Signs), ~(i < j /\ operand[i] = "(" /\ operand[j] = ")")
      PROVE  FALSE
  <2>1. ~(i > j)
    BY <1>0, <1>2
  <2> QED BY <1>1, <1>7, <2>1 DEF SaysOf, Signs
<1> QED BY <1>3, <1>4, <1>5, <1>6, <1>7

-----------------------------------------------------------------------------
(***************************************************************************)
(* A value matches what a span says; a span is good when it has a form and *)
(* a value that matches, as long as there is no error.                     *)
(***************************************************************************)
Matches(s, v) ==
    /\ s.fixed /\ s.value = v.value
    /\ s.weights = [h \in Bases |-> IF h = v.hunk THEN 1 ELSE 0]
    /\ v.hunk \in Bases \cup {ABSHUNK}

Good(i, j, v, ok) ==
    /\ i \in 1..Last /\ j \in i..Last
    /\ ~EndsTerm[i - 1] /\ EndsTerm[j]
    /\ Depth(j) = Depth(i - 1)
    /\ \A k \in i..j : Depth(k) >= Depth(i - 1)
    /\ Says[<<i, j>>].form
    /\ ok => Matches(Says[<<i, j>>], v)

Least(i, j, p) == \A k \in Outer(i, j) : IsOperator(operand[k]) >= p

\* An absolute value has no section or external symbol.
LEMMA NoBase == ABSHUNK \notin Bases
BY DEF Bases

\* CondCalc computes what an operator says, unless it reports an error.
LEMMA CombinedMatches ==
    ASSUME NEW op \in Binary \cup {"~"}, NEW a, NEW b, NEW v, NEW w, Matches(a, v), Matches(b, w),
           ~Crossed(op, v.hunk, w.hunk)
    PROVE  Matches(Applied(op, a, b), Combined(op, v, w))
<1> DEFINE c == Combined(op, v, w)
           s == Applied(op, a, b)
           W(h) == [g \in Bases |-> IF g = h THEN 1 ELSE 0]
<1>1. c.value = Calculate(op, v.value, w.value) /\ c.hunk = HunkOf(op, v.hunk, w.hunk)
  BY DEF Combined, ValueOf
<1>2. /\ a.fixed /\ a.value = v.value /\ a.weights = W(v.hunk)
      /\ b.fixed /\ b.value = w.value /\ b.weights = W(w.hunk)
      /\ v.hunk \in Bases \cup {ABSHUNK} /\ w.hunk \in Bases \cup {ABSHUNK}
  BY DEF Matches
<1>3. s.value = Calculate(op, a.value, b.value)
  BY DEF Applied
<1>4. CASE op \in {"+", "-"}
  <2>1. s.fixed <=> a.fixed /\ b.fixed
    BY <1>4 DEF Applied
  <2>2. s.weights = [h \in Bases |-> Calculate(op, a.weights[h], b.weights[h])]
    BY <1>4 DEF Applied
  <2>3. ASSUME NEW h \in Bases
        PROVE  Calculate(op, a.weights[h], b.weights[h]) = IF h = c.hunk THEN 1 ELSE 0
    <3>1. a.weights[h] = (IF h = v.hunk THEN 1 ELSE 0) /\ b.weights[h] = (IF h = w.hunk THEN 1 ELSE 0)
      BY <1>2
    <3>2. h # ABSHUNK
      BY NoBase
    <3>3. CASE op = "+"
      <4>1. Calculate(op, a.weights[h], b.weights[h]) = a.weights[h] + b.weights[h]
        BY <3>3 DEF Calculate
      <4>2. v.hunk = ABSHUNK \/ w.hunk = ABSHUNK
        BY <3>3 DEF Crossed
      <4>3. c.hunk = SumHunk(v.hunk, w.hunk)
        BY <1>1, <3>3 DEF HunkOf
      <4> HIDE DEF c
      <4> QED BY <3>1, <3>2, <4>1, <4>2, <4>3 DEF SumHunk
    <3>4. CASE op = "-"
      <4>1. Calculate(op, a.weights[h], b.weights[h]) = a.weights[h] - b.weights[h]
        BY <3>4 DEF Calculate
      <4>2. v.hunk = w.hunk \/ w.hunk = ABSHUNK
        BY <3>4 DEF Crossed
      <4>3. c.hunk = DifferenceHunk(v.hunk, w.hunk)
        BY <1>1, <3>4 DEF HunkOf
      <4> HIDE DEF c
      <4> QED BY <3>1, <3>2, <4>1, <4>2, <4>3 DEF DifferenceHunk
    <3> QED BY <1>4, <3>3, <3>4
  <2>4. s.weights = W(c.hunk)
    <3> HIDE DEF s, c
    <3> QED BY <2>2, <2>3
  <2>5. c.hunk \in Bases \cup {ABSHUNK}
    <3> HIDE DEF c
    <3> QED BY <1>1, <1>2, <1>4 DEF HunkOf, SumHunk, DifferenceHunk
  <2> HIDE DEF s, c
  <2>6. Matches(s, c)
    BY <1>1, <1>2, <1>3, <2>1, <2>4, <2>5 DEF Matches
  <2> QED BY <2>6 DEF s, c
<1>5. CASE op \notin {"+", "-"}
  <2>1. v.hunk = ABSHUNK /\ w.hunk = ABSHUNK
    BY <1>5 DEF Crossed
  <2>2. a.weights = NoWeight /\ b.weights = NoWeight
    <3>1. \A h \in Bases : h # ABSHUNK
      BY NoBase
    <3>2. W(ABSHUNK) = NoWeight
      BY <3>1 DEF NoWeight
    <3> HIDE DEF W
    <3> QED BY <1>2, <2>1, <3>2
  <2>3. s.fixed /\ s.weights = NoWeight
    BY <1>2, <1>5, <2>2 DEF Applied
  <2>4. c.hunk = ABSHUNK
    BY <1>1, <1>5 DEF HunkOf
  <2>5. s.weights = W(c.hunk)
    <3> HIDE DEF s, c, W
    <3> QED BY <1>2, <2>1, <2>2, <2>3, <2>4
  <2> HIDE DEF s, c
  <2>6. Matches(s, c)
    BY <1>1, <1>2, <1>3, <2>3, <2>4, <2>5 DEF Matches
  <2> QED BY <2>6 DEF s, c
<1> QED BY <1>4, <1>5

\* A term: a number, a symbol or the location counter.
LEMMA GoodAtom ==
    ASSUME IsText, NEW p \in 1..Last, ~EndsTerm[p - 1], NEW ok,
           operand[p] = "*" \/ (IsOperator(operand[p]) = 0 /\ operand[p] # "~")
    PROVE  Good(p, p, CalcValue(operand[p]), ok) /\ Outer(p, p) = {}
<1> DEFINE c == operand[p]
           v == CalcValue(c)
<1>0. Last \in Nat /\ p \in Nat /\ p # 0 /\ p \in p..Last /\ p..p = {p}
  BY EndsTermIs
<1>1. EndsTerm[p] /\ c # ")" /\ c # "("
  BY TokenEnds, OperatorsAre
<1>2. Says[<<p, p>>] = Atom(c) /\ Outer(p, p) = {}
  BY <1>1, SaysAtom
<1>3. Depth(p) = Depth(p - 1) /\ Depth(p - 1) \in Int
  <2>1. Depth(p) = Depth(p - 1) + Step(p) /\ Depth(p - 1) \in Int
    <3>1. p \in Nat \ {0} /\ p - 1 \in Nat
      BY <1>0
    <3> QED BY <3>1, DepthIs
  <2>2. Step(p) = 0
    BY <1>1 DEF Step
  <2> QED BY <2>1, <2>2
<1>4. Atom(c).form /\ Matches(Atom(c), v)
  <2>1. v.hunk \in Bases \cup {ABSHUNK}
    BY DEF Bases, Last, IsText
  <2> HIDE DEF v
  <2>2. v = CalcValue(c)
    BY DEF v
  <2> QED BY <2>1, <2>2 DEF Atom, Matches
<1>5. \A k \in p..p : Depth(k) >= Depth(p - 1)
  BY <1>0, <1>3
<1> QED BY <1>0, <1>1, <1>2, <1>3, <1>4, <1>5 DEF Good

\* The depth changes at the parentheses only.
LEMMA TokenDepth ==
    ASSUME IsText, NEW k \in 1..Last
    PROVE  /\ Depth(k) \in Int /\ Depth(k - 1) \in Int /\ k \in Nat /\ k - 1 \in Nat
           /\ operand[k] = "(" => Depth(k) = Depth(k - 1) + 1
           /\ operand[k] = ")" => Depth(k) = Depth(k - 1) - 1
           /\ operand[k] \notin {"(", ")"} => Depth(k) = Depth(k - 1)
<1>1. k \in Nat \ {0} /\ k - 1 \in Nat /\ k \in Nat
  BY EndsTermIs
<1>2. Depth(k) = Depth(k - 1) + Step(k) /\ Depth(k) \in Int /\ Depth(k - 1) \in Int
  BY <1>1, DepthIs
<1> QED BY <1>1, <1>2 DEF Step

\* The span of an expression, as numbers.
LEMMA GoodSpan ==
    ASSUME IsText, NEW i, NEW j, NEW v, NEW ok, Good(i, j, v, ok)
    PROVE  /\ i \in 1..Last /\ j \in 1..Last /\ i <= j /\ i \in Nat \ {0} /\ j \in Nat /\ i \in 0..Last /\ j \in 0..Last
           /\ \A k \in i..j : Depth(k) \in Int /\ Depth(k) >= Depth(i - 1) /\ k \in 1..Last
           /\ Depth(i - 1) \in Int /\ Depth(j) = Depth(i - 1)
           /\ ~EndsTerm[i - 1] /\ EndsTerm[j]
<1>1. /\ i \in 1..Last /\ j \in i..Last /\ ~EndsTerm[i - 1] /\ EndsTerm[j]
      /\ \A k \in i..j : Depth(k) >= Depth(i - 1)
      /\ Depth(j) = Depth(i - 1)
  BY DEF Good
<1>2. Last \in Nat
  BY EndsTermIs
<1>3. /\ j \in 1..Last /\ i <= j /\ i \in Nat \ {0} /\ j \in Nat /\ i \in 0..Last /\ j \in 0..Last
      /\ \A k \in i..j : k \in 1..Last
  BY <1>1, <1>2
<1> QED BY <1>1, <1>3, TokenDepth

\* An expression in parentheses.
LEMMA GoodEnclosed ==
    ASSUME IsText, NEW i \in 1..Last, NEW j \in 1..Last, NEW v, NEW ok,
           operand[i] = "(", operand[j] = ")", ~EndsTerm[i - 1], Good(i + 1, j - 1, v, ok)
    PROVE  Good(i, j, v, ok) /\ Outer(i, j) = {}
<1>0. Last \in Nat /\ i \in Nat \ {0} /\ j \in Nat /\ i + 1 <= j - 1 /\ j \in 0..Last
  BY EndsTermIs, GoodSpan
<1>1. /\ Depth(i) = Depth(i - 1) + 1 /\ Depth(i - 1) \in Int
      /\ \A k \in (i + 1)..(j - 1) : Depth(k) \in Int /\ Depth(k) >= Depth(i)
      /\ Depth(j - 1) = Depth(i)
      /\ Depth(j) = Depth(j - 1) - 1
  <2>1. (i + 1) - 1 = i
    BY <1>0
  <2> QED BY <2>1, TokenDepth, GoodSpan
<1>2. \A k \in i..j : k = i \/ k = j \/ k \in (i + 1)..(j - 1)
  BY <1>0
<1>3. \A k \in i..j : Depth(k) >= Depth(i - 1)
  BY <1>1, <1>2
<1>4. ~IsBinary(i) /\ ~IsBinary(j)
  BY OperatorsAre DEF IsBinary
<1>5. Outer(i, j) = {}
  <2>1. Outer(i, j) = {k \in i..j : IsBinary(k) /\ Depth(k) = Depth(i - 1)}
    BY <1>0, OuterIs
  <2>2. ASSUME NEW k \in i..j, IsBinary(k), Depth(k) = Depth(i - 1) PROVE FALSE
    BY <1>1, <1>2, <1>4, <2>2
  <2> QED BY <2>1, <2>2
<1>6. Says[<<i, j>>] = Says[<<i + 1, j - 1>>]
  BY <1>0, <1>5, SaysEnclosed
<1>7. EndsTerm[j] /\ j \in i..Last /\ Depth(j) = Depth(i - 1)
  BY <1>0, <1>1, TokenEnds
<1> QED BY <1>3, <1>5, <1>6, <1>7 DEF Good

\* An expression after a sign.
LEMMA AfterSignOuter ==
    ASSUME IsText, NEW i \in 1..Last, NEW j \in 1..Last, NEW v, NEW ok,
           operand[i] \in Signs, ~EndsTerm[i - 1], Good(i + 1, j, v, ok), Outer(i + 1, j) = {}
    PROVE  /\ Outer(i, j) = {} /\ i < j /\ j \in i..Last /\ EndsTerm[j]
           /\ Depth(j) = Depth(i - 1)
           /\ \A k \in i..j : Depth(k) >= Depth(i - 1)
<1>0. Last \in Nat /\ i \in Nat \ {0} /\ j \in Nat /\ i + 1 <= j /\ i + 1 \in Nat \ {0} /\ (i + 1) - 1 = i
  BY EndsTermIs, GoodSpan
<1>1. /\ Depth(i) = Depth(i - 1) /\ Depth(i - 1) \in Int
      /\ \A k \in (i + 1)..j : Depth(k) \in Int /\ Depth(k) >= Depth(i)
      /\ Depth(j) = Depth(i) /\ EndsTerm[j]
  BY <1>0, TokenDepth, GoodSpan DEF Signs
<1>2. \A k \in i..j : k = i \/ k \in (i + 1)..j
  BY <1>0
<1>3. ~IsBinary(i)
  BY DEF IsBinary
<1>4. Outer(i, j) = {}
  <2>1. Outer(i, j) = {k \in i..j : IsBinary(k) /\ Depth(k) = Depth(i - 1)}
    BY <1>0, OuterIs
  <2>2. Outer(i + 1, j) = {k \in (i + 1)..j : IsBinary(k) /\ Depth(k) = Depth(i)}
    BY <1>0, OuterIs
  <2> QED BY <1>1, <1>2, <1>3, <2>1, <2>2
<1> QED BY <1>0, <1>1, <1>2, <1>4

\* A sign before a good term, or before a good expression in parentheses, is good.
LEMMA GoodSigned ==
    ASSUME IsText, NEW i \in 1..Last, NEW j \in 1..Last, NEW v, NEW ok,
           operand[i] \in Signs, operand[i + 1] \notin Signs,
           ~EndsTerm[i - 1], Good(i + 1, j, v, ok), Outer(i + 1, j) = {}
    PROVE  /\ Outer(i, j) = {}
           /\ operand[i] = "+" => Good(i, j, v, ok)
           /\ \A w, o : /\ operand[i] # "+"
                        /\ w = ValueOf(IF operand[i] = "-" THEN 0 ELSE -1, ABSHUNK, 0)
                        /\ o => ok /\ ~Crossed(operand[i], w.hunk, v.hunk)
                        => Good(i, j, Combined(operand[i], w, v), o)
<1>0. /\ Outer(i, j) = {} /\ i < j /\ j \in i..Last /\ EndsTerm[j]
      /\ Depth(j) = Depth(i - 1)
      /\ \A k \in i..j : Depth(k) >= Depth(i - 1)
  BY AfterSignOuter
<1>1. Says[<<i, j>>] = Signed(operand[i], Says[<<i + 1, j>>])
  <2>1. Last \in Nat /\ j \in 0..Last
    BY EndsTermIs
  <2> QED BY <1>0, <2>1, SaysSigned
<1>2. Says[<<i + 1, j>>].form /\ (ok => Matches(Says[<<i + 1, j>>], v))
  BY DEF Good
<1>3. Says[<<i, j>>].form
  BY <1>1, <1>2, SignedForm
<1>4. ASSUME operand[i] = "+" PROVE Good(i, j, v, ok)
  <2>1. Says[<<i, j>>] = Says[<<i + 1, j>>]
    BY <1>1, <1>4 DEF Signed
  <2> QED BY <1>0, <1>2, <2>1 DEF Good
<1>5. ASSUME NEW w, NEW o, operand[i] # "+",
             w = ValueOf(IF operand[i] = "-" THEN 0 ELSE -1, ABSHUNK, 0),
             o => ok /\ ~Crossed(operand[i], w.hunk, v.hunk)
      PROVE  Good(i, j, Combined(operand[i], w, v), o)
  <2> DEFINE zero == [Malformed EXCEPT !.form = TRUE, !.fixed = TRUE]
             ones == [zero EXCEPT !.value = -1]
             a == IF operand[i] = "-" THEN zero ELSE ones
             s == Says[<<i + 1, j>>]
  <2>1. operand[i] = "-" \/ operand[i] = "~"
    BY <1>5 DEF Signs
  <2>2. Says[<<i, j>>] = Applied(operand[i], a, s)
    <3>1. CASE operand[i] = "-"
      BY <1>1, <3>1 DEF Signed
    <3>2. CASE operand[i] = "~"
      BY <1>1, <3>2 DEF Signed
    <3> QED BY <2>1, <3>1, <3>2
  <2>3. a.fixed /\ a.value = (IF operand[i] = "-" THEN 0 ELSE -1) /\ a.weights = NoWeight
    BY DEF Malformed
  <2>4. w.value = (IF operand[i] = "-" THEN 0 ELSE -1) /\ w.hunk = ABSHUNK
    BY <1>5 DEF ValueOf
  <2>5. Matches(a, w)
    <3>1. \A h \in Bases : h # ABSHUNK
      BY NoBase
    <3>2. NoWeight = [h \in Bases |-> IF h = ABSHUNK THEN 1 ELSE 0]
      BY <3>1 DEF NoWeight
    <3> HIDE DEF a
    <3> QED BY <2>3, <2>4, <3>2 DEF Matches
  <2> HIDE DEF a, s
  <2>6. o => Matches(Applied(operand[i], a, s), Combined(operand[i], w, v))
    <3>1. operand[i] \in Binary \cup {"~"}
      BY <2>1 DEF Binary
    <3>2. o => Matches(s, v)
      BY <1>2, <1>5 DEF s
    <3> QED BY <1>5, <2>5, <3>1, <3>2, CombinedMatches
  <2> QED BY <1>0, <1>3, <2>2, <2>6 DEF Good
<1> QED BY <1>0, <1>4, <1>5

\* Two expressions and the operator between them.
LEMMA OuterJoined ==
    ASSUME IsText, NEW i, NEW k, NEW j, NEW v, NEW w, NEW ok,
           Good(i, k - 1, v, ok), Good(k + 1, j, w, ok), k \in 1..Last, IsOperator(operand[k]) > 2
    PROVE  /\ Outer(i, j) = Outer(i, k - 1) \cup {k} \cup Outer(k + 1, j)
           /\ \A l \in Outer(i, k - 1) : l \in Nat /\ l < k
           /\ i \in 1..Last /\ j \in i..Last /\ i < k /\ k < j /\ ~EndsTerm[i - 1] /\ EndsTerm[j]
           /\ Depth(j) = Depth(i - 1)
           /\ \A l \in i..j : Depth(l) >= Depth(i - 1)
<1>0. /\ Last \in Nat /\ i \in Nat \ {0} /\ i \in 1..Last /\ j \in Nat /\ j \in 1..Last
      /\ k \in Nat /\ k - 1 \in Nat /\ k + 1 \in Nat \ {0}
      /\ i <= k - 1 /\ k + 1 <= j
  BY EndsTermIs, GoodSpan
<1>1. /\ \A l \in i..(k - 1) : Depth(l) \in Int /\ Depth(l) >= Depth(i - 1)
      /\ Depth(k - 1) = Depth(i - 1) /\ Depth(i - 1) \in Int
      /\ EndsTerm[k - 1] /\ ~EndsTerm[i - 1]
  BY GoodSpan
<1>2. /\ \A l \in (k + 1)..j : Depth(l) \in Int /\ Depth(l) >= Depth(k)
      /\ Depth(j) = Depth(k) /\ EndsTerm[j]
  <2>1. (k + 1) - 1 = k
    BY <1>0
  <2> QED BY <2>1, GoodSpan
<1>3. IsBinary(k) /\ Depth(k) = Depth(i - 1)
  <2>1. operand[k] \notin {"(", ")"}
    BY OperatorsAre
  <2> QED BY <1>1, <2>1, TokenDepth DEF IsBinary
<1>4. \A l \in i..j : l \in i..(k - 1) \/ l = k \/ l \in (k + 1)..j
  BY <1>0
<1>5. Outer(i, j) = Outer(i, k - 1) \cup {k} \cup Outer(k + 1, j)
  <2>1. Outer(i, j) = {l \in i..j : IsBinary(l) /\ Depth(l) = Depth(i - 1)}
    BY <1>0, OuterIs
  <2>2. Outer(i, k - 1) = {l \in i..(k - 1) : IsBinary(l) /\ Depth(l) = Depth(i - 1)}
    BY <1>0, OuterIs
  <2>3. Outer(k + 1, j) = {l \in (k + 1)..j : IsBinary(l) /\ Depth(l) = Depth(i - 1)}
    <3>1. (k + 1) - 1 = k
      BY <1>0
    <3> QED BY <1>0, <1>3, <3>1, OuterIs
  <2>4. /\ \A l \in i..(k - 1) : l \in i..j
        /\ k \in i..j
        /\ \A l \in (k + 1)..j : l \in i..j
    BY <1>0
  <2> QED BY <1>3, <1>4, <2>1, <2>2, <2>3, <2>4
<1>6. \A l \in Outer(i, k - 1) : l \in Nat /\ l < k
  BY <1>0 DEF Outer
<1>7. \A l \in i..j : Depth(l) >= Depth(i - 1)
  BY <1>1, <1>2, <1>3, <1>4
<1> QED BY <1>0, <1>1, <1>2, <1>3, <1>5, <1>6, <1>7

\* Good expressions on both sides of an operator that binds no closer than the
\* operators on its left, and less close than those on its right, make a good one.
LEMMA GoodBinary ==
    ASSUME IsText, NEW i, NEW k, NEW j, NEW v, NEW w, NEW ok, NEW o,
           Good(i, k - 1, v, ok), Good(k + 1, j, w, ok), k \in 1..Last, IsOperator(operand[k]) > 2,
           Least(i, k - 1, IsOperator(operand[k])), Least(k + 1, j, IsOperator(operand[k]) + 1),
           o => ok /\ ~Crossed(operand[k], v.hunk, w.hunk)
    PROVE  /\ Good(i, j, Combined(operand[k], v, w), o)
           /\ Least(i, j, IsOperator(operand[k]))
<1> DEFINE p == IsOperator(operand[k])
<1>0. /\ Outer(i, j) = Outer(i, k - 1) \cup {k} \cup Outer(k + 1, j)
      /\ \A l \in Outer(i, k - 1) : l \in Nat /\ l < k
      /\ i \in 1..Last /\ j \in i..Last /\ i < k /\ k < j /\ ~EndsTerm[i - 1] /\ EndsTerm[j]
      /\ Depth(j) = Depth(i - 1)
      /\ \A l \in i..j : Depth(l) >= Depth(i - 1)
  BY OuterJoined
<1>1. /\ \A l \in Outer(i, k - 1) : IsOperator(operand[l]) >= p
      /\ \A l \in Outer(k + 1, j) : IsOperator(operand[l]) >= p + 1
  BY DEF Least
<1>2. p \in Nat /\ \A l : IsOperator(operand[l]) \in Nat
  BY PrecedenceRange
<1>3. \A l \in Outer(i, j) : IsOperator(operand[l]) >= p
  BY <1>0, <1>1, <1>2
<1>4. Last \in Nat /\ i \in Nat \ {0} /\ j \in Nat /\ j \in 0..Last /\ i < j /\ k \in Nat
  BY <1>0, EndsTermIs
<1>5. SplitAt(i, j) = k
  <2> DEFINE m == SplitAt(i, j)
  <2>1. /\ m \in Outer(i, j) /\ m \in i..j
        /\ IsOperator(operand[m]) <= p
        /\ IsOperator(operand[m]) = p => k <= m
    BY <1>0, <1>4, SplitIs
  <2> HIDE DEF m
  <2>2. IsOperator(operand[m]) = p
    BY <1>2, <1>3, <2>1
  <2>3. m \notin Outer(k + 1, j)
    BY <1>1, <1>2, <2>2
  <2>4. m \notin Outer(i, k - 1)
    BY <1>0, <1>4, <2>1, <2>2
  <2>5. m = k
    BY <1>0, <2>1, <2>3, <2>4
  <2> QED BY <2>5 DEF m
<1> DEFINE a == Says[<<i, k - 1>>]
           b == Says[<<k + 1, j>>]
<1>6. Says[<<i, j>>] = Applied(operand[k], a, b)
  <2>1. Outer(i, j) # {} /\ k # i /\ k # j
    BY <1>0, <1>4
  <2> QED BY <1>0, <1>4, <1>5, <2>1, SaysSplit
<1>7. a.form /\ b.form /\ (ok => Matches(a, v) /\ Matches(b, w))
  BY DEF Good
<1> HIDE DEF a, b
<1>8. o => Matches(Applied(operand[k], a, b), Combined(operand[k], v, w))
  <2>1. operand[k] \in Binary \cup {"~"}
    BY OperatorsAre
  <2> QED BY <1>7, <2>1, CombinedMatches
<1>9. Good(i, j, Combined(operand[k], v, w), o)
  BY <1>0, <1>6, <1>7, <1>8, AppliedForm DEF Good
<1> QED BY <1>3, <1>9 DEF Least

-----------------------------------------------------------------------------
(***************************************************************************)
(* What has a form: which token may follow which, and parentheses match.   *)
(***************************************************************************)
\* A term or an expression begins.
Opener(c) == c \in {"(", "*", "+", "-"} \/ IsOperator(c) = 0

\* What may follow the token k.
Follows(k) ==
    /\ EndsTerm[k] => IsOperator(operand[k + 1]) >= 2
    /\ ~EndsTerm[k] => Opener(operand[k + 1])
    /\ ~EndsTerm[k - 1] /\ operand[k] \in Signs => operand[k + 1] \notin Signs

WellPlaced(i, j) ==
    /\ i <= j /\ Opener(operand[i]) /\ EndsTerm[j]
    /\ \A k \in i..(j - 1) : Follows(k)
    /\ \A k \in i..j : Depth(k) >= Depth(i - 1)
    /\ Depth(j) = Depth(i - 1)

\* The sign of a term.
LEMMA SignFollows ==
    ASSUME IsText, NEW k \in 1..Last, operand[k] \in Signs \cup {"("}, ~EndsTerm[k - 1],
           Opener(operand[k + 1]), operand[k] \in Signs => operand[k + 1] \notin Signs
    PROVE  Follows(k)
<1>1. ~EndsTerm[k]
  BY TokenEnds DEF Signs
<1> QED BY <1>1 DEF Follows

\* What follows the end of a term.
LEMMA EndFollows ==
    ASSUME IsText, NEW k \in 1..Last, EndsTerm[k], IsOperator(operand[k + 1]) >= 2
    PROVE  Follows(k)
<1>1. operand[k] \notin Signs
  BY TokenEnds DEF Signs
<1> QED BY <1>1 DEF Follows

\* A term is well placed.
LEMMA PlacedAtom ==
    ASSUME IsText, NEW i \in 1..Last, EndsTerm[i], operand[i] # ")"
    PROVE  WellPlaced(i, i)
<1>1. i \in Nat /\ Depth(i) \in Int /\ Depth(i - 1) \in Int /\ i..(i - 1) = {} /\ i..i = {i}
  BY TokenDepth
<1>2. operand[i] = "*" \/ (IsOperator(operand[i]) = 0 /\ operand[i] # "~")
  BY TokenEnds
<1>3. Depth(i) = Depth(i - 1)
  BY <1>2, TokenDepth, OperatorsAre
<1> QED BY <1>1, <1>2, <1>3 DEF WellPlaced, Opener

\* So is an operator between two that are.
LEMMA PlacedBinary ==
    ASSUME IsText, NEW i \in 1..Last, NEW j \in 0..Last, NEW k \in (i + 1)..(j - 1), k \in Outer(i, j),
           WellPlaced(i, k - 1), WellPlaced(k + 1, j)
    PROVE  WellPlaced(i, j)
<1>0. /\ Last \in Nat /\ i \in Nat \ {0} /\ j \in Nat /\ k \in Nat /\ i < k /\ k < j
      /\ k \in 1..Last /\ k - 1 \in 1..Last /\ (k + 1) - 1 = k /\ (k - 1) + 1 = k
      /\ \A l \in i..j : l \in 1..Last
  BY EndsTermIs
<1>1. IsBinary(k) /\ Depth(k) = Depth(i - 1)
  BY <1>0, OuterIs
<1>2. \A l \in i..(j - 1) : l \in i..((k - 1) - 1) \/ l = k - 1 \/ l = k \/ l \in (k + 1)..(j - 1)
  BY <1>0
<1>3. Follows(k - 1)
  <2>1. EndsTerm[k - 1] /\ IsOperator(operand[k]) >= 2
    BY <1>1, PrecedenceRange DEF IsBinary
  <2> QED BY <1>0, <2>1, EndFollows
<1>4. Follows(k)
  <2>1. ~EndsTerm[k]
    BY <1>0, <1>1, TokenEnds
  <2> QED BY <1>1, <2>1 DEF Follows, IsBinary, WellPlaced
<1>5. \A l \in i..(j - 1) : Follows(l)
  BY <1>2, <1>3, <1>4 DEF WellPlaced
<1>6. \A l \in i..j : l \in i..(k - 1) \/ l = k \/ l \in (k + 1)..j
  BY <1>0
<1>7. \A l \in i..j : Depth(l) \in Int /\ Depth(i - 1) \in Int
  BY <1>0, TokenDepth
<1>8. /\ \A l \in i..(k - 1) : Depth(l) >= Depth(i - 1)
      /\ \A l \in (k + 1)..j : Depth(l) >= Depth(i - 1)
      /\ Depth(j) = Depth(i - 1)
  BY <1>0, <1>1 DEF WellPlaced
<1>9. \A l \in i..j : Depth(l) >= Depth(i - 1)
  BY <1>1, <1>6, <1>7, <1>8
<1>10. i <= j
  BY <1>0
<1> QED BY <1>5, <1>8, <1>9, <1>10 DEF WellPlaced

\* So is a sign before one that is.
LEMMA PlacedSigned ==
    ASSUME IsText, NEW i \in 1..Last, NEW j \in 0..Last, i < j,
           ~EndsTerm[i - 1], operand[i] \in Signs, operand[i + 1] \notin Signs, WellPlaced(i + 1, j)
    PROVE  WellPlaced(i, j)
<1>0. Last \in Nat /\ i \in Nat /\ j \in Nat /\ (i + 1) - 1 = i /\ i <= j
  BY EndsTermIs
<1>1. Depth(i) = Depth(i - 1) /\ Depth(i - 1) \in Int /\ Depth(i) \in Int
  BY TokenDepth DEF Signs
<1>2. Follows(i) /\ Opener(operand[i])
  BY SignFollows, OperatorsAre DEF WellPlaced, Opener, Signs
<1>3. \A l \in i..(j - 1) : l = i \/ l \in (i + 1)..(j - 1)
  BY <1>0
<1>4. \A l \in i..j : l = i \/ l \in (i + 1)..j
  BY <1>0
<1> QED BY <1>0, <1>1, <1>2, <1>3, <1>4 DEF WellPlaced

\* So is one in parentheses.
LEMMA PlacedEnclosed ==
    ASSUME IsText, NEW i \in 1..Last, NEW j \in 0..Last,
           ~EndsTerm[i - 1], operand[i] = "(", operand[j] = ")", WellPlaced(i + 1, j - 1)
    PROVE  WellPlaced(i, j)
<1>0. /\ Last \in Nat /\ i \in Nat /\ j \in Nat /\ (i + 1) - 1 = i /\ i <= j /\ j \in 1..Last /\ i + 1 <= j - 1
      /\ j - 1 \in 1..Last /\ (j - 1) + 1 = j
  BY EndsTermIs DEF WellPlaced
<1>1. /\ Depth(i) = Depth(i - 1) + 1 /\ Depth(i - 1) \in Int /\ Depth(j) = Depth(j - 1) - 1
      /\ Depth(j - 1) = Depth(i)
      /\ \A l \in (i + 1)..(j - 1) : Depth(l) \in Int /\ Depth(l) >= Depth(i)
  <2>1. \A l \in (i + 1)..(j - 1) : l \in 1..Last
    BY <1>0
  <2> QED BY <1>0, <2>1, TokenDepth DEF WellPlaced
<1>2. Follows(i) /\ Opener(operand[i])
  BY SignFollows DEF WellPlaced, Opener, Signs
<1>3. Follows(j - 1) /\ EndsTerm[j]
  <2>1. EndsTerm[j - 1] /\ IsOperator(operand[j]) >= 2
    BY OperatorsAre DEF WellPlaced
  <2> QED BY <1>0, <2>1, EndFollows, TokenEnds
<1>4. \A l \in i..(j - 1) : l = i \/ l = j - 1 \/ l \in (i + 1)..((j - 1) - 1)
  BY <1>0
<1>5. \A l \in i..(j - 1) : Follows(l)
  BY <1>2, <1>3, <1>4 DEF WellPlaced
<1>6. \A l \in i..j : l = i \/ l = j \/ l \in (i + 1)..(j - 1)
  BY <1>0
<1>7. \A l \in i..j : Depth(l) >= Depth(i - 1)
  BY <1>1, <1>6
<1> QED BY <1>0, <1>1, <1>2, <1>3, <1>5, <1>7 DEF WellPlaced

\* What says something is well placed: the shorter spans first.
LEMMA FormPlaced ==
    ASSUME IsText
    PROVE  \A i \in 1..Last, j \in 0..Last :
               Says[<<i, j>>].form /\ ~EndsTerm[i - 1] => WellPlaced(i, j)
<1> DEFINE Wrong(i, j) == Says[<<i, j>>].form /\ ~EndsTerm[i - 1] /\ ~WellPlaced(i, j)
           Bad == {d \in Nat : \E i \in 1..Last, j \in 0..Last : d = j - i /\ Wrong(i, j)}
<1>0. Last \in Nat
  BY EndsTermIs
<1>1. Bad = {}
  <2> SUFFICES ASSUME Bad # {} PROVE FALSE
    OBVIOUS
  <2>1. Bad \subseteq Nat
    OBVIOUS
  <2> HIDE DEF Bad
  <2>2. PICK d \in Bad : \A e \in Bad : d <= e
    BY <2>1, LeastNumber
  <2> USE DEF Bad
  <2>3. PICK i \in 1..Last, j \in 0..Last : d = j - i /\ Wrong(i, j)
    OBVIOUS
  <2>4. i \in Nat /\ j \in Nat /\ d \in Nat
    BY <1>0
  <2>5. ASSUME NEW a \in 1..Last, NEW b \in 0..Last, a <= b, b - a < j - i, Wrong(a, b)
        PROVE  FALSE
    <3>1. b - a \in Nat
      BY <1>0, <2>5
    <3>2. b - a \in Bad
      BY <2>5, <3>1
    <3> HIDE DEF Bad, Wrong
    <3>3. d <= b - a
      BY <2>2, <3>2
    <3> QED BY <1>0, <2>3, <2>4, <2>5, <3>1, <3>3
  <2> HIDE DEF Bad, Wrong
  <2>6. Says[<<i, j>>].form /\ ~EndsTerm[i - 1] /\ ~WellPlaced(i, j)
    BY <2>3 DEF Wrong
  <2>7. i <= j
    BY <2>6, FormIsOneOf
  <2>8. ~(i = j /\ EndsTerm[i] /\ operand[i] # ")")
    BY <2>6, PlacedAtom
  <2>9. ASSUME NEW k \in (i + 1)..(j - 1), k \in Outer(i, j), Says[<<i, k - 1>>].form, Says[<<k + 1, j>>].form
        PROVE  FALSE
    <3>1. /\ k \in 1..Last /\ k - 1 \in 0..Last /\ k + 1 \in 1..Last
          /\ (k - 1) - i < j - i /\ j - (k + 1) < j - i /\ (k + 1) - 1 = k
          /\ i <= k - 1 /\ k + 1 <= j /\ i \in Nat \ {0}
      BY <1>0, <2>4
    <3>2. ~EndsTerm[k]
      <4>1. IsBinary(k)
        BY <2>4, <2>9, <3>1, OuterIs
      <4> QED BY <3>1, <4>1, TokenEnds
    <3>3. WellPlaced(i, k - 1) /\ WellPlaced(k + 1, j)
      BY <2>5, <2>6, <2>9, <3>1, <3>2 DEF Wrong
    <3> QED BY <2>6, <2>9, <3>3, PlacedBinary
  <2>10. ASSUME i < j, operand[i] \in Signs, operand[i + 1] \notin Signs, Says[<<i + 1, j>>].form
         PROVE  FALSE
    <3>1. i + 1 \in 1..Last /\ j - (i + 1) < j - i /\ (i + 1) - 1 = i /\ i + 1 <= j
      BY <1>0, <2>4, <2>10
    <3>2. ~EndsTerm[i]
      BY <2>10, TokenEnds DEF Signs
    <3>3. WellPlaced(i + 1, j)
      BY <2>5, <2>10, <3>1, <3>2 DEF Wrong
    <3> QED BY <2>6, <2>10, <3>3, PlacedSigned
  <2>11. ASSUME i < j, operand[i] = "(", operand[j] = ")", Says[<<i + 1, j - 1>>].form
         PROVE  FALSE
    <3>1. i + 1 \in 1..Last /\ j - 1 \in 0..Last /\ (j - 1) - (i + 1) < j - i /\ (i + 1) - 1 = i
      BY <1>0, <2>4, <2>11
    <3>2. ~EndsTerm[i] /\ i + 1 <= j - 1
      BY <2>11, <3>1, TokenEnds, FormIsOneOf
    <3>3. WellPlaced(i + 1, j - 1)
      BY <2>5, <2>11, <3>1, <3>2 DEF Wrong
    <3> QED BY <2>6, <2>11, <3>3, PlacedEnclosed
  <2> QED BY <2>6, <2>8, <2>9, <2>10, <2>11, FormIsOneOf
<1>2. ASSUME NEW i \in 1..Last, NEW j \in 0..Last, Wrong(i, j) PROVE FALSE
  <2>1. i <= j
    BY <1>2, FormIsOneOf
  <2>2. j - i \in Nat
    BY <1>0, <2>1
  <2>3. j - i \in Bad
    BY <1>2, <2>2
  <2> QED BY <1>1, <2>3
<1> QED BY <1>2

-----------------------------------------------------------------------------
(***************************************************************************)
(* The stacks and the operand.  Each entry of the stack of operators is a  *)
(* token that has been read; between it and the next entry lies a good     *)
(* span, whose value is a term that waits, or a sign.                      *)
(***************************************************************************)
(* Where an operand of the entry "below" begins: at b, or after a plus. *)
AtOperand(below, b, p) == p = b \/ (p = b + 1 /\ operand[b] = "+" /\ below.prec # Unary)

(* The entry e was found at p, where the operand of the entry below begins *)
(* at b; v is the term that waits for it.                                  *)
WaitsParen(below, e, b, p) == e = [chr |-> "(", prec |-> 1] /\ AtOperand(below, b, p)
WaitsSign(below, e, b, p, v) ==
    /\ e.chr \in {"-", "~"} /\ e.prec = Unary /\ p = b /\ below.prec # Unary
    /\ v = ValueOf(IF e.chr = "-" THEN 0 ELSE -1, ABSHUNK, 0)
WaitsBinary(below, e, b, p, v, ok) ==
    /\ e.prec \in 3..6 /\ e.prec = IsOperator(e.chr) /\ e.prec > below.prec
    /\ p > b /\ Good(b, p - 1, v, ok) /\ Least(b, p - 1, e.prec)
Waits(below, e, b, p, v, ok) ==
    /\ p \in Nat /\ p >= b /\ p <= Last /\ e.chr = operand[p]
    /\ WaitsParen(below, e, b, p) \/ WaitsSign(below, e, b, p, v) \/ WaitsBinary(below, e, b, p, v, ok)

(* The entries of the stack of operators are the tokens P[2], P[3], ...,   *)
(* and c[q] terms wait for the entries up to q.                            *)
Places(ops, P, c) ==
    /\ P \in [1..Len(ops) -> Nat] /\ P[1] = 0
    /\ c \in [1..Len(ops) -> Nat] /\ c[1] = 0
    /\ \A q \in 1..Len(ops), r \in 1..Len(ops) : q <= r => c[q] <= c[r]
Layout(ops, P, c, T, ok) ==
    /\ Places(ops, P, c)
    /\ \A q \in 2..Len(ops) :
          /\ c[q] = c[q - 1] + (IF ops[q].chr = "(" THEN 0 ELSE 1)
          /\ Waits(ops[q - 1], ops[q], P[q - 1] + 1, P[q], T[c[q]], ok)

\* After an error less is claimed of the values.
LEMMA GoodWeaker ==
    ASSUME NEW i, NEW j, NEW v, NEW ok, NEW o, o => ok, Good(i, j, v, ok)
    PROVE  Good(i, j, v, o)
BY DEF Good

\* The same for an entry that waits.
LEMMA WaitsWeaker ==
    ASSUME NEW below, NEW e, NEW b, NEW p, NEW v, NEW ok, NEW o, o => ok, Waits(below, e, b, p, v, ok)
    PROVE  Waits(below, e, b, p, v, o)
BY GoodWeaker DEF Waits, WaitsBinary

\* Terms above those that wait may change.
LEMMA LayoutKeeps ==
    ASSUME NEW ops, Len(ops) \in Nat, Len(ops) >= 1,
           NEW P, NEW c, NEW T, NEW U, NEW ok, NEW o, Layout(ops, P, c, T, ok), o => ok,
           \A k \in 1..c[Len(ops)] : U[k] = T[k]
    PROVE  Layout(ops, P, c, U, o)
<1> DEFINE n == Len(ops)
<1>0. n \in Nat /\ n >= 1
  OBVIOUS
<1>1. c \in [1..n -> Nat] /\ \A q \in 1..n, r \in 1..n : q <= r => c[q] <= c[r]
  BY DEF Layout, Places
<1>2. ASSUME NEW q \in 2..n
      PROVE  /\ c[q] = c[q - 1] + (IF ops[q].chr = "(" THEN 0 ELSE 1)
             /\ Waits(ops[q - 1], ops[q], P[q - 1] + 1, P[q], U[c[q]], o)
  <2>1. /\ c[q] = c[q - 1] + (IF ops[q].chr = "(" THEN 0 ELSE 1)
        /\ Waits(ops[q - 1], ops[q], P[q - 1] + 1, P[q], T[c[q]], ok)
    BY DEF Layout
  <2>2. Waits(ops[q - 1], ops[q], P[q - 1] + 1, P[q], T[c[q]], o)
    BY <2>1, WaitsWeaker
  <2>3. q \in 1..n /\ n \in 1..n /\ q <= n /\ q - 1 \in 1..n
    BY <1>0
  <2>4. c[q] \in Nat /\ c[n] \in Nat /\ c[q - 1] \in Nat /\ c[q] <= c[n]
    BY <1>1, <2>3
  <2>5. CASE ops[q].chr = "("
    <3>1. ~WaitsSign(ops[q - 1], ops[q], P[q - 1] + 1, P[q], T[c[q]])
      BY <2>5 DEF WaitsSign
    <3>2. ~WaitsBinary(ops[q - 1], ops[q], P[q - 1] + 1, P[q], T[c[q]], o)
      BY <2>5, OperatorsAre DEF WaitsBinary
    <3> QED BY <2>1, <2>2, <3>1, <3>2 DEF Waits
  <2>6. CASE ops[q].chr # "("
    <3>1. c[q] \in 1..c[n]
      BY <2>1, <2>4, <2>6
    <3>2. U[c[q]] = T[c[q]]
      BY <3>1
    <3> QED BY <2>1, <2>2, <3>2
  <2> QED BY <2>5, <2>6
<1> QED BY <1>2 DEF Layout

\* One more entry.
More(P, n, p) == [k \in 1..(n + 1) |-> IF k = n + 1 THEN p ELSE P[k]]
Fewer(P, n) == [k \in 1..(n - 1) |-> P[k]]

\* A new entry has its place after the others.
LEMMA LayoutPush ==
    ASSUME NEW ops, StackOfOps(ops), NEW e \in Entries, NEW P, NEW c, NEW T, NEW ok, Layout(ops, P, c, T, ok),
           NEW p \in Nat, NEW d, d = c[Len(ops)] + (IF e.chr = "(" THEN 0 ELSE 1),
           Waits(ops[Len(ops)], e, P[Len(ops)] + 1, p, T[d], ok)
    PROVE  Layout(Append(ops, e), More(P, Len(ops), p), More(c, Len(ops), d), T, ok)
<1> DEFINE n == Len(ops)
           longer == Append(ops, e)
           Q == More(P, n, p)
           f == More(c, n, d)
           S == Entries \cup {Bottom}
<1>0. ops \in Seq(S) /\ e \in S
  BY DEF StackOfOps
<1> HIDE DEF S
<1>1. n \in Nat /\ n >= 1
  BY <1>0 DEF StackOfOps
<1>2. Len(longer) = n + 1 /\ longer[n + 1] = e /\ \A k \in 1..n : longer[k] = ops[k]
  BY <1>0
<1>3. /\ P \in [1..n -> Nat] /\ P[1] = 0 /\ c \in [1..n -> Nat] /\ c[1] = 0
      /\ \A q \in 1..n, r \in 1..n : q <= r => c[q] <= c[r]
  BY DEF Layout, Places
<1>4. d \in Nat /\ c[n] <= d
  BY <1>1, <1>3
<1> HIDE DEF n, longer
<1>5. /\ Q \in [1..(n + 1) -> Nat] /\ Q[n + 1] = p /\ \A k \in 1..n : Q[k] = P[k]
      /\ f \in [1..(n + 1) -> Nat] /\ f[n + 1] = d /\ \A k \in 1..n : f[k] = c[k]
  BY <1>1, <1>3, <1>4 DEF More
<1> HIDE DEF Q, f
<1>6. ASSUME NEW q \in 1..(n + 1), NEW r \in 1..(n + 1), q <= r PROVE f[q] <= f[r]
  <2>1. CASE r = n + 1 /\ q = n + 1
    BY <1>4, <1>5, <2>1
  <2>2. CASE r = n + 1 /\ q # n + 1
    <3>1. q \in 1..n /\ n \in 1..n /\ q <= n
      BY <1>1, <2>2
    <3>2. c[q] <= c[n] /\ c[q] \in Nat /\ c[n] \in Nat /\ f[q] = c[q]
      BY <1>3, <1>5, <3>1
    <3> QED BY <1>4, <1>5, <2>2, <3>2
  <2>3. CASE r # n + 1
    <3>1. q \in 1..n /\ r \in 1..n
      BY <1>1, <1>6, <2>3
    <3> QED BY <1>3, <1>5, <1>6, <3>1
  <2> QED BY <2>1, <2>2, <2>3
<1>7. Places(longer, Q, f)
  BY <1>1, <1>2, <1>3, <1>5, <1>6 DEF Places
<1>8. ASSUME NEW q \in 2..(n + 1)
      PROVE  /\ f[q] = f[q - 1] + (IF longer[q].chr = "(" THEN 0 ELSE 1)
             /\ Waits(longer[q - 1], longer[q], Q[q - 1] + 1, Q[q], T[f[q]], ok)
  <2>1. CASE q = n + 1
    <3>1. n \in 1..n /\ q - 1 = n
      BY <1>1, <2>1
    <3>2. longer[q] = e /\ longer[q - 1] = ops[n] /\ Q[q - 1] = P[n] /\ Q[q] = p /\ f[q] = d /\ f[q - 1] = c[n]
      BY <1>2, <1>5, <2>1, <3>1
    <3> QED BY <3>2 DEF n
  <2>2. CASE q # n + 1
    <3>1. q \in 2..n /\ q \in 1..n /\ q - 1 \in 1..n
      BY <1>1, <2>2
    <3>2. /\ longer[q] = ops[q] /\ longer[q - 1] = ops[q - 1] /\ Q[q - 1] = P[q - 1] /\ Q[q] = P[q]
          /\ f[q] = c[q] /\ f[q - 1] = c[q - 1]
      BY <1>2, <1>5, <3>1
    <3> QED BY <3>1, <3>2 DEF n, Layout
  <2> QED BY <2>1, <2>2
<1> QED BY <1>2, <1>7, <1>8 DEF Layout, n, longer, Q, f

\* Without the last entry the others keep their places.
LEMMA LayoutPop ==
    ASSUME NEW ops, StackOfOps(ops), Len(ops) >= 2, NEW P, NEW c, NEW T, NEW ok, Layout(ops, P, c, T, ok)
    PROVE  Layout(Pop(ops), Fewer(P, Len(ops)), Fewer(c, Len(ops)), T, ok)
<1> DEFINE n == Len(ops)
           Q == Fewer(P, n)
           f == Fewer(c, n)
<1>1. n \in Nat /\ n >= 2 /\ Len(Pop(ops)) = n - 1 /\ \A k \in 1..(n - 1) : Pop(ops)[k] = ops[k]
  BY PopShorter DEF StackOfOps
<1>2. /\ P \in [1..n -> Nat] /\ P[1] = 0 /\ c \in [1..n -> Nat] /\ c[1] = 0
      /\ \A q \in 1..n, r \in 1..n : q <= r => c[q] <= c[r]
  BY DEF Layout, Places
<1> HIDE DEF n
<1>3. /\ Q \in [1..(n - 1) -> Nat] /\ \A k \in 1..(n - 1) : Q[k] = P[k] /\ k \in 1..n
      /\ f \in [1..(n - 1) -> Nat] /\ \A k \in 1..(n - 1) : f[k] = c[k] /\ 1 \in 1..(n - 1)
  BY <1>1, <1>2 DEF Fewer
<1> HIDE DEF Q, f
<1>4. Places(Pop(ops), Q, f)
  BY <1>1, <1>2, <1>3 DEF Places
<1>5. ASSUME NEW q \in 2..(n - 1)
      PROVE  /\ f[q] = f[q - 1] + (IF Pop(ops)[q].chr = "(" THEN 0 ELSE 1)
             /\ Waits(Pop(ops)[q - 1], Pop(ops)[q], Q[q - 1] + 1, Q[q], T[f[q]], ok)
  <2>1. q \in 2..n /\ q \in 1..(n - 1) /\ q - 1 \in 1..(n - 1)
    BY <1>1
  <2>2. /\ Pop(ops)[q] = ops[q] /\ Pop(ops)[q - 1] = ops[q - 1] /\ Q[q - 1] = P[q - 1] /\ Q[q] = P[q]
        /\ f[q] = c[q] /\ f[q - 1] = c[q - 1]
    BY <1>1, <1>3, <2>1
  <2> QED BY <2>1, <2>2 DEF n, Layout
<1> QED BY <1>1, <1>4, <1>5 DEF Layout, n, Q, f

\* What the top of the stack waits for, and where what is below begins.
LEMMA LayoutTop ==
    ASSUME IsText, NEW ops, StackOfOps(ops), NEW P, NEW c, NEW T, NEW ok, Layout(ops, P, c, T, ok)
    PROVE  LET n == Len(ops) IN
           /\ n \in Nat /\ n >= 1 /\ P[n] \in Nat /\ c[n] \in Nat /\ P[n] <= Last
           /\ ~EndsTerm[P[n]]
           /\ n = 1 => P[n] = 0 /\ c[n] = 0 /\ ops[n] = Bottom
           /\ n > 1 => /\ ops[n] \in Entries
                       /\ Waits(ops[n - 1], ops[n], P[n - 1] + 1, P[n], T[c[n]], ok)
                       /\ P[n - 1] \in Nat /\ c[n - 1] \in Nat
                       /\ c[n] = c[n - 1] + (IF ops[n].chr = "(" THEN 0 ELSE 1)
                       /\ ops[n - 1] \in Entries \cup {Bottom}
                       /\ P[n] \in 1..Last
<1> DEFINE n == Len(ops)
<1>1. n \in Nat /\ n >= 1 /\ ops[1] = Bottom /\ \A k \in 2..n : ops[k] \in Entries
  BY DEF StackOfOps
<1>2. P \in [1..n -> Nat] /\ P[1] = 0 /\ c \in [1..n -> Nat] /\ c[1] = 0
  BY DEF Layout, Places
<1>3. Last \in Nat /\ ~EndsTerm[0]
  BY EndsTermIs
<1> HIDE DEF n
<1>4. CASE n = 1
  BY <1>1, <1>2, <1>3, <1>4 DEF n
<1>5. CASE n # 1
  <2>1. n \in 2..n /\ n \in 1..n /\ n - 1 \in 1..n /\ n > 1
    BY <1>1, <1>5
  <2>2. /\ Waits(ops[n - 1], ops[n], P[n - 1] + 1, P[n], T[c[n]], ok)
        /\ c[n] = c[n - 1] + (IF ops[n].chr = "(" THEN 0 ELSE 1)
    BY <2>1 DEF Layout, n
  <2>3. P[n - 1] \in Nat /\ c[n - 1] \in Nat /\ P[n] \in Nat /\ c[n] \in Nat
    BY <1>2, <2>1
  <2>4. ops[n] \in Entries /\ ops[n - 1] \in Entries \cup {Bottom}
    BY <1>1, <2>1
  <2>5. P[n] \in 1..Last /\ ops[n].chr = operand[P[n]]
    BY <1>3, <2>2, <2>3 DEF Waits
  <2>6. ~EndsTerm[P[n]]
    <3>1. CASE WaitsParen(ops[n - 1], ops[n], P[n - 1] + 1, P[n])
      BY <2>5, <3>1, TokenEnds DEF WaitsParen
    <3>2. CASE WaitsSign(ops[n - 1], ops[n], P[n - 1] + 1, P[n], T[c[n]])
      BY <2>5, <3>2, TokenEnds DEF WaitsSign
    <3>3. CASE WaitsBinary(ops[n - 1], ops[n], P[n - 1] + 1, P[n], T[c[n]], ok)
      <4>1. EndsTerm[P[n] - 1] /\ IsOperator(operand[P[n]]) > 2
        BY <2>5, <3>3 DEF WaitsBinary, Good
      <4> QED BY <2>5, <4>1, TokenEnds DEF IsBinary
    <3> QED BY <2>2, <3>1, <3>2, <3>3 DEF Waits
  <2> QED BY <1>1, <1>3, <2>1, <2>2, <2>3, <2>4, <2>5, <2>6 DEF n
<1> QED BY <1>4, <1>5

-----------------------------------------------------------------------------
(***************************************************************************)
(* Where the parser is: the operand of the top entry begins at b, and the  *)
(* parser is before, in or after it.                                       *)
(***************************************************************************)
TopOf(ops) == ops[Len(ops)]

\* the operand of the top begins at b, and d terms wait
Stands(ops, T, ok, b, d) ==
    \E P, c : Layout(ops, P, c, T, ok) /\ b = P[Len(ops)] + 1 /\ d = c[Len(ops)]

\* What the top of the stack waits for, and where the entry below stands.
LEMMA StandsTop ==
    ASSUME IsText, NEW ops, StackOfOps(ops), NEW T, NEW ok, NEW b, NEW d, Stands(ops, T, ok, b, d)
    PROVE  /\ b \in Nat /\ b >= 1 /\ b - 1 <= Last /\ d \in Nat /\ ~EndsTerm[b - 1]
           /\ TopOf(ops) \in Entries \cup {Bottom}
           /\ \/ TopOf(ops) = Bottom /\ b = 1 /\ d = 0
              \/ /\ TopOf(ops) \in Entries /\ b - 1 \in 1..Last
                 /\ StackOfOps(Pop(ops))
                 /\ \E a, f : /\ Stands(Pop(ops), T, ok, a, f)
                              /\ Waits(TopOf(Pop(ops)), TopOf(ops), a, b - 1, T[d], ok)
                              /\ d = f + (IF TopOf(ops).chr = "(" THEN 0 ELSE 1)
<1> DEFINE n == Len(ops)
<1>1. PICK P, c : Layout(ops, P, c, T, ok) /\ b = P[n] + 1 /\ d = c[n]
  BY DEF Stands
<1>2. /\ n \in Nat /\ n >= 1 /\ P[n] \in Nat /\ c[n] \in Nat /\ P[n] <= Last
      /\ ~EndsTerm[P[n]]
      /\ n = 1 => P[n] = 0 /\ c[n] = 0 /\ ops[n] = Bottom
      /\ n > 1 => /\ ops[n] \in Entries
                  /\ Waits(ops[n - 1], ops[n], P[n - 1] + 1, P[n], T[c[n]], ok)
                  /\ P[n - 1] \in Nat /\ c[n - 1] \in Nat
                  /\ c[n] = c[n - 1] + (IF ops[n].chr = "(" THEN 0 ELSE 1)
                  /\ ops[n - 1] \in Entries \cup {Bottom}
                  /\ P[n] \in 1..Last
  BY <1>1, LayoutTop
<1>3. b \in Nat /\ b >= 1 /\ b - 1 = P[n] /\ Last \in Nat
  BY <1>1, <1>2, EndsTermIs
<1>6. Len(ops) = n
  OBVIOUS
<1> HIDE DEF n
<1>4. CASE n = 1
  <2>1. TopOf(ops) = Bottom
    BY <1>2, <1>4, <1>6 DEF TopOf
  <2>2. P[n] = 0 /\ c[n] = 0 /\ ~EndsTerm[P[n]]
    BY <1>2, <1>4
  <2>3. b = 1 /\ d = 0 /\ ~EndsTerm[b - 1] /\ b - 1 <= Last
    BY <1>1, <1>3, <2>2
  <2> QED BY <2>1, <2>3
<1>5. CASE n # 1
  <2>1. n > 1 /\ n >= 2 /\ Len(ops) >= 2
    BY <1>2, <1>5, <1>6
  <2>2. /\ Len(Pop(ops)) = n - 1 /\ \A k \in 1..(n - 1) : Pop(ops)[k] = ops[k]
        /\ Pop(ops) \in Seq(Entries \cup {Bottom})
    BY <1>6, <2>1, PopShorter DEF StackOfOps
  <2>3. n - 1 \in 1..(n - 1) /\ 1 \in 1..(n - 1) /\ \A k \in 2..(n - 1) : k \in 1..(n - 1) /\ k \in 2..n
    BY <1>2, <2>1
  <2>4. StackOfOps(Pop(ops))
    <3>1. Len(Pop(ops)) >= 1
      BY <1>2, <2>1, <2>2
    <3>2. ops[1] = Bottom /\ \A k \in 2..n : ops[k] \in Entries
      BY <1>6 DEF StackOfOps
    <3> QED BY <2>2, <2>3, <3>1, <3>2 DEF StackOfOps
  <2>5. Layout(Pop(ops), Fewer(P, n), Fewer(c, n), T, ok)
    BY <1>1, <1>6, <2>1, LayoutPop
  <2>6. Fewer(P, n)[n - 1] = P[n - 1] /\ Fewer(c, n)[n - 1] = c[n - 1]
    BY <2>3 DEF Fewer
  <2>7. Stands(Pop(ops), T, ok, P[n - 1] + 1, c[n - 1])
    BY <2>2, <2>5, <2>6 DEF Stands
  <2>8. TopOf(Pop(ops)) = ops[n - 1]
    BY <2>2, <2>3 DEF TopOf
  <2>9. TopOf(ops) = ops[n]
    BY <1>6 DEF TopOf
  <2> QED BY <1>1, <1>2, <1>3, <2>1, <2>4, <2>7, <2>8, <2>9
<1> QED BY <1>4, <1>5

\* A new entry: its operand begins after it.
LEMMA StandsPush ==
    ASSUME IsText, NEW ops, StackOfOps(ops), NEW T, NEW ok, NEW b, NEW d, Stands(ops, T, ok, b, d),
           NEW e \in Entries, NEW p \in Nat, NEW f, f = d + (IF e.chr = "(" THEN 0 ELSE 1),
           Waits(TopOf(ops), e, b, p, T[f], ok)
    PROVE  Stands(Append(ops, e), T, ok, p + 1, f) /\ TopOf(Append(ops, e)) = e
<1> DEFINE n == Len(ops)
<1>1. PICK P, c : Layout(ops, P, c, T, ok) /\ b = P[n] + 1 /\ d = c[n]
  BY DEF Stands
<1>2. n \in Nat /\ Len(Append(ops, e)) = n + 1 /\ Append(ops, e)[n + 1] = e /\ n + 1 \in 1..(n + 1)
  <2> DEFINE S == Entries \cup {Bottom}
  <2>1. ops \in Seq(S) /\ e \in S
    BY DEF StackOfOps
  <2> HIDE DEF S
  <2> QED BY <2>1
<1>3. Layout(Append(ops, e), More(P, n, p), More(c, n, f), T, ok)
  BY <1>1, LayoutPush DEF TopOf
<1>4. More(P, n, p)[n + 1] = p /\ More(c, n, f)[n + 1] = f
  BY <1>2 DEF More
<1> QED BY <1>2, <1>3, <1>4 DEF Stands, TopOf

\* Terms above those that wait may change, and errors may come.
LEMMA StandsKeeps ==
    ASSUME NEW ops, StackOfOps(ops), NEW T, NEW U, NEW ok, NEW o, NEW b, NEW d, Stands(ops, T, ok, b, d),
           o => ok, \A k \in 1..d : U[k] = T[k]
    PROVE  Stands(ops, U, o, b, d)
<1>1. PICK P, c : Layout(ops, P, c, T, ok) /\ b = P[Len(ops)] + 1 /\ d = c[Len(ops)]
  BY DEF Stands
<1>2. Len(ops) \in Nat /\ Len(ops) >= 1
  BY DEF StackOfOps
<1>3. Layout(ops, P, c, U, o)
  BY <1>1, <1>2, LayoutKeeps
<1> QED BY <1>1, <1>3 DEF Stands

-----------------------------------------------------------------------------
(* The end of the operand, and where the parser is. *)
NoToken == ""

AfterTheSign(top, b, p) == AtOperand(top, b, p) /\ (p = b + 1 \/ top.prec = Unary)
LastTerm(top, b, p, v, ok) == Good(b, p - 1, v, ok) /\ (top.prec = Unary => operand[b] \notin Signs)

AtStart(top, b, p) == AtOperand(top, b, p) /\ (AfterTheSign(top, b, p) => At(p) = "(")
InTerm(top, b, p)  == AfterTheSign(top, b, p) /\ At(p) # "("
AtClose(top, b, p, v, ok) ==
    \/ At(p) = "~" /\ AfterTheSign(top, b, p)
    \/ LastTerm(top, b, p, v, ok) /\ Outer(b, p - 1) = {}
InCalc(top, b, p, v, prec, ok) ==
    LastTerm(top, b, p, v, ok) /\ Least(b, p - 1, prec) /\ Least(b, p - 1, top.prec + 1)
CalledAt(p, prec, open) ==
    \/ prec = 0 /\ At(p) = NoToken /\ open = 0
    \/ prec = 2 /\ At(p) = ")" /\ open > 0
    \/ prec \in 3..6 /\ At(p) \in Binary /\ prec = IsOperator(At(p))

Reads(top, b, d, T, at, p, prec, open, ok) ==
    \/ at = "start" /\ Len(T) = d /\ AtStart(top, b, p)
    \/ at = "term"  /\ Len(T) = d /\ InTerm(top, b, p)
    \/ at = "close" /\ Len(T) = d + 1 /\ AtClose(top, b, p, T[d + 1], ok)
    \/ at = "calc"  /\ Len(T) = d + 1 /\ InCalc(top, b, p, T[d + 1], prec, ok) /\ CalledAt(p, prec, open)

Understood(ops, T, at, p, prec, open, ok) ==
    /\ p \in 1..(Last + 1) /\ open = Depth(p - 1)
    /\ \E b, d : Stands(ops, T, ok, b, d) /\ Reads(TopOf(ops), b, d, T, at, p, prec, open, ok)

NoEmptyToken == \A k \in 1..Last : operand[k] # NoToken

\* The token at a position, or the end.
LEMMA TokenAt ==
    ASSUME IsText, NEW p \in 1..(Last + 1)
    PROVE  /\ p \in Nat /\ Last \in Nat
           /\ p = Last + 1 => At(p) = NoToken
           /\ p # Last + 1 => p \in 1..Last /\ At(p) = operand[p]
           /\ At(p) # NoToken => p \in 1..Last /\ At(p) = operand[p] /\ p + 1 \in 1..(Last + 1)
           /\ NoEmptyToken /\ At(p) = NoToken => p = Last + 1
<1>1. Last \in Nat
  BY EndsTermIs
<1>2. At(p) = (IF p <= Last THEN operand[p] ELSE NoToken)
  BY DEF At, Last, NoToken
<1>3. p \in Nat /\ (p <= Last <=> p \in 1..Last) /\ (p = Last + 1 <=> ~(p <= Last)) /\ p + 1 \in Nat
  BY <1>1
<1>4. p \in 1..Last => p + 1 \in 1..(Last + 1)
  BY <1>1
<1> QED BY <1>1, <1>2, <1>3, <1>4 DEF NoEmptyToken

\* Every operator is a token.
LEMMA TokenNames == NoToken \notin {"(", ")", "~", "*", "+", "-"} /\ NoToken \notin Binary
BY Zenon DEF NoToken, Binary

\* The entries there are.
LEMMA BottomEntries ==
    /\ Bottom.prec = -1 /\ Bottom.chr = " " /\ Unary = 9
    /\ [chr |-> "(", prec |-> 1] \in Entries
    /\ \A e \in Entries : e.prec \in 1..9
BY DEF Bottom, Entries, Unary

\* LeftParenthesis: a parenthesis waits for its expression.
LEMMA ParenUnderstood ==
    ASSUME IsText, NEW ops, StackOfOps(ops), NEW T, NEW p, NEW prec, NEW open, NEW ok,
           Understood(ops, T, "start", p, prec, open, ok), At(p) = "("
    PROVE  Understood(Append(ops, [chr |-> "(", prec |-> 1]), T, "start", p + 1, prec, open + 1, ok)
<1> DEFINE e == [chr |-> "(", prec |-> 1]
<1>1. PICK b, d : /\ Stands(ops, T, ok, b, d)
                  /\ Reads(TopOf(ops), b, d, T, "start", p, prec, open, ok)
  BY DEF Understood
<1>2. p \in 1..(Last + 1) /\ open = Depth(p - 1)
  BY DEF Understood
<1>0. p \in Nat /\ p \in 1..Last /\ operand[p] = "(" /\ p + 1 \in 1..(Last + 1)
  BY <1>2, TokenAt, TokenNames
<1>3. p \in Nat /\ p \in 1..Last /\ operand[p] = "(" /\ p + 1 \in 1..(Last + 1) /\ (p + 1) - 1 = p
  BY <1>0
<1>4. b \in Nat /\ d \in Nat
  BY <1>1, StandsTop
<1>5. AtOperand(TopOf(ops), b, p) /\ Len(T) = d
  BY <1>1 DEF Reads, AtStart
<1>6. Waits(TopOf(ops), e, b, p, T[d], ok)
  <2>1. p >= b /\ p <= Last
    BY <1>3, <1>4, <1>5 DEF AtOperand
  <2>2. WaitsParen(TopOf(ops), e, b, p)
    BY <1>5 DEF WaitsParen
  <2> QED BY <1>3, <2>1, <2>2 DEF Waits
<1>7. Stands(Append(ops, e), T, ok, p + 1, d) /\ TopOf(Append(ops, e)) = e
  <2>1. e \in Entries /\ d = d + (IF e.chr = "(" THEN 0 ELSE 1)
    <3>1. e \in Entries /\ e.chr = "("
      BY BottomEntries
    <3> HIDE DEF e
    <3> QED BY <1>4, <3>1
  <2> HIDE DEF e
  <2> QED BY <1>1, <1>3, <1>6, <2>1, StandsPush
<1>8. AtStart(e, p + 1, p + 1)
  <2>1. p + 1 # (p + 1) + 1 /\ e.prec # Unary
    BY <1>3 DEF Unary
  <2> HIDE DEF e
  <2> QED BY <2>1 DEF AtStart, AfterTheSign, AtOperand
<1>9. Depth(p) = open + 1
  BY <1>2, <1>3, TokenDepth
<1> HIDE DEF e
<1>10. Reads(e, p + 1, d, T, "start", p + 1, prec, open + 1, ok)
  BY <1>5, <1>8 DEF Reads
<1>11. Understood(Append(ops, e), T, "start", p + 1, prec, open + 1, ok)
  BY <1>3, <1>7, <1>9, <1>10 DEF Understood
<1> QED BY <1>11 DEF e

\* One more term leaves the others as they are.
LEMMA TermsPush ==
    ASSUME NEW T, IsStack(T), NEW v
    PROVE  /\ Len(T) \in Nat /\ Len(Append(T, v)) = Len(T) + 1 /\ Append(T, v)[Len(T) + 1] = v
           /\ \A k \in 1..Len(T) : Append(T, v)[k] = T[k]
<1>1. PICK S : T \in Seq(S)
  BY DEF IsStack
<1>2. T \in Seq(S \cup {v}) /\ v \in S \cup {v}
  BY <1>1
<1> QED BY <1>2

\* Where a term may begin, none has ended.
LEMMA TermStarts ==
    ASSUME IsText, NEW ops, StackOfOps(ops), NEW T, NEW ok, NEW b, NEW d, Stands(ops, T, ok, b, d),
           NEW p \in 1..(Last + 1), AtOperand(TopOf(ops), b, p)
    PROVE  ~EndsTerm[p - 1] /\ p \in Nat /\ b \in Nat /\ d \in Nat /\ 1 <= b /\ b <= p
<1>1. b \in Nat /\ b >= 1 /\ d \in Nat /\ ~EndsTerm[b - 1]
  BY StandsTop
<1>2. Last \in Nat /\ p \in Nat
  BY EndsTermIs
<1>3. CASE p = b
  BY <1>1, <1>2, <1>3
<1>4. CASE p = b + 1 /\ operand[b] = "+"
  <2>1. b \in 1..Last /\ p - 1 = b
    BY <1>1, <1>2, <1>4
  <2>2. ~EndsTerm[b]
    BY <1>4, <2>1, TokenEnds
  <2> QED BY <1>1, <1>2, <1>4, <2>1, <2>2
<1> QED BY <1>3, <1>4 DEF AtOperand

\* The sign before a term.
LEMMA SignBefore ==
    ASSUME IsText, NEW ops, StackOfOps(ops), NEW T, NEW ok, NEW b, NEW d, Stands(ops, T, ok, b, d),
           NEW p \in 1..(Last + 1), AfterTheSign(TopOf(ops), b, p)
    PROVE  p - 1 \in 1..Last /\ operand[p - 1] \in Signs /\ ~EndsTerm[(p - 1) - 1]
<1>1. b \in Nat /\ b >= 1 /\ ~EndsTerm[b - 1] /\ p \in Nat /\ Last \in Nat
  BY StandsTop, EndsTermIs
<1>2. CASE p = b + 1
  <2>1. operand[b] = "+" /\ p - 1 = b /\ b \in 1..Last
    BY <1>1, <1>2 DEF AfterTheSign, AtOperand
  <2> QED BY <1>1, <2>1 DEF Signs
<1>3. CASE p # b + 1
  <2>1. p = b /\ TopOf(ops).prec = Unary
    BY <1>3 DEF AfterTheSign, AtOperand
  <2>2. TopOf(ops) # Bottom
    <3>1. Bottom.prec = -1 /\ Unary = 9
      BY BottomEntries
    <3> QED BY <2>1, <3>1
  <2>3. PICK a, f : /\ Stands(Pop(ops), T, ok, a, f)
                    /\ Waits(TopOf(Pop(ops)), TopOf(ops), a, b - 1, T[d], ok)
                    /\ StackOfOps(Pop(ops)) /\ b - 1 \in 1..Last
    BY <2>2, StandsTop
  <2>4. WaitsSign(TopOf(Pop(ops)), TopOf(ops), a, b - 1, T[d]) /\ TopOf(ops).chr = operand[b - 1]
    <3>1. ~WaitsParen(TopOf(Pop(ops)), TopOf(ops), a, b - 1)
      BY <2>1 DEF WaitsParen, Unary
    <3>2. ~WaitsBinary(TopOf(Pop(ops)), TopOf(ops), a, b - 1, T[d], ok)
      BY <2>1 DEF WaitsBinary, Unary
    <3> QED BY <2>3, <3>1, <3>2 DEF Waits
  <2>5. a = b - 1 /\ operand[b - 1] \in Signs
    BY <2>4 DEF WaitsSign, Signs
  <2>6. ~EndsTerm[a - 1]
    BY <2>3, StandsTop
  <2> QED BY <2>1, <2>3, <2>5, <2>6
<1> QED BY <1>2, <1>3

\* UnaryOperator: a minus or ~ waits for its term, a plus is passed.
LEMMA SignUnderstood ==
    ASSUME IsText, NEW ops, StackOfOps(ops), NEW T, IsStack(T), NEW p, NEW prec, NEW open, NEW ok,
           Understood(ops, T, "start", p, prec, open, ok), At(p) \in Signs,
           NEW at, at = (IF At(p + 1) = "(" THEN "start" ELSE "term")
    PROVE  /\ At(p) = "+" => Understood(ops, T, at, p + 1, prec, open, ok)
           /\ \A e, w : /\ e = [chr |-> At(p), prec |-> Unary] /\ At(p) # "+"
                        /\ w = ValueOf(IF At(p) = "-" THEN 0 ELSE -1, ABSHUNK, 0)
                        => Understood(Append(ops, e), Append(T, w), at, p + 1, prec, open, ok)
<1>1. PICK b, d : Stands(ops, T, ok, b, d) /\ Reads(TopOf(ops), b, d, T, "start", p, prec, open, ok)
  BY DEF Understood
<1>2. p \in 1..(Last + 1) /\ open = Depth(p - 1)
  BY DEF Understood
<1>3. p \in Nat /\ p \in 1..Last /\ operand[p] = At(p) /\ p + 1 \in 1..(Last + 1)
  BY <1>2, TokenAt, TokenNames DEF Signs
<1>4. Len(T) = d /\ AtStart(TopOf(ops), b, p)
  BY <1>1 DEF Reads
<1>5. p = b /\ TopOf(ops).prec # Unary
  BY <1>4 DEF AtStart, AfterTheSign, AtOperand, Signs
<1>6. Depth(p) = open /\ (p + 1) - 1 = p
  BY <1>2, <1>3, TokenDepth DEF Signs
<1>7. ASSUME At(p) = "+" PROVE Understood(ops, T, at, p + 1, prec, open, ok)
  <2>1. AfterTheSign(TopOf(ops), b, p + 1)
    BY <1>3, <1>5, <1>7 DEF AfterTheSign, AtOperand
  <2>2. Reads(TopOf(ops), b, d, T, at, p + 1, prec, open, ok)
    BY <1>4, <2>1 DEF Reads, AtStart, InTerm, AfterTheSign
  <2> QED BY <1>1, <1>3, <1>6, <2>2 DEF Understood
<1>8. ASSUME NEW e, NEW w, e = [chr |-> At(p), prec |-> Unary], At(p) # "+",
             w = ValueOf(IF At(p) = "-" THEN 0 ELSE -1, ABSHUNK, 0)
      PROVE  Understood(Append(ops, e), Append(T, w), at, p + 1, prec, open, ok)
  <2> DEFINE U == Append(T, w)
  <2>1. Len(U) = d + 1 /\ U[d + 1] = w /\ \A k \in 1..d : U[k] = T[k]
    BY <1>4, TermsPush
  <2> HIDE DEF U
  <2>2. Stands(ops, U, ok, b, d)
    BY <1>1, <2>1, StandsKeeps
  <2>3. e.chr = At(p) /\ e.prec = Unary /\ At(p) \in {"-", "~"} /\ e.chr # "("
    BY <1>8 DEF Signs
  <2>4. e \in Entries
    BY <1>8, <2>3 DEF Entries, Unary, Binary
  <2>5. Waits(TopOf(ops), e, b, p, U[d + 1], ok)
    <3>1. WaitsSign(TopOf(ops), e, b, p, U[d + 1])
      BY <1>5, <1>8, <2>1, <2>3 DEF WaitsSign
    <3> QED BY <1>3, <1>5, <2>3, <3>1 DEF Waits
  <2>6. Stands(Append(ops, e), U, ok, p + 1, d + 1) /\ TopOf(Append(ops, e)) = e
    BY <1>3, <2>2, <2>3, <2>4, <2>5, StandsPush
  <2>7. AfterTheSign(e, p + 1, p + 1)
    BY <2>3 DEF AfterTheSign, AtOperand
  <2>8. Reads(e, p + 1, d + 1, U, at, p + 1, prec, open, ok)
    BY <2>1, <2>7 DEF Reads, AtStart, InTerm, AfterTheSign
  <2>9. Understood(Append(ops, e), U, at, p + 1, prec, open, ok)
    BY <1>3, <1>6, <2>6, <2>8 DEF Understood
  <2> QED BY <2>9 DEF U
<1> QED BY <1>7, <1>8

TermExpected(at, p) == at = "term" \/ (at = "start" /\ At(p) \notin {"(", "+", "-", "~"})
IsTerm(c) == c = "*" \/ (c # NoToken /\ IsOperator(c) = 0)

\* GetTerm: a term ends what the top entry waits for.
LEMMA TermUnderstood ==
    ASSUME IsText, NEW ops, StackOfOps(ops), NEW T, IsStack(T), NEW at, NEW p, NEW prec, NEW open, NEW ok,
           Understood(ops, T, at, p, prec, open, ok), NEW o, o => ok,
           TermExpected(at, p), IsTerm(At(p)), NEW v
    PROVE  /\ At(p) = "~" => Understood(ops, Append(T, v), "close", p, prec, open, o)
           /\ At(p) # "~" /\ v = CalcValue(At(p)) =>
                 Understood(ops, Append(T, v), "close", p + 1, prec, open, o)
<1> DEFINE U == Append(T, v)
           top == TopOf(ops)
<1>1. PICK b, d : Stands(ops, T, ok, b, d) /\ Reads(TopOf(ops), b, d, T, at, p, prec, open, ok)
  BY DEF Understood
<1>2. p \in 1..(Last + 1) /\ open = Depth(p - 1)
  BY DEF Understood
<1>3. p \in Nat /\ p \in 1..Last /\ operand[p] = At(p) /\ p + 1 \in 1..(Last + 1)
  <2>1. At(p) # NoToken
    BY TokenNames DEF IsTerm
  <2> QED BY <1>2, <2>1, TokenAt
<1>4. /\ Len(T) = d /\ AtOperand(top, b, p)
      /\ At(p) = "~" => AfterTheSign(top, b, p)
  BY <1>1 DEF Reads, TermExpected, AtStart, InTerm, AfterTheSign
<1>5. Len(U) = d + 1 /\ U[d + 1] = v /\ \A k \in 1..d : U[k] = T[k]
  BY <1>4, TermsPush
<1> HIDE DEF U
<1>6. Stands(ops, U, o, b, d)
  BY <1>1, <1>5, StandsKeeps
<1> HIDE DEF top
<1>7. CASE At(p) = "~"
  <2>1. AfterTheSign(top, b, p)
    BY <1>4, <1>7
  <2>2. Reads(top, b, d, U, "close", p, prec, open, o)
    BY <1>5, <1>7, <2>1 DEF Reads, AtClose
  <2> QED BY <1>2, <1>6, <1>7, <2>2 DEF Understood, U, top
<1>8. CASE At(p) # "~" /\ v = CalcValue(At(p))
  <2>0. AtOperand(top, b, p)
    BY <1>4
  <2>1. ~EndsTerm[p - 1] /\ b \in Nat /\ 1 <= b /\ b <= p
    BY <1>1, <1>2, <2>0, TermStarts DEF top
  <2>2. operand[p] = "*" \/ (IsOperator(operand[p]) = 0 /\ operand[p] # "~")
    BY <1>3, <1>8 DEF IsTerm
  <2>3. Good(p, p, v, o) /\ Outer(p, p) = {}
    BY <1>3, <1>8, <2>1, <2>2, GoodAtom
  <2>4. operand[p] \notin Signs /\ operand[p] \notin {"(", ")"}
    BY <2>2, OperatorsAre DEF Signs
  <2>5. LastTerm(top, b, p + 1, v, o) /\ Outer(b, p) = {}
    <3>1. CASE p = b
      <4>1. (p + 1) - 1 = p
        BY <1>3
      <4> QED BY <2>3, <2>4, <3>1, <4>1 DEF LastTerm
    <3>2. CASE p # b
      <4>1. p = b + 1 /\ operand[b] = "+" /\ top.prec # Unary
        BY <2>0, <3>2 DEF AtOperand
      <4>2. b \in 1..Last /\ (p + 1) - 1 = p
        <5>1. Last \in Nat /\ p <= Last /\ p \in Nat
          BY <1>3, EndsTermIs
        <5>2. b \in Nat /\ 1 <= b /\ p = b + 1
          BY <2>1, <4>1
        <5> QED BY <5>1, <5>2
      <4>3. ~EndsTerm[b - 1]
        BY <1>1, StandsTop
      <4>4. Good(b, p, v, o) /\ Outer(b, p) = {}
        <5>1. operand[b] \in Signs /\ operand[b + 1] \notin Signs
          BY <2>4, <4>1 DEF Signs
        <5>2. Good(b + 1, p, v, o) /\ Outer(b + 1, p) = {}
          BY <2>3, <4>1
        <5> QED BY <1>3, <4>1, <4>2, <4>3, <5>1, <5>2, GoodSigned
      <4> QED BY <4>1, <4>2, <4>4 DEF LastTerm
    <3> QED BY <3>1, <3>2
  <2>6. (p + 1) - 1 = p /\ Depth(p) = open
    BY <1>2, <1>3, <2>4, TokenDepth
  <2>7. Reads(top, b, d, U, "close", p + 1, prec, open, o)
    BY <1>5, <2>5, <2>6 DEF Reads, AtClose
  <2> QED BY <1>3, <1>6, <1>8, <2>6, <2>7 DEF Understood, U, top
<1> QED BY <1>7, <1>8 DEF U

\* CondCalc is called with the precedence of what comes next.
LEMMA CallUnderstood ==
    ASSUME NEW ops, NEW T, NEW p, NEW prec, NEW open, NEW ok,
           Understood(ops, T, "close", p, prec, open, ok), NEW q, CalledAt(p, q, open)
    PROVE  Understood(ops, T, "calc", p, q, open, ok)
<1>1. PICK b, d : Stands(ops, T, ok, b, d) /\ Reads(TopOf(ops), b, d, T, "close", p, prec, open, ok)
  BY DEF Understood
<1>2. Len(T) = d + 1 /\ AtClose(TopOf(ops), b, p, T[d + 1], ok)
  BY <1>1 DEF Reads
<1>3. At(p) # "~"
  <2>1. At(p) \in {NoToken, ")"} \cup Binary
    BY DEF CalledAt
  <2>2. "~" \notin Binary
    BY DEF Binary
  <2> QED BY <2>1, <2>2, TokenNames
<1>4. LastTerm(TopOf(ops), b, p, T[d + 1], ok) /\ Outer(b, p - 1) = {}
  BY <1>2, <1>3 DEF AtClose
<1>5. InCalc(TopOf(ops), b, p, T[d + 1], q, ok)
  BY <1>4 DEF InCalc, Least
<1> QED BY <1>1, <1>2, <1>5 DEF Understood, Reads

\* Precedences are numbers.
LEMMA EntryPrecedence ==
    /\ \A e \in Entries : e.prec \in 1..9
    /\ \A e \in Entries \cup {Bottom} : e.prec \in Int
<1>1. \A e \in Entries : e.prec \in 1..9
  BY DEF Entries
<1>2. Bottom.prec = -1
  BY DEF Bottom
<1> QED BY <1>1, <1>2

\* Two terms become one, those below stay.
LEMMA TermsCombine ==
    ASSUME NEW T, IsStack(T), NEW d \in Nat, Len(T) = d + 1, d >= 1, NEW v
    PROVE  LET U == Append(Pop(Pop(T)), v) IN
           Len(U) = d /\ U[d] = v /\ \A k \in 1..(d - 1) : U[k] = T[k]
<1>1. PICK S : T \in Seq(S)
  BY DEF IsStack
<1> DEFINE Q == Pop(T)
<1>2. Q \in Seq(S) /\ Len(Q) = d /\ \A k \in 1..d : Q[k] = T[k]
  BY <1>1, PopShorter
<1> HIDE DEF Q
<1> DEFINE R == Pop(Q)
<1>3. R \in Seq(S) /\ Len(R) = d - 1 /\ \A k \in 1..(d - 1) : R[k] = Q[k]
  BY <1>2, PopShorter
<1> HIDE DEF R
<1>4. IsStack(R)
  BY <1>3 DEF IsStack
<1>5. Len(Append(R, v)) = d /\ Append(R, v)[d] = v /\ \A k \in 1..(d - 1) : Append(R, v)[k] = R[k]
  <2>1. Len(R) + 1 = d
    BY <1>3
  <2> QED BY <1>3, <1>4, <2>1, TermsPush
<1>6. \A k \in 1..(d - 1) : k \in 1..d
  OBVIOUS
<1> QED BY <1>2, <1>3, <1>5, <1>6 DEF Q, R

\* A sign has the term after it, or the expression in parentheses.
LEMMA SignCalculated ==
    ASSUME IsText, NEW below, NEW top, NEW a \in Nat, NEW p \in 1..(Last + 1), NEW v, NEW w, NEW ok, NEW o,
           WaitsSign(below, top, a, a, w), top.chr = operand[a], a \in 1..Last, ~EndsTerm[a - 1],
           LastTerm(top, a + 1, p, v, ok), Least(a + 1, p - 1, top.prec + 1),
           o => ok /\ ~Crossed(top.chr, w.hunk, v.hunk)
    PROVE  LastTerm(below, a, p, Combined(top.chr, w, v), o) /\ Outer(a, p - 1) = {}
<1>1. /\ top.chr \in {"-", "~"} /\ top.prec = Unary /\ below.prec # Unary
      /\ w = ValueOf(IF top.chr = "-" THEN 0 ELSE -1, ABSHUNK, 0)
  BY DEF WaitsSign
<1>2. Good(a + 1, p - 1, v, ok) /\ operand[a + 1] \notin Signs
  BY <1>1 DEF LastTerm
<1>3. Outer(a + 1, p - 1) = {}
  <2>1. \A k \in Outer(a + 1, p - 1) : IsOperator(operand[k]) >= 10
    BY <1>1 DEF Least, Unary
  <2> QED BY <2>1, PrecedenceRange
<1>4. p - 1 \in 1..Last
  BY <1>2, GoodSpan
<1>5. operand[a] \in Signs /\ operand[a] # "+"
  BY <1>1 DEF Signs
<1>6. Good(a, p - 1, Combined(operand[a], w, v), o) /\ Outer(a, p - 1) = {}
  BY <1>1, <1>2, <1>3, <1>4, <1>5, GoodSigned
<1> QED BY <1>1, <1>6 DEF LastTerm

\* A binary operator has the expressions on its two sides.
LEMMA BinaryCalculated ==
    ASSUME IsText, NEW below, below.prec \in Int, NEW top, NEW a, NEW q \in 1..Last, NEW p \in 1..(Last + 1),
           NEW v, NEW w, NEW ok, NEW o,
           WaitsBinary(below, top, a, q, w, ok), top.chr = operand[q],
           LastTerm(top, q + 1, p, v, ok), Least(q + 1, p - 1, top.prec + 1),
           o => ok /\ ~Crossed(top.chr, w.hunk, v.hunk)
    PROVE  /\ LastTerm(below, a, p, Combined(top.chr, w, v), o)
           /\ Least(a, p - 1, top.prec) /\ Least(a, p - 1, below.prec + 1)
<1>1. /\ top.prec \in 3..6 /\ top.prec = IsOperator(operand[q]) /\ top.prec > below.prec
      /\ Good(a, q - 1, w, ok) /\ Least(a, q - 1, IsOperator(operand[q]))
  BY DEF WaitsBinary
<1>2. Good(q + 1, p - 1, v, ok) /\ IsOperator(operand[q]) > 2
  BY <1>1 DEF LastTerm
<1>3. Least(q + 1, p - 1, IsOperator(operand[q]) + 1)
  BY <1>1
<1>4. o => ok /\ ~Crossed(operand[q], w.hunk, v.hunk)
  OBVIOUS
<1>5. Good(a, p - 1, Combined(operand[q], w, v), o) /\ Least(a, p - 1, IsOperator(operand[q]))
  BY <1>1, <1>2, <1>3, <1>4, GoodBinary
<1>6. below.prec # Unary
  BY <1>1 DEF Unary
<1>7. Least(a, p - 1, below.prec + 1)
  <2>1. \A k \in Outer(a, p - 1) : IsOperator(operand[k]) >= top.prec /\ IsOperator(operand[k]) \in Nat
    BY <1>1, <1>5, PrecedenceRange DEF Least
  <2>2. top.prec >= below.prec + 1 /\ top.prec \in Nat
    BY <1>1
  <2> QED BY <2>1, <2>2 DEF Least
<1> QED BY <1>1, <1>5, <1>6, <1>7 DEF LastTerm

\* CondCalc: the top entry and its two terms become one term.
LEMMA CalcUnderstood ==
    ASSUME IsText, NEW ops, StackOfOps(ops), NEW T, IsStack(T), NEW p, NEW prec, NEW open, NEW ok,
           Understood(ops, T, "calc", p, prec, open, ok), NEW o, NEW top, top = TopOf(ops),
           top.chr \in Binary \cup {"~"}, top.prec >= prec, NEW w, w = T[Len(T) - 1], NEW v, v = T[Len(T)],
           o => ok /\ ~Crossed(top.chr, w.hunk, v.hunk)
    PROVE  Understood(Pop(ops), Append(Pop(Pop(T)), Combined(top.chr, w, v)), "calc", p, prec, open, o)
<1>1. PICK b, d : Stands(ops, T, ok, b, d) /\ Reads(TopOf(ops), b, d, T, "calc", p, prec, open, ok)
  BY DEF Understood
<1>2. p \in 1..(Last + 1) /\ open = Depth(p - 1)
  BY DEF Understood
<1>3. Len(T) = d + 1 /\ InCalc(top, b, p, T[d + 1], prec, ok) /\ CalledAt(p, prec, open)
  BY <1>1 DEF Reads
<1>4. top # Bottom /\ top.chr # "("
  BY BottomEntries DEF Binary
<1>5. PICK a, f : /\ top \in Entries /\ b - 1 \in 1..Last /\ b \in Nat /\ d \in Nat
                  /\ StackOfOps(Pop(ops)) /\ Stands(Pop(ops), T, ok, a, f)
                  /\ Waits(TopOf(Pop(ops)), top, a, b - 1, T[d], ok)
                  /\ d = f + (IF top.chr = "(" THEN 0 ELSE 1)
  BY <1>1, <1>4, StandsTop
<1> DEFINE below == TopOf(Pop(ops))
           q == b - 1
           U == Append(Pop(Pop(T)), Combined(top.chr, w, v))
<1>6. /\ a \in Nat /\ a >= 1 /\ f \in Nat /\ ~EndsTerm[a - 1] /\ below \in Entries \cup {Bottom}
  BY <1>5, StandsTop
<1>7. d = f + 1 /\ d >= 1 /\ q \in Nat /\ q + 1 = b /\ (d + 1) - 1 = d
  BY <1>4, <1>5, <1>6
<1>8. Len(U) = d /\ U[d] = Combined(top.chr, w, v) /\ \A k \in 1..(d - 1) : U[k] = T[k]
  <2>1. \A x : LET R == Append(Pop(Pop(T)), x) IN Len(R) = d /\ R[d] = x /\ \A k \in 1..(d - 1) : R[k] = T[k]
    BY <1>3, <1>5, <1>7, TermsCombine
  <2> QED BY <2>1
<1>9. w = T[d] /\ v = T[d + 1]
  BY <1>3, <1>7
<1> HIDE DEF U, below, q
<1>10. Stands(Pop(ops), U, o, a, f)
  <2>1. d - 1 = f
    BY <1>6, <1>7
  <2> QED BY <1>5, <1>8, <2>1, StandsKeeps
<1>11. LastTerm(top, q + 1, p, v, ok) /\ Least(q + 1, p - 1, top.prec + 1) /\ Least(q + 1, p - 1, prec)
  BY <1>3, <1>7, <1>9 DEF InCalc
<1>12. Waits(below, top, a, q, w, ok) /\ q \in 1..Last
  BY <1>5, <1>9 DEF below, q
<1>13. top.prec \in 1..9 /\ below.prec \in Int /\ prec \in 0..6
  <2>1. prec \in 0..6
    <3>1. prec = 0 \/ prec = 2 \/ prec \in 3..6
      BY <1>3 DEF CalledAt
    <3> QED BY <3>1
  <2>2. \A e \in Entries \cup {Bottom} : e.prec \in Int
    BY EntryPrecedence
  <2>3. \A e \in Entries : e.prec \in 1..9
    BY EntryPrecedence
  <2> QED BY <1>5, <1>6, <2>1, <2>2, <2>3
<1>14. InCalc(below, a, p, U[d], prec, o)
  <2>1. CASE WaitsSign(below, top, a, q, w)
    <3>1. q = a /\ top.chr = operand[a] /\ a \in 1..Last
      BY <1>12, <2>1 DEF Waits, WaitsSign
    <3>2. LastTerm(below, a, p, Combined(top.chr, w, v), o) /\ Outer(a, p - 1) = {}
      BY <1>2, <1>6, <1>11, <2>1, <3>1, SignCalculated
    <3> QED BY <1>8, <3>2 DEF InCalc, Least
  <2>2. CASE WaitsBinary(below, top, a, q, w, ok)
    <3>1. top.chr = operand[q]
      BY <1>12 DEF Waits
    <3>2. /\ LastTerm(below, a, p, Combined(top.chr, w, v), o)
          /\ Least(a, p - 1, top.prec) /\ Least(a, p - 1, below.prec + 1)
      BY <1>2, <1>11, <1>12, <1>13, <2>2, <3>1, BinaryCalculated
    <3>3. Least(a, p - 1, prec)
      <4>1. \A k \in Outer(a, p - 1) : IsOperator(operand[k]) >= top.prec /\ IsOperator(operand[k]) \in Nat
        BY <3>2, PrecedenceRange DEF Least
      <4> QED BY <1>13, <4>1 DEF Least
    <3> QED BY <1>8, <3>2, <3>3 DEF InCalc
  <2>3. ~WaitsParen(below, top, a, q)
    BY <1>4 DEF WaitsParen
  <2> QED BY <1>12, <2>1, <2>2, <2>3 DEF Waits
<1>15. Reads(below, a, f, U, "calc", p, prec, open, o)
  BY <1>3, <1>7, <1>8, <1>14 DEF Reads
<1>16. Understood(Pop(ops), U, "calc", p, prec, open, o)
  BY <1>2, <1>10, <1>15 DEF Understood, below
<1> QED BY <1>16 DEF U

\* ClosesParenthesis: the expression in parentheses is a term.
LEMMA CloseUnderstood ==
    ASSUME IsText, NEW ops, StackOfOps(ops), NEW T, NEW p, NEW open, NEW ok,
           Understood(ops, T, "calc", p, 2, open, ok), TopOf(ops).chr = "("
    PROVE  Understood(Pop(ops), T, "close", p + 1, 2, open - 1, ok)
<1> DEFINE top == TopOf(ops)
           below == TopOf(Pop(ops))
<1>1. PICK b, d : Stands(ops, T, ok, b, d) /\ Reads(TopOf(ops), b, d, T, "calc", p, 2, open, ok)
  BY DEF Understood
<1>2. p \in 1..(Last + 1) /\ open = Depth(p - 1)
  BY DEF Understood
<1>3. Len(T) = d + 1 /\ InCalc(TopOf(ops), b, p, T[d + 1], 2, ok) /\ At(p) = ")"
  BY <1>1 DEF Reads, CalledAt
<1>4. p \in Nat /\ p \in 1..Last /\ operand[p] = ")" /\ p + 1 \in 1..(Last + 1)
  BY <1>2, <1>3, TokenAt, TokenNames
<1>5. TopOf(ops) # Bottom
  <2>1. Bottom.chr # "("
    BY BottomEntries
  <2> QED BY <2>1
<1>6. PICK a, f : /\ b - 1 \in 1..Last /\ b \in Nat /\ d \in Nat
                  /\ StackOfOps(Pop(ops)) /\ Stands(Pop(ops), T, ok, a, f)
                  /\ Waits(TopOf(Pop(ops)), TopOf(ops), a, b - 1, T[d], ok)
                  /\ d = f
  <2>1. \A f, d1 : f \in Nat /\ d1 = f + 0 => d1 = f
    OBVIOUS
  <2>2. PICK a, f : /\ b - 1 \in 1..Last /\ b \in Nat /\ d \in Nat
                    /\ StackOfOps(Pop(ops)) /\ Stands(Pop(ops), T, ok, a, f)
                    /\ Waits(TopOf(Pop(ops)), TopOf(ops), a, b - 1, T[d], ok)
                    /\ d = f + (IF TopOf(ops).chr = "(" THEN 0 ELSE 1)
    BY <1>1, <1>5, StandsTop
  <2>3. f \in Nat
    BY <2>2, StandsTop
  <2>4. d = f
    BY <2>2, <2>3
  <2> QED BY <2>2, <2>4
<1> DEFINE q == b - 1
<1>7. a \in Nat /\ a >= 1 /\ ~EndsTerm[a - 1]
  BY <1>6, StandsTop
<1>8. q \in 1..Last /\ q \in Nat /\ q + 1 = b
  BY <1>6
<1>9. Good(b, p - 1, T[d + 1], ok)
  BY <1>3 DEF InCalc, LastTerm
<1>10. WaitsParen(below, top, a, q) /\ operand[q] = "("
  <2>1. ~WaitsSign(below, top, a, q, T[d])
    BY DEF WaitsSign
  <2>2. ~WaitsBinary(below, top, a, q, T[d], ok)
    BY OperatorsAre DEF WaitsBinary
  <2> QED BY <1>6, <2>1, <2>2 DEF Waits
<1> HIDE DEF q, top, below
<1>11. AtOperand(below, a, q)
  BY <1>10 DEF WaitsParen
<1>12. ~EndsTerm[q - 1]
  <2>1. q \in 1..(Last + 1)
    BY <1>8, EndsTermIs
  <2> QED BY <1>6, <1>11, <2>1, TermStarts DEF below
<1>13. Good(q, p, T[d + 1], ok) /\ Outer(q, p) = {}
  BY <1>4, <1>8, <1>9, <1>10, <1>12, GoodEnclosed
<1>14. LastTerm(below, a, p + 1, T[d + 1], ok) /\ Outer(a, p) = {}
  <2>0. (p + 1) - 1 = p
    BY <1>4
  <2>1. CASE q = a
    <3>1. operand[a] \notin Signs
      BY <1>10, <2>1 DEF Signs
    <3> QED BY <1>13, <2>0, <2>1, <3>1 DEF LastTerm
  <2>2. CASE q # a
    <3>1. q = a + 1 /\ operand[a] = "+" /\ below.prec # Unary
      BY <1>11, <2>2 DEF AtOperand
    <3>2. a \in 1..Last
      <4>1. Last \in Nat /\ q <= Last
        BY <1>8, EndsTermIs
      <4> QED BY <1>7, <3>1, <4>1
    <3>3. operand[a] \in Signs /\ operand[a + 1] \notin Signs
      BY <1>10, <3>1 DEF Signs
    <3>4. Good(a + 1, p, T[d + 1], ok) /\ Outer(a + 1, p) = {}
      BY <1>13, <3>1
    <3>5. Good(a, p, T[d + 1], ok) /\ Outer(a, p) = {}
      BY <1>4, <1>7, <3>1, <3>2, <3>3, <3>4, GoodSigned
    <3> QED BY <2>0, <3>1, <3>5 DEF LastTerm
  <2> QED BY <2>1, <2>2
<1>15. Depth(p) = open - 1 /\ (p + 1) - 1 = p
  BY <1>2, <1>4, TokenDepth
<1>16. Reads(below, a, f, T, "close", p + 1, 2, open - 1, ok)
  BY <1>3, <1>6, <1>14, <1>15 DEF Reads, AtClose
<1> QED BY <1>4, <1>6, <1>15, <1>16 DEF Understood, below

\* StacksOperator: an operator waits for its right side.
LEMMA OperatorUnderstood ==
    ASSUME IsText, NEW ops, StackOfOps(ops), NEW T, NEW p, NEW prec, NEW open, NEW ok,
           Understood(ops, T, "calc", p, prec, open, ok), prec > 2, TopOf(ops).prec < prec,
           NEW e, e = [chr |-> At(p), prec |-> prec]
    PROVE  Understood(Append(ops, e), T, "start", p + 1, prec, open, ok)
<1>1. PICK b, d : Stands(ops, T, ok, b, d) /\ Reads(TopOf(ops), b, d, T, "calc", p, prec, open, ok)
  BY DEF Understood
<1>2. p \in 1..(Last + 1) /\ open = Depth(p - 1)
  BY DEF Understood
<1>3. /\ Len(T) = d + 1 /\ InCalc(TopOf(ops), b, p, T[d + 1], prec, ok)
      /\ prec \in 3..6 /\ At(p) \in Binary /\ prec = IsOperator(At(p))
  <2>1. Len(T) = d + 1 /\ InCalc(TopOf(ops), b, p, T[d + 1], prec, ok) /\ CalledAt(p, prec, open)
    BY <1>1 DEF Reads
  <2>2. prec # 0 /\ prec # 2
    OBVIOUS
  <2> QED BY <2>1, <2>2 DEF CalledAt
<1>4. At(p) # NoToken /\ At(p) \notin {"(", ")"}
  <2>1. "(" \notin Binary /\ ")" \notin Binary
    BY DEF Binary
  <2> QED BY <1>3, <2>1, TokenNames
<1>5. p \in 1..Last /\ operand[p] = At(p) /\ p + 1 \in 1..(Last + 1)
  BY <1>2, <1>4, TokenAt
<1>6. p \in Nat /\ p <= Last
  BY <1>5, EndsTermIs
<1>7. Good(b, p - 1, T[d + 1], ok) /\ Least(b, p - 1, prec)
  BY <1>3 DEF InCalc, LastTerm
<1>8. b \in Nat /\ d \in Nat /\ p > b
  <2>1. b \in Nat /\ d \in Nat
    BY <1>1, StandsTop
  <2>2. b <= p - 1
    BY <1>7, GoodSpan
  <2> QED BY <1>6, <2>1, <2>2
<1>9. e.chr = At(p) /\ e.prec = prec
  OBVIOUS
<1>10. e \in Entries /\ e.chr # "("
  <2>1. e \in [chr : Binary \cup {"~"}, prec : {3, 4, 5, 6, 9}]
    BY <1>3
  <2> QED BY <1>4, <1>9, <2>1 DEF Entries
<1>11. Waits(TopOf(ops), e, b, p, T[d + 1], ok)
  <2>1. WaitsBinary(TopOf(ops), e, b, p, T[d + 1], ok)
    <3>1. e.prec > TopOf(ops).prec
      <4>1. TopOf(ops).prec \in Int
        <5>1. TopOf(ops) \in Entries \cup {Bottom}
          BY <1>1, StandsTop
        <5> QED BY <5>1, EntryPrecedence
      <4> QED BY <1>3, <1>9, <4>1
    <3> QED BY <1>3, <1>7, <1>8, <1>9, <3>1 DEF WaitsBinary
  <2>2. p >= b
    BY <1>6, <1>8
  <2> QED BY <1>5, <1>6, <1>9, <2>1, <2>2 DEF Waits
<1>12. Stands(Append(ops, e), T, ok, p + 1, d + 1) /\ TopOf(Append(ops, e)) = e
  BY <1>1, <1>6, <1>10, <1>11, StandsPush
<1>13. AtStart(e, p + 1, p + 1)
  <2>1. p + 1 # (p + 1) + 1
    BY <1>6
  <2>2. e.prec # Unary
    BY <1>3, <1>9 DEF Unary
  <2> QED BY <2>1, <2>2 DEF AtStart, AfterTheSign, AtOperand
<1>14. Depth(p) = open /\ (p + 1) - 1 = p
  <2>1. operand[p] \notin {"(", ")"}
    BY <1>4, <1>5
  <2>2. Depth(p) = Depth(p - 1)
    BY <1>5, <2>1, TokenDepth
  <2> QED BY <1>2, <1>6, <2>2
<1>15. Reads(e, p + 1, d + 1, T, "start", p + 1, prec, open, ok)
  BY <1>3, <1>13 DEF Reads
<1> QED BY <1>5, <1>12, <1>14, <1>15 DEF Understood

-----------------------------------------------------------------------------
(***************************************************************************)
(* What the parser refuses has no form; what it accepts is a good span,    *)
(* the whole operand.                                                      *)
(***************************************************************************)
\* The tokens of an operand that says something are well placed.
LEMMA MeaningPlaced ==
    ASSUME IsText, operand # <<>>, Meaning.form
    PROVE  /\ Last \in Nat /\ Last >= 1 /\ EndsTerm[Last] /\ Depth(Last) = 0
           /\ Opener(operand[1])
           /\ \A k \in 1..(Last - 1) : Follows(k)
           /\ \A k \in 1..Last : Depth(k) >= 0
<1>1. Last \in Nat /\ Last >= 1 /\ ~EndsTerm[0]
  <2>1. Last \in Nat /\ ~EndsTerm[0]
    BY EndsTermIs
  <2>2. Last # 0
    BY DEF Last, IsText
  <2> QED BY <2>1, <2>2
<1>2. 1 \in 1..Last /\ Last \in 0..Last /\ 1 - 1 = 0
  BY <1>1
<1>3. Says[<<1, Last>>].form /\ ~EndsTerm[1 - 1]
  BY <1>1, <1>2 DEF Meaning, Last
<1>4. WellPlaced(1, Last)
  BY <1>2, <1>3, FormPlaced
<1>5. Depth(1 - 1) = 0
  BY <1>2, DepthIs
<1> QED BY <1>1, <1>4, <1>5 DEF WellPlaced

\* What may come next, in an operand that says something.
LEMMA MeaningFollows ==
    ASSUME IsText, operand # <<>>, Meaning.form, NEW p \in 1..Last
    PROVE  /\ EndsTerm[p - 1] => IsOperator(operand[p]) >= 2
           /\ ~EndsTerm[p - 1] => Opener(operand[p])
           /\ p - 1 \in 1..Last /\ operand[p - 1] \in Signs /\ ~EndsTerm[(p - 1) - 1] => operand[p] \notin Signs
<1>1. Last \in Nat /\ ~EndsTerm[0] /\ p \in Nat
  BY EndsTermIs
<1>2. CASE p = 1
  <2>1. p - 1 = 0
    BY <1>2
  <2> QED BY <1>1, <1>2, <2>1, MeaningPlaced
<1>3. CASE p # 1
  <2>1. p - 1 \in 1..(Last - 1) /\ (p - 1) + 1 = p
    BY <1>1, <1>3
  <2>2. Follows(p - 1)
    BY <2>1, MeaningPlaced
  <2> QED BY <2>1, <2>2 DEF Follows
<1> QED BY <1>2, <1>3

\* Where no term is, the operand says nothing.
LEMMA NoTermRefused ==
    ASSUME IsText, NoEmptyToken, operand # <<>>,
           NEW ops, StackOfOps(ops), NEW T, NEW at, NEW p, NEW prec, NEW open, NEW ok,
           Understood(ops, T, at, p, prec, open, ok), TermExpected(at, p), ~IsTerm(At(p))
    PROVE  ~Meaning.form
<1> SUFFICES ASSUME Meaning.form PROVE FALSE
  OBVIOUS
<1>1. PICK b, d : Stands(ops, T, ok, b, d) /\ Reads(TopOf(ops), b, d, T, at, p, prec, open, ok)
  BY DEF Understood
<1>2. p \in 1..(Last + 1)
  BY DEF Understood
<1>3. /\ AtOperand(TopOf(ops), b, p)
      /\ \/ at = "start" /\ At(p) \notin {"(", "+", "-", "~"}
         \/ AfterTheSign(TopOf(ops), b, p) /\ At(p) # "("
  BY <1>1 DEF Reads, AtStart, InTerm, AfterTheSign, TermExpected
<1>4. ~EndsTerm[p - 1]
  BY <1>1, <1>2, <1>3, TermStarts
<1>5. p # Last + 1
  <2>1. EndsTerm[Last] /\ (Last + 1) - 1 = Last
    BY MeaningPlaced
  <2> QED BY <1>4, <2>1
<1>6. p \in 1..Last /\ At(p) = operand[p] /\ At(p) # NoToken
  BY <1>2, <1>5, TokenAt
<1>7. Opener(At(p)) /\ IsOperator(At(p)) # 0 /\ At(p) # "*"
  BY <1>4, <1>6, MeaningFollows DEF IsTerm
<1>8. At(p) \in {"(", "+", "-"}
  BY <1>7 DEF Opener
<1>9. AfterTheSign(TopOf(ops), b, p) /\ At(p) \in Signs
  BY <1>3, <1>8 DEF Signs
<1>10. p - 1 \in 1..Last /\ operand[p - 1] \in Signs /\ ~EndsTerm[(p - 1) - 1]
  BY <1>1, <1>2, <1>9, SignBefore
<1> QED BY <1>6, <1>9, <1>10, MeaningFollows

IsUnbalanced(c, open) ==
    \/ c = ")" /\ open = 0
    \/ c = NoToken /\ open # 0
    \/ c # NoToken /\ IsOperator(c) < 2

\* Where parentheses do not match or an operator is missing, it says nothing.
LEMMA UnbalancedRefused ==
    ASSUME IsText, NoEmptyToken, operand # <<>>,
           NEW ops, StackOfOps(ops), NEW T, NEW p, NEW prec, NEW open, NEW ok,
           Understood(ops, T, "close", p, prec, open, ok),
           IsUnbalanced(At(p), open)
    PROVE  ~Meaning.form
<1> SUFFICES ASSUME Meaning.form PROVE FALSE
  OBVIOUS
<1>1. PICK b, d : Stands(ops, T, ok, b, d) /\ Reads(TopOf(ops), b, d, T, "close", p, prec, open, ok)
  BY DEF Understood
<1>2. p \in 1..(Last + 1) /\ open = Depth(p - 1)
  BY DEF Understood
<1>3. /\ Last \in Nat /\ p \in Nat
      /\ At(p) = NoToken => p = Last + 1
      /\ At(p) # NoToken => p \in 1..Last /\ At(p) = operand[p]
  BY <1>2, TokenAt
<1>4. CASE At(p) = "~" /\ AfterTheSign(TopOf(ops), b, p)
  <2>1. p - 1 \in 1..Last /\ operand[p - 1] \in Signs /\ ~EndsTerm[(p - 1) - 1]
    BY <1>1, <1>2, <1>4, SignBefore
  <2>2. p \in 1..Last /\ operand[p] \in Signs
    BY <1>3, <1>4, TokenNames DEF Signs
  <2> QED BY <2>1, <2>2, MeaningFollows
<1>5. CASE LastTerm(TopOf(ops), b, p, T[d + 1], ok)
  <2>1. EndsTerm[p - 1]
    BY <1>5 DEF LastTerm, Good
  <2>2. CASE At(p) = NoToken /\ open # 0
    <3>1. p - 1 = Last
      BY <1>3, <2>2
    <3> QED BY <1>2, <2>2, <3>1, MeaningPlaced
  <2>3. CASE At(p) # NoToken /\ IsOperator(At(p)) < 2
    <3>1. IsOperator(operand[p]) >= 2 /\ At(p) = operand[p]
      BY <1>3, <2>1, <2>3, MeaningFollows
    <3>2. IsOperator(operand[p]) \in Nat
      BY PrecedenceRange
    <3> QED BY <2>3, <3>1, <3>2
  <2>4. CASE At(p) = ")" /\ open = 0
    <3>1. p \in 1..Last /\ operand[p] = ")"
      BY <1>3, <2>4, TokenNames
    <3>2. Depth(p) = Depth(p - 1) - 1 /\ Depth(p) \in Int
      BY <3>1, TokenDepth
    <3>3. Depth(p) >= 0
      BY <3>1, MeaningPlaced
    <3> QED BY <1>2, <2>4, <3>2, <3>3
  <2> QED BY <2>2, <2>3, <2>4 DEF IsUnbalanced
<1> QED BY <1>1, <1>4, <1>5 DEF Reads, AtClose

\* The whole operand is calculated.
LEMMA Accepted ==
    ASSUME IsText, NoEmptyToken, operand # <<>>,
           NEW ops, StackOfOps(ops), NEW T, NEW p, NEW open, NEW ok,
           Understood(ops, T, "calc", p, 0, open, ok), TopOf(ops).prec < 0
    PROVE  Len(T) = 1 /\ Meaning.form /\ (ok => Matches(Meaning, T[1]))
<1>1. PICK b, d : Stands(ops, T, ok, b, d) /\ Reads(TopOf(ops), b, d, T, "calc", p, 0, open, ok)
  BY DEF Understood
<1>2. p \in 1..(Last + 1)
  BY DEF Understood
<1>3. Len(T) = d + 1 /\ Good(b, p - 1, T[d + 1], ok) /\ At(p) = NoToken
  <2>1. Len(T) = d + 1 /\ InCalc(TopOf(ops), b, p, T[d + 1], 0, ok) /\ CalledAt(p, 0, open)
    BY <1>1 DEF Reads
  <2>2. At(p) = NoToken
    BY <2>1 DEF CalledAt
  <2> QED BY <2>1, <2>2 DEF InCalc, LastTerm
<1>4. TopOf(ops) \notin Entries
  <2>1. \A e \in Entries : e.prec \in 1..9
    BY EntryPrecedence
  <2>2. \A e \in Entries : ~(e.prec < 0)
    BY <2>1
  <2> QED BY <2>2
<1>5. b = 1 /\ d = 0
  BY <1>1, <1>4, StandsTop
<1>6. p - 1 = Last
  <2>1. p = Last + 1 /\ Last \in Nat
    BY <1>2, <1>3, TokenAt
  <2> QED BY <2>1
<1>7. Good(1, Last, T[1], ok) /\ Len(T) = 1
  <2>1. d + 1 = 1
    BY <1>5
  <2> QED BY <1>3, <1>5, <1>6, <2>1
<1> QED BY <1>7 DEF Good, Meaning, Last

\* A single term.
LEMMA SingleMeant ==
    ASSUME IsText, operand # <<>>, Single(operand), Len(operand) <= 1
    PROVE  Meaning.form /\ Matches(Meaning, CalcValue(operand[1]))
<1>1. Last \in Nat /\ Last = 1 /\ ~EndsTerm[0]
  <2>1. Last \in Nat /\ ~EndsTerm[0]
    BY EndsTermIs
  <2>2. Last # 0 /\ Last <= 1
    BY DEF Last, IsText
  <2> QED BY <2>1, <2>2
<1>2. 1 \in 1..Last /\ ~EndsTerm[1 - 1]
  BY <1>1
<1>3. IsOperator(operand[1]) = 0 /\ operand[1] # "~"
  <2>1. 1 \in DOMAIN operand
    BY <1>1 DEF Last, IsText
  <2> QED BY <2>1 DEF Single
<1>4. Good(1, 1, CalcValue(operand[1]), TRUE)
  BY <1>2, <1>3, GoodAtom
<1> QED BY <1>1, <1>4 DEF Good, Meaning, Last

(***************************************************************************)
(* What an operand says depends on the operand and the pass only.          *)
(***************************************************************************)
EndsIn(t) == CHOOSE f : f = [k \in 0..Len(t) |->
    /\ k > 0
    /\ \/ t[k] = ")" \/ (IsOperator(t[k]) = 0 /\ t[k] # "~")
       \/ t[k] = "*" /\ ~f[k - 1]]

\* EndsTerm, Outer and SplitAt as operators of the operand.
LEMMA EndsFrom == EndsTerm = EndsIn(operand)
BY DEF EndsTerm, EndsIn

OuterIn(t, ends, i, j) ==
    {k \in i..j : IsOperator(t[k]) > 2 /\ ends[k - 1]
                    /\ Cardinality({l \in i..k : t[l] = "("}) = Cardinality({l \in i..k : t[l] = ")"})}
OuterLaw == \A a, b : Outer(a, b) = OuterIn(operand, EndsTerm, a, b)

\* The same for Outer.
LEMMA OuterFrom == OuterLaw
BY DEF OuterLaw, Outer, OuterIn, Parentheses

SplitIn(t, outer) ==
    LET least == {k \in outer : \A l \in outer : IsOperator(t[k]) <= IsOperator(t[l])}
    IN  CHOOSE k \in least : \A l \in least : l <= k
SplitLaw == \A a, b : SplitAt(a, b) = SplitIn(operand, Outer(a, b))

\* The same for SplitAt.
LEMMA SplitFrom == SplitLaw
BY DEF SplitLaw, SplitAt, SplitIn

SameOperand == operand' = operand /\ Pass2' = Pass2

\* While the operand is the same, so are the ends of its terms.
LEMMA SameEnds ==
    ASSUME SameOperand
    PROVE  EndsTerm' = EndsTerm /\ Last' = Last /\ (IsText' <=> IsText)
<1>1. operand' = operand
  BY DEF SameOperand
<1>2. (EndsTerm = EndsIn(operand))'
  BY EndsFrom, PTL
<1>3. EndsTerm' = EndsTerm
  BY <1>1, <1>2, EndsFrom
<1> QED BY <1>1, <1>3 DEF Last, IsText

\* So are its operators outside parentheses.
LEMMA SameOuter ==
    ASSUME SameOperand, NEW i, NEW j
    PROVE  /\ Outer(i, j)' = Outer(i, j) /\ SplitAt(i, j)' = SplitAt(i, j)
           /\ \A c : Parentheses(c, i, j)' = Parentheses(c, i, j)
<1>1. operand' = operand /\ EndsTerm' = EndsTerm
  BY SameEnds DEF SameOperand
<1>2. OuterLaw'
  BY OuterFrom, PTL
<1>3. Outer(i, j)' = Outer(i, j)
  BY <1>1, <1>2, OuterFrom DEF OuterLaw
<1>4. SplitLaw'
  BY SplitFrom, PTL
<1>5. SplitAt(i, j)' = SplitAt(i, j)
  BY <1>1, <1>3, <1>4, SplitFrom DEF SplitLaw
<1>6. ASSUME NEW c PROVE Parentheses(c, i, j)' = Parentheses(c, i, j)
  BY <1>1 DEF Parentheses
<1> QED BY <1>3, <1>5, <1>6

\* So are its terms and what operators make of them.
LEMMA SameTerms ==
    ASSUME SameOperand
    PROVE  /\ \A s : CalcValue(s)' = CalcValue(s)
           /\ Bases' = Bases /\ NoWeight' = NoWeight /\ Malformed' = Malformed
           /\ \A s : Atom(s)' = Atom(s)
           /\ \A op, a, b : Applied(op, a, b)' = Applied(op, a, b)
           /\ \A op, a : Signed(op, a)' = Signed(op, a)
<1>1. operand' = operand /\ Pass2' = Pass2
  BY DEF SameOperand
<1>2. ASSUME NEW s PROVE CalcValue(s)' = CalcValue(s)
  <2>1. (Known(s)' <=> Known(s)) /\ Pass' = Pass
    BY <1>1 DEF Known, Pass
  <2> QED BY <1>1, <2>1 DEF CalcValue, ValueOf
<1>3. Bases' = Bases
  BY <1>1, <1>2 DEF Bases
<1>4. NoWeight' = NoWeight
  BY <1>3 DEF NoWeight
<1>5. Malformed' = Malformed
  BY <1>4 DEF Malformed
<1>6. ASSUME NEW s PROVE Atom(s)' = Atom(s)
  BY <1>2, <1>3 DEF Atom
<1>7. ASSUME NEW op, NEW a, NEW b PROVE Applied(op, a, b)' = Applied(op, a, b)
  BY <1>3, <1>4 DEF Applied
<1>8. ASSUME NEW op, NEW a PROVE Signed(op, a)' = Signed(op, a)
  BY <1>5, <1>7 DEF Signed
<1> QED BY <1>2, <1>3, <1>4, <1>5, <1>6, <1>7, <1>8

\* Only one function says of each span what its parts make it say.
LEMMA SaysUnique ==
    ASSUME Last \in Nat, NEW F, NEW G, F = Further(F), G = Further(G)
    PROVE  F = G
<1> DEFINE Wrong(i, j) == F[<<i, j>>] # G[<<i, j>>]
           Bad == {d \in Nat : \E i \in 1..Last, j \in 0..Last : d = Last + j - i /\ Wrong(i, j)}
<1>0. \A i \in 1..Last, j \in 0..Last :
         F[<<i, j>>] = SaysOf(F, i, j) /\ G[<<i, j>>] = SaysOf(G, i, j)
  BY DEF Further, Spans
<1>1. Bad = {}
  <2> SUFFICES ASSUME Bad # {} PROVE FALSE
    OBVIOUS
  <2>1. Bad \subseteq Nat
    OBVIOUS
  <2> HIDE DEF Bad
  <2>2. PICK d \in Bad : \A e \in Bad : d <= e
    BY <2>1, LeastNumber
  <2> USE DEF Bad
  <2>3. PICK i \in 1..Last, j \in 0..Last : d = Last + j - i /\ Wrong(i, j)
    OBVIOUS
  <2>4. ASSUME NEW a \in 1..Last, NEW b \in 0..Last, b - a < j - i, Wrong(a, b)
        PROVE  FALSE
    <3>1. Last + b - a \in Nat /\ Last + b - a < d
      BY <2>3, <2>4
    <3>2. Last + b - a \in Bad
      BY <2>4, <3>1
    <3> HIDE DEF Bad, Wrong
    <3>3. d <= Last + b - a
      BY <2>2, <3>2
    <3>4. d \in Nat
      BY <2>1
    <3> QED BY <3>1, <3>3, <3>4
  <2> HIDE DEF Bad
  <2>5. SaysOf(F, i, j) = SaysOf(G, i, j)
    <3>1. \A a \in 1..Last, b \in 0..Last : b - a < j - i => F[<<a, b>>] = G[<<a, b>>]
      BY <2>4
    <3> QED BY <3>1, SaysOfAgrees
  <2> QED BY <1>0, <2>3, <2>5
<1>2. ASSUME NEW i \in 1..Last, NEW j \in 0..Last, Wrong(i, j) PROVE FALSE
  <2>1. Last + j - i \in Nat
    OBVIOUS
  <2>2. Last + j - i \in Bad
    BY <1>2, <2>1
  <2> QED BY <1>1, <2>2
<1>3. \A s \in Spans : SaysOf(F, s[1], s[2]) = SaysOf(G, s[1], s[2])
  BY <1>0, <1>2 DEF Spans
<1>4. Further(F) = Further(G)
  BY <1>3 DEF Further
<1> QED BY <1>4

SaysLaw == IsText => \E F : F = Says /\ F = Further(F)

\* Says is such a function.
LEMMA SaysFrom == SaysLaw
<1> SUFFICES ASSUME IsText PROVE Says = Further(Says)
  BY DEF SaysLaw
<1>1. Last \in Nat
  BY EndsTermIs
<1> DEFINE Is(F) == F = [s \in (1..Len(operand)) \X (0..Len(operand)) |-> SaysOf(F, s[1], s[2])]
<1>2. \E F : Is(F)
  BY <1>1, SaysDefined DEF Spans, Last
<1>3. Says = CHOOSE F : Is(F)
  BY DEF Says
<1>4. Is(Says)
  BY <1>2, <1>3
<1> QED BY <1>4 DEF Further, Spans, Last

\* A span of the same operand says the same, given what shorter spans say.
LEMMA SameSaysOf ==
    ASSUME SameOperand, NEW S, NEW i, NEW j
    PROVE  SaysOf(S, i, j)' = SaysOf(S, i, j)
<1>1. operand' = operand /\ EndsTerm' = EndsTerm
  BY SameEnds DEF SameOperand
<1>2. Outer(i, j)' = Outer(i, j) /\ SplitAt(i, j)' = SplitAt(i, j)
  BY SameOuter
<1>3. /\ Malformed' = Malformed
      /\ \A s : Atom(s)' = Atom(s)
      /\ \A op, a, b : Applied(op, a, b)' = Applied(op, a, b)
      /\ \A op, a : Signed(op, a)' = Signed(op, a)
  BY SameTerms
<1> QED BY <1>1, <1>2, <1>3 DEF SaysOf

\* The same operand means the same.
LEMMA SameSays ==
    ASSUME SameOperand, IsText
    PROVE  Says' = Says /\ Meaning' = Meaning
<1>1. operand' = operand /\ Last' = Last /\ IsText' /\ Last \in Nat
  BY SameEnds, EndsTermIs DEF SameOperand
<1>2. SaysLaw'
  BY SaysFrom, PTL
<1>3. PICK G : G = Says' /\ G = Further(G)'
  BY <1>1, <1>2 DEF SaysLaw
<1>4. PICK F : F = Says /\ F = Further(F)
  BY SaysFrom DEF SaysLaw
<1>5. Further(G)' = Further(G)
  BY <1>1, SameSaysOf DEF Further, Spans
<1>6. F = G
  BY <1>1, <1>3, <1>4, <1>5, SaysUnique
<1>7. Says' = Says
  BY <1>3, <1>4, <1>6
<1> QED BY <1>1, <1>7 DEF Meaning

(***************************************************************************)
(* As long as the operand is the same, so is where the parser is in it.    *)
(***************************************************************************)
LEMMA SameGood ==
    ASSUME SameOperand, IsText
    PROVE  /\ \A k : Depth(k)' = Depth(k)
           /\ \A s, v : Matches(s, v)' <=> Matches(s, v)
           /\ \A i, j, v, ok : Good(i, j, v, ok)' <=> Good(i, j, v, ok)
           /\ \A i, j, p : Least(i, j, p)' <=> Least(i, j, p)
           /\ \A p : At(p)' = At(p)
<1>1. operand' = operand /\ Last' = Last /\ EndsTerm' = EndsTerm /\ Says' = Says /\ Bases' = Bases
  BY SameEnds, SameSays, SameTerms DEF SameOperand
<1>2. \A k : Depth(k)' = Depth(k)
  BY SameOuter DEF Depth
<1>3. ASSUME NEW s, NEW v PROVE Matches(s, v)' <=> Matches(s, v)
  BY <1>1 DEF Matches
<1>4. ASSUME NEW i, NEW j, NEW v, NEW ok PROVE Good(i, j, v, ok)' <=> Good(i, j, v, ok)
  <2>1. PICK G : G = Says[<<i, j>>]
    OBVIOUS
  <2>2. Matches(G, v)' <=> Matches(G, v)
    BY <1>3
  <2>3. Good(i, j, v, ok) <=>
           /\ i \in 1..Last /\ j \in i..Last
           /\ ~EndsTerm[i - 1] /\ EndsTerm[j]
           /\ Depth(j) = Depth(i - 1)
           /\ \A k \in i..j : Depth(k) >= Depth(i - 1)
           /\ G.form
           /\ ok => Matches(G, v)
    BY <2>1 DEF Good
  <2>4. Good(i, j, v, ok)' <=>
           /\ i \in 1..Last' /\ j \in i..Last'
           /\ ~EndsTerm'[i - 1] /\ EndsTerm'[j]
           /\ Depth(j)' = Depth(i - 1)'
           /\ \A k \in i..j : Depth(k)' >= Depth(i - 1)'
           /\ Says'[<<i, j>>].form
           /\ ok => Matches(Says[<<i, j>>], v)'
    BY DEF Good
  <2>5. Matches(Says[<<i, j>>], v)' <=> Matches(G, v)
    BY <1>1, <2>1 DEF Matches
  <2> QED BY <1>1, <1>2, <2>1, <2>3, <2>4, <2>5
<1>5. ASSUME NEW i, NEW j, NEW p PROVE Least(i, j, p)' <=> Least(i, j, p)
  <2>1. Outer(i, j)' = Outer(i, j)
    BY SameOuter
  <2> QED BY <1>1, <2>1 DEF Least
<1>6. ASSUME NEW p PROVE At(p)' = At(p)
  BY <1>1, Zenon DEF At
<1> QED BY <1>2, <1>3, <1>4, <1>5, <1>6

\* What the entries wait for is the same.
LEMMA SameWaits ==
    ASSUME SameOperand, IsText, NEW below, NEW e, NEW b, NEW p, NEW v, NEW ok
    PROVE  /\ AtOperand(below, b, p)' <=> AtOperand(below, b, p)
           /\ Waits(below, e, b, p, v, ok)' <=> Waits(below, e, b, p, v, ok)
<1>1. operand' = operand /\ Last' = Last
  BY SameEnds DEF SameOperand
<1>2. AtOperand(below, b, p)' <=> AtOperand(below, b, p)
  BY <1>1 DEF AtOperand
<1>3. WaitsParen(below, e, b, p)' <=> WaitsParen(below, e, b, p)
  BY <1>2 DEF WaitsParen
<1>4. WaitsSign(below, e, b, p, v)' <=> WaitsSign(below, e, b, p, v)
  BY DEF WaitsSign
<1>5. WaitsBinary(below, e, b, p, v, ok)' <=> WaitsBinary(below, e, b, p, v, ok)
  <2>1. \A q : Least(b, p - 1, q)' <=> Least(b, p - 1, q)
    BY SameGood
  <2>2. Good(b, p - 1, v, ok)' <=> Good(b, p - 1, v, ok)
    BY SameGood
  <2> QED BY <2>1, <2>2 DEF WaitsBinary
<1> QED BY <1>1, <1>2, <1>3, <1>4, <1>5 DEF Waits

\* Where the stack stands is the same.
LEMMA SameStands ==
    ASSUME SameOperand, IsText, NEW ops, NEW T, NEW ok, NEW b, NEW d
    PROVE  Stands(ops, T, ok, b, d)' <=> Stands(ops, T, ok, b, d)
<1>1. ASSUME NEW P, NEW c PROVE Layout(ops, P, c, T, ok)' <=> Layout(ops, P, c, T, ok)
  <2>1. \A below, e, a, p, v : Waits(below, e, a, p, v, ok)' <=> Waits(below, e, a, p, v, ok)
    BY SameWaits
  <2> QED BY <2>1 DEF Layout, Places
<1> QED BY <1>1 DEF Stands

\* What has been read means the same.
LEMMA SameUnderstood ==
    ASSUME SameOperand, IsText, NEW ops, NEW T, NEW at, NEW p, NEW prec, NEW open, NEW ok
    PROVE  Understood(ops, T, at, p, prec, open, ok)' <=> Understood(ops, T, at, p, prec, open, ok)
<1>1. ASSUME NEW b, NEW d
      PROVE  Reads(TopOf(ops), b, d, T, at, p, prec, open, ok)' <=> Reads(TopOf(ops), b, d, T, at, p, prec, open, ok)
  <2>1. AtOperand(TopOf(ops), b, p)' <=> AtOperand(TopOf(ops), b, p)
    BY SameWaits
  <2>2. AfterTheSign(TopOf(ops), b, p)' <=> AfterTheSign(TopOf(ops), b, p)
    BY <2>1 DEF AfterTheSign
  <2>3. At(p)' = At(p) /\ operand' = operand
    BY SameGood DEF SameOperand
  <2>4. AtStart(TopOf(ops), b, p)' <=> AtStart(TopOf(ops), b, p)
    BY <2>1, <2>2, <2>3 DEF AtStart
  <2>5. InTerm(TopOf(ops), b, p)' <=> InTerm(TopOf(ops), b, p)
    BY <2>2, <2>3 DEF InTerm
  <2>6. ASSUME NEW v
        PROVE  /\ AtClose(TopOf(ops), b, p, v, ok)' <=> AtClose(TopOf(ops), b, p, v, ok)
               /\ InCalc(TopOf(ops), b, p, v, prec, ok)' <=> InCalc(TopOf(ops), b, p, v, prec, ok)
    <3>1. LastTerm(TopOf(ops), b, p, v, ok)' <=> LastTerm(TopOf(ops), b, p, v, ok)
      BY <2>3, SameGood DEF LastTerm
    <3>2. Outer(b, p - 1)' = Outer(b, p - 1) /\ \A q : Least(b, p - 1, q)' <=> Least(b, p - 1, q)
      BY SameOuter, SameGood
    <3> QED BY <2>2, <2>3, <3>1, <3>2 DEF AtClose, InCalc
  <2>7. CalledAt(p, prec, open)' <=> CalledAt(p, prec, open)
    BY <2>3 DEF CalledAt
  <2> QED BY <2>4, <2>5, <2>6, <2>7 DEF Reads
<1>2. \A b, d : Stands(ops, T, ok, b, d)' <=> Stands(ops, T, ok, b, d)
  BY SameStands
<1>3. Depth(p - 1)' = Depth(p - 1) /\ Last' = Last
  BY SameGood, SameEnds
<1> QED BY <1>1, <1>2, <1>3 DEF Understood

-----------------------------------------------------------------------------
(***************************************************************************)
(* The inductive invariant: while pass 2 reads an operand, the stacks say  *)
(* what has been read of it; the values match as long as no error is       *)
(* reported.  Pass 1 reports none.                                         *)
(***************************************************************************)
OperandRead == IsText /\ Scanned(operand) /\ (Parsing => operand # <<>>)

MeaningInv ==
    Pass2 /\ Parsing =>
        /\ "OperErr" \notin errors
        /\ \E ops, T, at, p, prec, open, ok :
              /\ ops = Ops /\ T = Term /\ at = parser /\ p = pos /\ prec = newprec /\ open = parncnt
              /\ ok \in BOOLEAN /\ (ok <=> errors = {})
              /\ Understood(ops, T, at, p, prec, open, ok)

\* Where the parser is, and where it is next.
LEMMA ReadSoFar ==
    ASSUME MeaningInv, Pass2, Parsing
    PROVE  /\ "OperErr" \notin errors
           /\ \E ok \in BOOLEAN : /\ ok <=> errors = {}
                                  /\ Understood(Ops, Term, parser, pos, newprec, parncnt, ok)
BY DEF MeaningInv

\* What the next state has to say for MeaningInv.
LEMMA ReadOn ==
    ASSUME SameOperand, IsText, "OperErr" \notin errors',
           NEW ops, NEW T, NEW at, NEW p, NEW prec, NEW open, NEW ok \in BOOLEAN,
           ops = Ops', T = Term', at = parser', p = pos', prec = newprec', open = parncnt',
           ok <=> errors' = {}, Understood(ops, T, at, p, prec, open, ok)
    PROVE  MeaningInv'
<1>1. Understood(ops, T, at, p, prec, open, ok)'
  BY SameUnderstood
<1> QED BY <1>1 DEF MeaningInv

\* The stacks are stacks.
LEMMA ParserStacks ==
    ASSUME ParserInv, Parsing
    PROVE  StackOfOps(Ops) /\ IsStack(Term) /\ Top = TopOf(Ops)
BY DEF ParserInv, Agree, Top, TopOf

\* What is known of the operand.
LEMMA TokensRead ==
    ASSUME OperandRead
    PROVE  IsText /\ NoEmptyToken /\ (Parsing => operand # <<>>) /\ (Single(operand) => Len(operand) <= 1)
<1>1. IsText /\ Scanned(operand) /\ (Parsing => operand # <<>>)
  BY DEF OperandRead
<1>2. DOMAIN operand = 1..Last
  BY <1>1 DEF IsText, Last
<1>3. \A k \in DOMAIN operand : operand[k] # NoToken
  BY <1>1, Zenon DEF Scanned, NoToken
<1>4. Single(operand) => Len(operand) <= 1
  BY <1>1, Zenon DEF Scanned
<1> QED BY <1>1, <1>2, <1>3, <1>4 DEF NoEmptyToken

-----------------------------------------------------------------------------
\* Each step of the parser goes on reading: a left parenthesis.
LEMMA LeftParenthesisMeaning ==
    ASSUME ParserInv, MeaningInv, OperandRead, UNCHANGED Pass2, LeftParenthesis
    PROVE  MeaningInv'
<1> SUFFICES ASSUME Pass2 PROVE MeaningInv'
  BY DEF MeaningInv
<1> DEFINE e == [chr |-> "(", prec |-> 1]
<1>1. /\ parser = "start" /\ At(pos) = "(" /\ Ops' = Append(Ops, e) /\ parncnt' = parncnt + 1 /\ pos' = pos + 1
      /\ operand' = operand /\ Term' = Term /\ newprec' = newprec /\ parser' = "start" /\ errors' = errors
  BY DEF LeftParenthesis, Push, Tok
<1>2. Parsing /\ SameOperand /\ IsText
  BY <1>1, TokensRead DEF Parsing, SameOperand
<1>3. PICK ok \in BOOLEAN : /\ "OperErr" \notin errors /\ (ok <=> errors = {})
                            /\ Understood(Ops, Term, parser, pos, newprec, parncnt, ok)
  BY <1>2, ReadSoFar
<1>4. Understood(Append(Ops, e), Term, "start", pos + 1, newprec, parncnt + 1, ok)
  BY <1>1, <1>2, <1>3, ParserStacks, ParenUnderstood
<1> HIDE DEF e
<1> QED BY <1>1, <1>2, <1>3, <1>4, ReadOn

\* A sign.
LEMMA UnaryOperatorMeaning ==
    ASSUME ParserInv, MeaningInv, OperandRead, UNCHANGED Pass2, UnaryOperator
    PROVE  MeaningInv'
<1> SUFFICES ASSUME Pass2 PROVE MeaningInv'
  BY DEF MeaningInv
<1> DEFINE e == [chr |-> At(pos), prec |-> Unary]
           w == ValueOf(IF At(pos) = "-" THEN 0 ELSE -1, ABSHUNK, 0)
<1>1. /\ parser = "start" /\ At(pos) \in Signs /\ pos' = pos + 1
      /\ operand' = operand /\ parncnt' = parncnt /\ newprec' = newprec /\ errors' = errors
      /\ parser' = (IF At(pos + 1) = "(" THEN "start" ELSE "term")
      /\ At(pos) = "+" => Term' = Term /\ Ops' = Ops
      /\ At(pos) # "+" => Term' = Append(Term, w) /\ Ops' = Append(Ops, e)
  BY DEF UnaryOperator, Push, Tok, Signs, AfterSign
<1>2. Parsing /\ SameOperand /\ IsText
  BY <1>1, TokensRead DEF Parsing, SameOperand
<1>3. PICK ok \in BOOLEAN : /\ "OperErr" \notin errors /\ (ok <=> errors = {})
                            /\ Understood(Ops, Term, parser, pos, newprec, parncnt, ok)
  BY <1>2, ReadSoFar
<1> DEFINE at == IF At(pos + 1) = "(" THEN "start" ELSE "term"
<1>4. /\ At(pos) = "+" => Understood(Ops, Term, at, pos + 1, newprec, parncnt, ok)
      /\ At(pos) # "+" => Understood(Append(Ops, e), Append(Term, w), at, pos + 1, newprec, parncnt, ok)
  <2>1. PICK at2 : at2 = at
    OBVIOUS
  <2> HIDE DEF at
  <2>2. at2 = (IF At(pos + 1) = "(" THEN "start" ELSE "term")
    BY <2>1 DEF at
  <2>3. Understood(Ops, Term, "start", pos, newprec, parncnt, ok) /\ StackOfOps(Ops) /\ IsStack(Term)
    BY <1>1, <1>2, <1>3, ParserStacks
  <2>4. /\ At(pos) = "+" => Understood(Ops, Term, at2, pos + 1, newprec, parncnt, ok)
        /\ \A x, y : /\ x = [chr |-> At(pos), prec |-> Unary] /\ At(pos) # "+"
                     /\ y = ValueOf(IF At(pos) = "-" THEN 0 ELSE -1, ABSHUNK, 0)
                     => Understood(Append(Ops, x), Append(Term, y), at2, pos + 1, newprec, parncnt, ok)
    BY <1>1, <1>2, <2>2, <2>3, SignUnderstood
  <2> QED BY <2>1, <2>4
<1> HIDE DEF e, w, at
<1>5. parser' = at
  BY <1>1 DEF at
<1>6. CASE At(pos) = "+"
  BY <1>1, <1>2, <1>3, <1>4, <1>5, <1>6, ReadOn
<1>7. CASE At(pos) # "+"
  BY <1>1, <1>2, <1>3, <1>4, <1>5, <1>7, ReadOn
<1> QED BY <1>6, <1>7

\* The errors of a term are not of the syntax.
LEMMA TermErrorsAre == \A s : "OperErr" \notin TermErrors(s)
<1>1. "OperErr" # "AddrErr" /\ "OperErr" # "Undef"
  OBVIOUS
<1> QED BY <1>1, Zenon DEF TermErrors

\* A term.
LEMMA GetTermMeaning ==
    ASSUME ParserInv, MeaningInv, OperandRead, UNCHANGED Pass2, GetTerm
    PROVE  MeaningInv'
<1> SUFFICES ASSUME Pass2 PROVE MeaningInv'
  BY DEF MeaningInv
<1>1. PICK s : /\ At(pos) # "~" => s = At(pos)
               /\ Term' = Append(Term, CalcValue(s))
               /\ errors' = errors \cup Report(TermErrors(s))
               /\ pos' = (IF At(pos) = "~" THEN pos ELSE pos + 1)
               /\ At(pos) = "*" \/ (At(pos) # NoToken /\ IsOperator(At(pos)) = 0)
               /\ parser = "term" \/ (parser = "start" /\ At(pos) \notin {"(", "+", "-", "~"})
               /\ parser' = "close" /\ operand' = operand /\ Ops' = Ops /\ parncnt' = parncnt /\ newprec' = newprec
  BY Zenon DEF GetTerm, Tok, AtTerm, NoToken
<1>2. Parsing /\ SameOperand /\ IsText
  BY <1>1, TokensRead DEF Parsing, SameOperand
<1>3. PICK ok \in BOOLEAN : /\ "OperErr" \notin errors /\ (ok <=> errors = {})
                            /\ Understood(Ops, Term, parser, pos, newprec, parncnt, ok)
  BY <1>2, ReadSoFar
<1>4. PICK o \in BOOLEAN : o <=> errors' = {}
  OBVIOUS
<1>5. (o => ok) /\ "OperErr" \notin errors'
  BY <1>1, <1>3, <1>4, TermErrorsAre DEF Report
<1>6. TermExpected(parser, pos) /\ IsTerm(At(pos))
  BY <1>1 DEF TermExpected, IsTerm
<1>7. \A v : /\ At(pos) = "~" => Understood(Ops, Append(Term, v), "close", pos, newprec, parncnt, o)
             /\ At(pos) # "~" /\ v = CalcValue(At(pos)) =>
                   Understood(Ops, Append(Term, v), "close", pos + 1, newprec, parncnt, o)
  BY <1>2, <1>3, <1>5, <1>6, ParserStacks, TermUnderstood
<1>8. Understood(Ops, Append(Term, CalcValue(s)), "close", IF At(pos) = "~" THEN pos ELSE pos + 1, newprec, parncnt, o)
  BY <1>1, <1>7
<1> QED BY <1>1, <1>2, <1>4, <1>5, <1>8, ReadOn

\* A call of CondCalc.
LEMMA CallMeaning ==
    ASSUME ParserInv, MeaningInv, OperandRead, UNCHANGED Pass2, RightParenthesis \/ NextOperator \/ EndOfOperand
    PROVE  MeaningInv'
<1> SUFFICES ASSUME Pass2 PROVE MeaningInv'
  BY DEF MeaningInv
<1>1. PICK prec : /\ parser = "close" /\ newprec' = prec
                  /\ \/ prec = 2 /\ At(pos) = ")" /\ parncnt > 0
                     \/ prec = IsOperator(At(pos)) /\ At(pos) \notin {"(", ")"} /\ prec > 0
                     \/ prec = 0 /\ At(pos) = NoToken /\ parncnt = 0
                  /\ parser' = "calc" /\ operand' = operand /\ pos' = pos /\ Term' = Term /\ Ops' = Ops
                  /\ parncnt' = parncnt /\ errors' = errors
  BY Zenon DEF RightParenthesis, NextOperator, EndOfOperand, Calls, Tok, NoToken
<1>2. Parsing /\ SameOperand /\ IsText
  BY <1>1, TokensRead DEF Parsing, SameOperand
<1>3. PICK ok \in BOOLEAN : /\ "OperErr" \notin errors /\ (ok <=> errors = {})
                            /\ Understood(Ops, Term, parser, pos, newprec, parncnt, ok)
  BY <1>2, ReadSoFar
<1>4. CalledAt(pos, prec, parncnt)
  <2>1. \A c : IsOperator(c) > 0 /\ c \notin {"(", ")"} => IsOperator(c) \in 3..6 /\ c \in Binary
    BY Precedences
  <2> QED BY <1>1, <2>1 DEF CalledAt
<1>5. Understood(Ops, Term, "calc", pos, prec, parncnt, ok)
  BY <1>1, <1>3, <1>4, CallUnderstood
<1> QED BY <1>1, <1>2, <1>3, <1>5, ReadOn

\* A round of CondCalc.
LEMMA CondCalcMeaning ==
    ASSUME ParserInv, MeaningInv, OperandRead, UNCHANGED Pass2, CondCalc
    PROVE  MeaningInv'
<1> SUFFICES ASSUME Pass2 PROVE MeaningInv'
  BY DEF MeaningInv
<1> DEFINE w == Term[Len(Term) - 1]
           v == Term[Len(Term)]
<1>1. /\ parser = "calc" /\ Top.prec >= newprec /\ Term' = Append(Pop(Pop(Term)), Combined(Top.chr, w, v))
      /\ errors' = errors \cup CombineErrors(Top.chr, w, v)
      /\ Ops' = Pop(Ops) /\ operand' = operand /\ pos' = pos /\ parncnt' = parncnt /\ newprec' = newprec
      /\ parser' = "calc"
  BY DEF CondCalc, Binds, Report
<1>2. Parsing /\ SameOperand /\ IsText
  BY <1>1, TokensRead DEF Parsing, SameOperand
<1>3. PICK ok \in BOOLEAN : /\ "OperErr" \notin errors /\ (ok <=> errors = {})
                            /\ Understood(Ops, Term, parser, pos, newprec, parncnt, ok)
  BY <1>2, ReadSoFar
<1>4. Top.chr \in Binary \cup {"~"}
  BY <1>1, ParserInvSafe DEF NoParserBug, Binary
<1>5. Top.chr \notin {"(", ")"}
  BY <1>4 DEF Binary
<1> HIDE DEF w, v
<1>6. PICK o \in BOOLEAN : o <=> errors' = {}
  OBVIOUS
<1>7. (o => ok /\ ~Crossed(Top.chr, w.hunk, v.hunk)) /\ "OperErr" \notin errors'
  <2>1. CombineErrors(Top.chr, w, v) = IF Crossed(Top.chr, w.hunk, v.hunk) THEN {"RelErr"} ELSE {}
    BY <1>5 DEF CombineErrors
  <2>2. PICK C \in BOOLEAN : C <=> Crossed(Top.chr, w.hunk, v.hunk)
    OBVIOUS
  <2>3. errors' = errors \cup (IF C THEN {"RelErr"} ELSE {})
    BY <1>1, <2>1, <2>2
  <2>4. "OperErr" # "RelErr"
    OBVIOUS
  <2> QED BY <1>3, <1>6, <2>2, <2>3, <2>4
<1>8. Understood(Pop(Ops), Append(Pop(Pop(Term)), Combined(Top.chr, w, v)), "calc", pos, newprec, parncnt, o)
  <2>1. StackOfOps(Ops) /\ IsStack(Term) /\ Top = TopOf(Ops)
    BY <1>2, ParserStacks
  <2>2. Understood(Ops, Term, "calc", pos, newprec, parncnt, ok)
    BY <1>1, <1>3
  <2>3. w = Term[Len(Term) - 1] /\ v = Term[Len(Term)]
    BY DEF w, v
  <2> QED BY <1>1, <1>2, <1>4, <1>7, <2>1, <2>2, <2>3, CalcUnderstood
<1> QED BY <1>1, <1>2, <1>6, <1>7, <1>8, ReadOn

\* A right parenthesis.
LEMMA ClosesParenthesisMeaning ==
    ASSUME ParserInv, MeaningInv, OperandRead, UNCHANGED Pass2, ClosesParenthesis
    PROVE  MeaningInv'
<1> SUFFICES ASSUME Pass2 PROVE MeaningInv'
  BY DEF MeaningInv
<1>1. parser = "calc" /\ ~(Top.prec >= newprec) /\ newprec = 2
  BY DEF ClosesParenthesis, Calculated, Binds
<1>2. Top.chr = "("
  BY <1>1, ParserInvSafe DEF NoParserBug
<1>3. /\ Ops' = Pop(Ops) /\ parncnt' = parncnt - 1 /\ pos' = pos + 1 /\ parser' = "close"
      /\ operand' = operand /\ Term' = Term /\ newprec' = newprec /\ errors' = errors
  BY <1>2 DEF ClosesParenthesis
<1>4. Parsing /\ SameOperand /\ IsText
  BY <1>1, <1>3, TokensRead DEF Parsing, SameOperand
<1>5. PICK ok \in BOOLEAN : /\ "OperErr" \notin errors /\ (ok <=> errors = {})
                            /\ Understood(Ops, Term, parser, pos, newprec, parncnt, ok)
  BY <1>4, ReadSoFar
<1>6. Understood(Pop(Ops), Term, "close", pos + 1, newprec, parncnt - 1, ok)
  BY <1>1, <1>2, <1>4, <1>5, ParserStacks, CloseUnderstood
<1> QED BY <1>3, <1>4, <1>5, <1>6, ReadOn

\* A binary operator.
LEMMA StacksOperatorMeaning ==
    ASSUME ParserInv, MeaningInv, OperandRead, UNCHANGED Pass2, StacksOperator
    PROVE  MeaningInv'
<1> SUFFICES ASSUME Pass2 PROVE MeaningInv'
  BY DEF MeaningInv
<1> DEFINE e == [chr |-> At(pos), prec |-> newprec]
<1>1. /\ parser = "calc" /\ ~(Top.prec >= newprec) /\ newprec > 2
      /\ Ops' = Append(Ops, e) /\ pos' = pos + 1 /\ parser' = "start"
      /\ operand' = operand /\ Term' = Term /\ newprec' = newprec /\ parncnt' = parncnt /\ errors' = errors
  BY DEF StacksOperator, Push, Tok, Binds
<1>2. Parsing /\ SameOperand /\ IsText
  BY <1>1, TokensRead DEF Parsing, SameOperand
<1>3. PICK ok \in BOOLEAN : /\ "OperErr" \notin errors /\ (ok <=> errors = {})
                            /\ Understood(Ops, Term, parser, pos, newprec, parncnt, ok)
  BY <1>2, ReadSoFar
<1>4. StackOfOps(Ops) /\ Top = TopOf(Ops)
  BY <1>2, ParserStacks
<1>5. TopOf(Ops).prec < newprec
  <2>1. newprec \in Int
    <3>1. newprec \in {3, 4, 5, 6}
      BY <1>1, <1>2 DEF ParserInv, CalledWith
    <3> QED BY <3>1
  <2>2. TopOf(Ops) \in Entries \cup {Bottom}
    <3>1. \A S : \A s \in Seq(S) : Len(s) >= 1 => s[Len(s)] \in S
      OBVIOUS
    <3> QED BY <1>4, <3>1 DEF StackOfOps, TopOf
  <2>3. TopOf(Ops).prec \in Int
    BY <2>2, EntryPrecedence
  <2> QED BY <1>1, <1>4, <2>1, <2>3
<1>6. e = [chr |-> At(pos), prec |-> newprec]
  OBVIOUS
<1> HIDE DEF e
<1>7. Understood(Append(Ops, e), Term, "start", pos + 1, newprec, parncnt, ok)
  <2>1. Understood(Ops, Term, "calc", pos, newprec, parncnt, ok)
    BY <1>1, <1>3
  <2> QED BY <1>1, <1>2, <1>4, <1>5, <1>6, <2>1, OperatorUnderstood
<1> QED BY <1>1, <1>2, <1>3, <1>7, ReadOn

ReadRight == SyntaxChecked /\ ValueMeant

\* A new operand has nothing before its first token.
StartLaw == IsText => \A prec, ok : Understood(<<Bottom>>, <<>>, "start", 1, prec, 0, ok)

\* StartLaw holds in every state.
LEMMA StartFrom == StartLaw
<1> SUFFICES ASSUME IsText, NEW prec, NEW ok PROVE Understood(<<Bottom>>, <<>>, "start", 1, prec, 0, ok)
  BY DEF StartLaw
<1> DEFINE P == [k \in 1..1 |-> 0]
           ops == <<Bottom>>
<1>1. Len(ops) = 1 /\ ops[1] = Bottom /\ Len(<<>>) = 0
  OBVIOUS
<1>2. P \in [1..1 -> Nat] /\ P[1] = 0 /\ 2..1 = {} /\ \A q \in 1..1, r \in 1..1 : P[q] <= P[r]
  OBVIOUS
<1> HIDE DEF P, ops
<1>3. Layout(ops, P, P, <<>>, ok)
  BY <1>1, <1>2 DEF Layout, Places
<1>4. Stands(ops, <<>>, ok, 1, 0)
  <2>1. 1 = P[Len(ops)] + 1 /\ 0 = P[Len(ops)]
    BY <1>1, <1>2
  <2> QED BY <1>3, <2>1 DEF Stands
<1>5. TopOf(ops) = Bottom
  BY <1>1 DEF TopOf
<1>6. AtStart(Bottom, 1, 1)
  <2>1. Bottom.prec # Unary /\ 1 # 1 + 1
    BY DEF Bottom, Unary
  <2> QED BY <2>1 DEF AtStart, AfterTheSign, AtOperand
<1>7. Reads(TopOf(ops), 1, 0, <<>>, "start", 1, prec, 0, ok)
  BY <1>1, <1>5, <1>6 DEF Reads
<1>8. 1 \in 1..(Last + 1) /\ 0 = Depth(1 - 1)
  <2>1. Last \in Nat /\ Depth(0) = 0 /\ 1 - 1 = 0
    BY EndsTermIs, DepthIs
  <2> QED BY <2>1
<1> QED BY <1>4, <1>7, <1>8 DEF Understood, ops

SingleLaw ==
    IsText /\ operand # <<>> /\ Single(operand) /\ Len(operand) <= 1 =>
        \A m, v : m = Meaning /\ v = CalcValue(operand[1]) => m.form /\ Matches(m, v)

\* SingleLaw holds in every state.
LEMMA SingleFrom == SingleLaw
BY SingleMeant DEF SingleLaw

\* A text without operators is one token; an empty one is a term, too.
LEMMA TextScanned ==
    ASSUME NEW text, Scanned(text)
    PROVE  /\ Single(text) => Len(text) <= 1
           /\ ~Single(text) => text # <<>>
<1>2. Single(text) => Len(text) <= 1
  BY Zenon DEF Scanned
<1>3. Single(<<>>)
  <2>1. DOMAIN <<>> = {}
    OBVIOUS
  <2> QED BY <2>1 DEF Single
<1> QED BY <1>2, <1>3

\* A call of GetValue: a single term is read at once, other operands from the start.
LEMMA GetValueRead ==
    ASSUME UNCHANGED Pass2, NEW text \in Seq(STRING), Scanned(text), GetValue(text)
    PROVE  MeaningInv' /\ OperandRead' /\ ReadRight'
<1>1. operand' = text /\ pos' = 1 /\ Pass2' = Pass2
  BY DEF GetValue
<1>2. text \in Seq(STRING) /\ Scanned(text) /\ (Single(text) => Len(text) <= 1) /\ (~Single(text) => text # <<>>)
  BY TextScanned
<1>3. IsText' /\ Scanned(operand')
  BY <1>1, <1>2 DEF IsText
<1>4. CASE Single(text)
  <2>1. PICK s, v : /\ text # <<>> => s = text[1]
                    /\ v = CalcValue(s)
                    /\ Value' = v.value /\ Hunk2' = v.hunk
                    /\ errors' = Report(TermErrors(s)) /\ parser' = "done"
    BY <1>4, Zenon DEF GetValue, Returns
  <2>2. ~Parsing'
    BY <2>1 DEF Parsing
  <2>3. MeaningInv' /\ OperandRead'
    BY <1>3, <2>2 DEF MeaningInv, OperandRead
  <2>4. ASSUME Parsed' PROVE ReadRight'
    <3>1. text # <<>> /\ s = text[1]
      BY <1>1, <2>1, <2>4 DEF Parsed
    <3>2. CalcValue(operand[1])' = v
      <4>1. (Known(s)' <=> Known(s)) /\ Pass' = Pass
        BY <1>1 DEF Known, Pass
      <4>2. CalcValue(s)' = CalcValue(s)
        BY <1>1, <4>1 DEF CalcValue, ValueOf
      <4>3. s = operand'[1]
        BY <1>1, <3>1
      <4>4. CalcValue(operand[1])' = CalcValue(s)'
        BY <1>1, <4>1, <4>3 DEF CalcValue, ValueOf
      <4> QED BY <2>1, <4>2, <4>4
    <3>3. PICK m : m = Meaning'
      OBVIOUS
    <3>4. SingleLaw'
      BY SingleFrom, PTL
    <3>5. m.form /\ Matches(m, v)'
      <4>1. operand' # <<>> /\ Single(operand') /\ Len(operand') <= 1
        BY <1>1, <1>2, <1>4, <3>1
      <4>2. \A n, u : n = Meaning' /\ u = CalcValue(operand[1])' => n.form /\ Matches(n, u)'
        BY <1>3, <3>4, <4>1 DEF SingleLaw
      <4> QED BY <3>2, <3>3, <4>2
    <3>6. "OperErr" \notin errors'
      BY <2>1, TermErrorsAre DEF Report
    <3> QED BY <2>1, <3>3, <3>5, <3>6 DEF ReadRight, SyntaxChecked, ValueMeant, Matches
  <2>5. ~Parsed' => ReadRight'
    BY DEF ReadRight, SyntaxChecked, ValueMeant
  <2> QED BY <2>3, <2>4, <2>5
<1>5. CASE ~Single(text)
  <2>1. Term' = <<>> /\ Ops' = <<Bottom>> /\ parncnt' = 0 /\ parser' = "start" /\ errors' = {}
    BY <1>5 DEF GetValue, Bottom
  <2>2. StartLaw'
    BY StartFrom, PTL
  <2>3. \A prec, ok : Understood(<<Bottom>>, <<>>, "start", 1, prec, 0, ok)'
    BY <1>3, <2>2 DEF StartLaw
  <2>4. MeaningInv'
    <3>1. PICK prec : prec = newprec'
      OBVIOUS
    <3>2. Understood(<<Bottom>>, <<>>, "start", 1, prec, 0, TRUE)'
      BY <2>3
    <3> QED BY <1>1, <2>1, <3>1, <3>2 DEF MeaningInv
  <2>5. OperandRead'
    BY <1>1, <1>2, <1>3, <1>5 DEF OperandRead
  <2>6. ~Parsed'
    BY <2>1 DEF Parsed
  <2> QED BY <2>4, <2>5, <2>6 DEF ReadRight, SyntaxChecked, ValueMeant
<1> QED BY <1>4, <1>5

-----------------------------------------------------------------------------
\* What is refused says nothing.
LEMMA FailsRead ==
    ASSUME ParserInv, MeaningInv, OperandRead, UNCHANGED Pass2, NoTerm \/ Unbalanced
    PROVE  ReadRight'
<1> SUFFICES ASSUME Parsed' PROVE ReadRight'
  BY DEF ReadRight, SyntaxChecked, ValueMeant
<1>1. Fails
  BY Zenon DEF NoTerm, Unbalanced
<1>2. operand' = operand /\ Pass2 /\ errors' = errors \cup {"OperErr"}
  BY <1>1 DEF Fails, Parsed, Report
<1>3. \/ TermExpected(parser, pos) /\ ~IsTerm(At(pos))
      \/ parser = "close" /\ IsUnbalanced(At(pos), parncnt)
  <2>1. CASE NoTerm
    <3>1. /\ parser = "term" \/ (parser = "start" /\ At(pos) \notin {"(", "+", "-", "~"})
          /\ At(pos) = NoToken \/ (IsOperator(At(pos)) > 0 /\ At(pos) # "*")
      BY <2>1, Zenon DEF NoTerm, AtTerm, Tok, NoToken
    <3>2. NoToken # "*"
      BY TokenNames
    <3> QED BY <3>1, <3>2 DEF TermExpected, IsTerm
  <2>2. CASE Unbalanced
    <3>1. /\ parser = "close"
          /\ \/ At(pos) = ")" /\ parncnt = 0
             \/ At(pos) = NoToken /\ parncnt > 0
             \/ At(pos) = "("
             \/ At(pos) # NoToken /\ IsOperator(At(pos)) = 0
      BY <2>2, Zenon DEF Unbalanced, Tok, NoToken
    <3>2. "(" # NoToken /\ IsOperator("(") = 1
      BY TokenNames DEF IsOperator, OpPrec
    <3> QED BY <3>1, <3>2 DEF IsUnbalanced
  <2> QED BY <2>1, <2>2 DEF NoTerm, Unbalanced
<1>4. Parsing
  BY <1>3 DEF Parsing, TermExpected
<1>5. SameOperand /\ IsText /\ NoEmptyToken /\ operand # <<>>
  BY <1>2, <1>4, TokensRead DEF SameOperand
<1>6. PICK ok \in BOOLEAN : Understood(Ops, Term, parser, pos, newprec, parncnt, ok)
  BY <1>2, <1>4, ReadSoFar
<1>7. ~Meaning.form
  BY <1>3, <1>4, <1>5, <1>6, ParserStacks, NoTermRefused, UnbalancedRefused
<1>8. Meaning' = Meaning
  BY <1>5, SameSays
<1>9. errors' # {} /\ "OperErr" \in errors'
  BY <1>2
<1> QED BY <1>7, <1>8, <1>9 DEF ReadRight, SyntaxChecked, ValueMeant

\* What is accepted says what it is.
LEMMA FinalValueRead ==
    ASSUME ParserInv, MeaningInv, OperandRead, UNCHANGED Pass2, FinalValue
    PROVE  ReadRight'
<1> SUFFICES ASSUME Parsed' PROVE ReadRight'
  BY DEF ReadRight, SyntaxChecked, ValueMeant
<1>1. /\ operand' = operand /\ Pass2 /\ parser = "calc" /\ ~(Top.prec >= newprec) /\ newprec = 0
      /\ errors' = errors \cup (IF Len(Term) > 1 THEN {"OperErr"} ELSE {})
      /\ Value' = Term[Len(Term)].value /\ Hunk2' = Term[Len(Term)].hunk
  BY DEF FinalValue, Calculated, Binds, Parsed, Report, Returns
<1>2. Parsing
  BY <1>1 DEF Parsing
<1>3. SameOperand /\ IsText /\ NoEmptyToken /\ operand # <<>>
  BY <1>1, <1>2, TokensRead DEF SameOperand
<1>4. PICK ok \in BOOLEAN : /\ "OperErr" \notin errors /\ (ok <=> errors = {})
                            /\ Understood(Ops, Term, "calc", pos, 0, parncnt, ok)
  BY <1>1, <1>2, ReadSoFar
<1>5. StackOfOps(Ops) /\ Top = TopOf(Ops)
  BY <1>2, ParserStacks
<1>6. TopOf(Ops).prec < 0
  <2>1. TopOf(Ops) \in Entries \cup {Bottom}
    <3>1. \A S : \A s \in Seq(S) : Len(s) >= 1 => s[Len(s)] \in S
      OBVIOUS
    <3> QED BY <1>5, <3>1 DEF StackOfOps, TopOf
  <2>2. TopOf(Ops).prec \in Int
    BY <2>1, EntryPrecedence
  <2> QED BY <1>1, <1>5, <2>2
<1>7. Len(Term) = 1 /\ Meaning.form /\ (ok => Matches(Meaning, Term[1]))
  BY <1>3, <1>4, <1>5, <1>6, Accepted
<1>8. Meaning' = Meaning /\ Bases' = Bases
  BY <1>3, SameSays, SameTerms
<1>9. errors' = errors /\ Value' = Term[1].value /\ Hunk2' = Term[1].hunk
  BY <1>1, <1>7
<1>10. PICK m : m = Meaning
  OBVIOUS
<1>11. ok => /\ m.fixed /\ m.value = Value' /\ Hunk2' \in Bases \cup {ABSHUNK}
             /\ \A h \in Bases : m.weights[h] = IF h = Hunk2' THEN 1 ELSE 0
  BY <1>7, <1>9, <1>10 DEF Matches
<1> QED BY <1>4, <1>7, <1>8, <1>9, <1>10, <1>11 DEF ReadRight, SyntaxChecked, ValueMeant

-----------------------------------------------------------------------------
ReadInv == ParserInv /\ MeaningInv /\ OperandRead /\ ReadRight

\* The operand stays as it is while it is read.
LEMMA OperandKept ==
    ASSUME OperandRead, operand' = operand, Parsing' => Parsing
    PROVE  OperandRead'
BY DEF OperandRead, IsText

\* An empty operand is scanned.
LEMMA NothingScanned == Scanned(<<>>)
<1>1. DOMAIN <<>> = {} /\ Len(<<>>) <= 1
  OBVIOUS
<1> QED BY <1>1, Zenon DEF Scanned

\* Each step of the parser keeps what has been read.
LEMMA ParseStepRead ==
    ASSUME ReadInv, UNCHANGED Pass2, ParseStep
    PROVE  MeaningInv' /\ OperandRead' /\ ReadRight'
<1>0. ParserInv /\ MeaningInv /\ OperandRead
  BY DEF ReadInv
<1>1. OperandRead'
  <2>1. CASE LeftParenthesis
    BY <1>0, <2>1, OperandKept DEF LeftParenthesis, Parsing
  <2>2. CASE UnaryOperator
    BY <1>0, <2>2, OperandKept DEF UnaryOperator, Parsing
  <2>3. CASE NoTerm \/ Unbalanced
    <3>1. Fails
      BY <2>3, Zenon DEF NoTerm, Unbalanced
    <3> QED BY <1>0, <3>1, OperandKept DEF Fails, Parsing
  <2>4. CASE GetTerm
    <3>1. operand' = operand /\ Parsing
      BY <2>4, Zenon DEF GetTerm, AtTerm, Parsing
    <3> QED BY <1>0, <3>1, OperandKept
  <2>5. CASE RightParenthesis \/ NextOperator \/ EndOfOperand
    <3>1. operand' = operand /\ Parsing
      BY <2>5, Zenon DEF RightParenthesis, NextOperator, EndOfOperand, Calls, Parsing
    <3> QED BY <1>0, <3>1, OperandKept
  <2>6. CASE CondCalc
    BY <1>0, <2>6, OperandKept DEF CondCalc, Parsing
  <2>7. CASE ClosesParenthesis
    BY <1>0, <2>7, OperandKept DEF ClosesParenthesis, Calculated, Parsing
  <2>8. CASE StacksOperator
    BY <1>0, <2>8, OperandKept DEF StacksOperator, Parsing
  <2>9. CASE FinalValue
    BY <1>0, <2>9, OperandKept DEF FinalValue, Calculated, Parsing
  <2> QED BY <2>1, <2>2, <2>3, <2>4, <2>5, <2>6, <2>7, <2>8, <2>9 DEF ParseStep
<1>2. CASE NoTerm \/ Unbalanced \/ FinalValue
  <2>1. parser' = "done"
    BY <1>2, Zenon DEF NoTerm, Unbalanced, FinalValue, Fails
  <2>2. MeaningInv'
    BY <2>1 DEF MeaningInv, Parsing
  <2> QED BY <1>0, <1>1, <1>2, <2>2, FailsRead, FinalValueRead
<1>3. CASE ~(NoTerm \/ Unbalanced \/ FinalValue)
  <2>1. MeaningInv'
    BY <1>0, <1>3, LeftParenthesisMeaning, UnaryOperatorMeaning, GetTermMeaning, CallMeaning,
       CondCalcMeaning, ClosesParenthesisMeaning, StacksOperatorMeaning DEF ParseStep
  <2>2. parser' # "done"
    <3>1. CASE LeftParenthesis
      BY <3>1 DEF LeftParenthesis
    <3>2. CASE UnaryOperator
      BY <3>2 DEF UnaryOperator, AfterSign
    <3>3. CASE GetTerm
      <4>1. parser' = "close"
        BY <3>3, Zenon DEF GetTerm
      <4> QED BY <4>1
    <3>4. CASE RightParenthesis \/ NextOperator \/ EndOfOperand
      <4>1. parser' = "calc"
        BY <3>4, Zenon DEF RightParenthesis, NextOperator, EndOfOperand, Calls
      <4> QED BY <4>1
    <3>5. CASE CondCalc \/ ClosesParenthesis \/ StacksOperator
      BY <3>5 DEF CondCalc, ClosesParenthesis, StacksOperator
    <3> QED BY <1>3, <3>1, <3>2, <3>3, <3>4, <3>5 DEF ParseStep
  <2> QED BY <1>1, <2>1, <2>2 DEF ReadRight, SyntaxChecked, ValueMeant, Parsed
<1> QED BY <1>2, <1>3

\* A step of another part keeps it.
LEMMA NothingRead ==
    ASSUME ReadInv, UNCHANGED <<Pass2, exprVars>>
    PROVE  MeaningInv' /\ OperandRead' /\ ReadRight'
<1>1. /\ operand' = operand /\ Pass2' = Pass2 /\ pos' = pos /\ Term' = Term /\ Ops' = Ops
      /\ parncnt' = parncnt /\ newprec' = newprec /\ parser' = parser /\ errors' = errors
      /\ Value' = Value /\ Hunk2' = Hunk2
  BY DEF exprVars, stacks, result
<1>2. SameOperand /\ IsText /\ MeaningInv /\ OperandRead /\ ReadRight
  BY <1>1 DEF SameOperand, ReadInv, OperandRead
<1>3. OperandRead'
  BY <1>1, <1>2, OperandKept DEF Parsing
<1>4. MeaningInv'
  <2>1. CASE Pass2 /\ Parsing
    <3>1. PICK ok \in BOOLEAN : /\ "OperErr" \notin errors /\ (ok <=> errors = {})
                                /\ Understood(Ops, Term, parser, pos, newprec, parncnt, ok)
      BY <1>2, <2>1, ReadSoFar
    <3> QED BY <1>1, <1>2, <3>1, ReadOn
  <2>2. CASE ~(Pass2 /\ Parsing)
    BY <1>1, <2>2 DEF MeaningInv, Parsing
  <2> QED BY <2>1, <2>2
<1>5. ReadRight'
  <2>1. Meaning' = Meaning /\ Bases' = Bases
    BY <1>2, SameSays, SameTerms
  <2> QED BY <1>1, <1>2, <2>1 DEF ReadRight, SyntaxChecked, ValueMeant, Parsed
<1> QED BY <1>3, <1>4, <1>5

\* Every step keeps the invariant.
LEMMA ReadInvKeeps == ReadInv /\ [ExprNext]_<<Pass2, exprVars>> => ReadInv'
<1> SUFFICES ASSUME ReadInv, [ExprNext]_<<Pass2, exprVars>> PROVE ReadInv'
  OBVIOUS
<1>1. ParserInv'
  BY ParserInvKeeps DEF ReadInv
<1>2. CASE UNCHANGED Pass2 /\ \E text \in Operands : GetValue(text)
  <2>1. PICK text \in Operands : GetValue(text)
    BY <1>2
  <2>2. text \in Seq(STRING) /\ Scanned(text)
    BY ContextAssumption, TokensAssumption
  <2> QED BY <1>1, <1>2, <2>1, <2>2, GetValueRead DEF ReadInv
<1>3. CASE UNCHANGED Pass2 /\ ParseStep
  BY <1>1, <1>3, ParseStepRead DEF ReadInv
<1>4. CASE StartPass2
  <2>1. parser' = "done" /\ operand' = <<>>
    BY <1>4 DEF StartPass2
  <2>2. MeaningInv' /\ ReadRight'
    BY <2>1 DEF MeaningInv, Parsing, ReadRight, SyntaxChecked, ValueMeant, Parsed
  <2>3. OperandRead'
    BY <2>1, NothingScanned DEF OperandRead, IsText, Parsing
  <2> QED BY <1>1, <2>2, <2>3 DEF ReadInv
<1>5. CASE UNCHANGED <<Pass2, exprVars>>
  BY <1>1, <1>5, NothingRead DEF ReadInv
<1> QED BY <1>2, <1>3, <1>4, <1>5 DEF ExprNext

\* The invariant holds at first.
LEMMA ReadInvInit == ExprInit => ReadInv
<1> SUFFICES ASSUME ExprInit PROVE ReadInv
  OBVIOUS
<1>1. parser = "done" /\ operand = <<>>
  BY DEF ExprInit
<1>2. ParserInv /\ MeaningInv /\ ReadRight
  BY <1>1 DEF ParserInv, MeaningInv, Parsing, ReadRight, SyntaxChecked, ValueMeant, Parsed
<1>3. OperandRead
  BY <1>1, NothingScanned DEF OperandRead, IsText, Parsing
<1> QED BY <1>2, <1>3 DEF ReadInv

(***************************************************************************)
(* SyntaxChecked of A68kExpr holds for every source and every operand.     *)
(***************************************************************************)
THEOREM SyntaxIsChecked == ExprSpec => []SyntaxChecked
<1>1. ReadInv => SyntaxChecked
  BY DEF ReadInv, ReadRight
<1> QED BY <1>1, ReadInvInit, ReadInvKeeps, PTL DEF ExprSpec

(***************************************************************************)
(* ValueMeant of A68kExpr holds for every source and every operand.        *)
(***************************************************************************)
THEOREM ValueIsMeant == ExprSpec => []ValueMeant
<1>1. ReadInv => ValueMeant
  BY DEF ReadInv, ReadRight
<1> QED BY <1>1, ReadInvInit, ReadInvKeeps, PTL DEF ExprSpec
=============================================================================
