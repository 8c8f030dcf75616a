--------------------------- MODULE A68kCodeProofs ---------------------------
(***************************************************************************)
(* The operands of instructions: what is proved about GetValue in          *)
(* A68kExprProofs holds as the code generator calls it, for the source and *)
(* the destination of a line and in both passes.                           *)
(***************************************************************************)
EXTENDS A68kExprProofs, A68kCode

\* A part of a text is a text.
LEMMA PartOfText ==
    ASSUME NEW s \in Seq(STRING), NEW i \in Nat \ {0}, NEW j \in Int, j <= Len(s)
    PROVE  Part(s, i, j) \in Seq(STRING)
<1> DEFINE n == IF j < i THEN 0 ELSE j - i + 1
<1>1. n \in Nat /\ Part(s, i, j) = [k \in 1..n |-> s[i + k - 1]]
  BY DEF Part
<1>2. \A k \in 1..n : i + k - 1 \in 1..Len(s)
  OBVIOUS
<1>3. \A k \in 1..n : s[i + k - 1] \in STRING
  BY <1>2
<1> HIDE DEF n
<1>4. [k \in 1..n |-> s[i + k - 1]] \in [1..n -> STRING]
  BY <1>3
<1>5. \A m \in Nat : \A f \in [1..m -> STRING] : f \in Seq(STRING)
  OBVIOUS
<1> QED BY <1>1, <1>4, <1>5

\* The last left parenthesis is one of the tokens.
LEMMA OpeningIs ==
    ASSUME NEW s \in Seq(STRING), s # <<>>
    PROVE  Opening(s) \in 1..Len(s)
<1> DEFINE ps == {i \in DOMAIN s : s[i] = "("}
           IsLast(i) == i \in ps /\ \A j \in ps : j <= i
<1>1. Len(s) \in Nat /\ Len(s) >= 1 /\ DOMAIN s = 1..Len(s)
  OBVIOUS
<1>2. ps \subseteq 1..Len(s)
  BY <1>1
<1>3. CASE ps = {}
  BY <1>1, <1>3 DEF Opening
<1>4. CASE ps # {}
  <2> DEFINE D == {Len(s) - i : i \in ps}
  <2>1. D \subseteq Nat /\ D # {}
    BY <1>1, <1>2, <1>4
  <2> HIDE DEF D
  <2>2. PICK d \in D : \A e \in D : d <= e
    BY <2>1, LeastNumber
  <2> USE DEF D
  <2>3. PICK i \in ps : d = Len(s) - i
    OBVIOUS
  <2>4. \A j \in ps : j <= i
    <3> SUFFICES ASSUME NEW j \in ps PROVE j <= i
      OBVIOUS
    <3>1. Len(s) - i <= Len(s) - j
      BY <2>2, <2>3
    <3> QED BY <1>1, <1>2, <3>1
  <2>5. \E k : IsLast(k)
    BY <2>4
  <2>6. Opening(s) = CHOOSE k \in ps : \A j \in ps : j <= k
    BY <1>4 DEF Opening
  <2> HIDE DEF ps
  <2>7. Opening(s) \in ps
    BY <2>5, <2>6
  <2> QED BY <1>2, <2>7
<1> QED BY <1>3, <1>4

\* What CallsGetValue hands to GetValue can be scanned.
LEMMA ExpressionScanned ==
    ASSUME NEW s, Readable(s), HasExpression(s)
    PROVE  Expression(s) \in Seq(STRING) /\ Scanned(Expression(s))
<1>1. s \in Seq(STRING) /\ s # <<>>
  BY DEF Readable, HasExpression, Form
<1>2. Len(s) \in Nat /\ Len(s) >= 1 /\ Opening(s) \in 1..Len(s)
  BY <1>1, OpeningIs
<1>3. Displaced(s) => ~Sized(s)
  BY <1>1 DEF Displaced, Sized
<1>4. CASE Form(s) = "immediate"
  <2>1. s[1] = "#"
    BY <1>1, <1>4 DEF Form
  <2> DEFINE k == IF Len(s) > 1 /\ s[2] = "~" THEN 3 ELSE 2
  <2>2. Expression(s) = Part(s, k, Len(s)) /\ k \in Nat \ {0}
    BY <1>4 DEF Expression
  <2>3. Scanned(Part(s, k, Len(s)))
    BY <1>1, <2>1 DEF Readable
  <2> HIDE DEF k
  <2> QED BY <1>1, <1>2, <2>2, <2>3, PartOfText
<1>5. CASE Form(s) = "displacement"
  <2>1. s[1] # "#" /\ Displaced(s)
    BY <1>1, <1>5 DEF Form
  <2>2. Expression(s) = Part(s, 1, Opening(s) - 1)
    BY <1>5 DEF Expression
  <2>3. Scanned(Part(s, 1, Opening(s) - 1))
    BY <1>1, <2>1 DEF Readable
  <2>4. Opening(s) - 1 \in Int /\ Opening(s) - 1 <= Len(s)
    BY <1>2
  <2> QED BY <1>1, <2>2, <2>3, <2>4, PartOfText
<1>6. CASE Form(s) = "sized"
  <2>1. s[1] # "#" /\ ~Displaced(s) /\ Sized(s)
    BY <1>1, <1>6 DEF Form
  <2>2. Expression(s) = Part(s, 1, Len(s) - 1)
    BY <1>6 DEF Expression
  <2>3. Scanned(Part(s, 1, Len(s) - 1))
    BY <1>1, <2>1 DEF Readable
  <2>4. Len(s) - 1 \in Int /\ Len(s) - 1 <= Len(s)
    BY <1>2
  <2> QED BY <1>1, <2>2, <2>3, <2>4, PartOfText
<1>7. CASE Form(s) = "plain"
  <2>1. s[1] # "#" /\ ~Displaced(s) /\ ~Sized(s)
    BY <1>1, <1>7 DEF Form
  <2>2. Expression(s) = s
    BY <1>7 DEF Expression
  <2> QED BY <1>1, <2>1, <2>2 DEF Readable
<1> QED BY <1>4, <1>5, <1>6, <1>7 DEF HasExpression

-----------------------------------------------------------------------------
\* A line that can be read; between operands GetValue has come to its end.
CodeInv ==
    /\ ReadInv
    /\ step # "value" => parser = "done"
    /\ slot \in {"src", "dest"}
    /\ Readable(line.src.text) /\ Readable(line.dest.text)

\* It holds before the first line.
LEMMA CodeInvInit == CodeInit => CodeInv
<1> SUFFICES ASSUME CodeInit PROVE CodeInv
  OBVIOUS
<1>1. ReadInv /\ parser = "done" /\ slot \in {"src", "dest"}
  BY ReadInvInit DEF CodeInit, ExprInit
<1>2. line.src.text = <<>> /\ line.dest.text = <<>>
  BY DEF CodeInit, NoLine
<1>3. Readable(<<>>)
  BY DEF Readable
<1> QED BY <1>1, <1>2, <1>3 DEF CodeInv

\* Every step of the code generator keeps it.
LEMMA CodeInvKeeps == CodeInv /\ [CodeNext]_vars => CodeInv'
<1> SUFFICES ASSUME CodeInv, [CodeNext]_vars PROVE CodeInv'
  OBVIOUS
<1>0. ReadInv /\ ParserInv
  BY DEF CodeInv, ReadInv
<1>1. UNCHANGED <<Pass2, exprVars>> => ReadInv' /\ parser' = parser
  <2> SUFFICES ASSUME UNCHANGED <<Pass2, exprVars>> PROVE ReadInv' /\ parser' = parser
    OBVIOUS
  <2>1. ReadInv'
    BY <1>0, ReadInvKeeps
  <2> QED BY <2>1 DEF exprVars
<1>2. CASE ReadLine
  <2>1. PICK g \in Lines : \E m \in g.mnem, size \in g.size, p \in g.opers, opt \in g.options :
           Statement([mnem |-> m, size |-> size, src |-> p[1], dest |-> p[2],
                      NoOpt |-> opt.NoOpt, SmallData |-> opt.SmallData])
    BY <1>2 DEF ReadLine
  <2>5. PICK p \in g.opers : \E m \in g.mnem, size \in g.size, opt \in g.options :
           Statement([mnem |-> m, size |-> size, src |-> p[1], dest |-> p[2],
                      NoOpt |-> opt.NoOpt, SmallData |-> opt.SmallData])
    BY <2>1
  <2>2. line'.src = p[1] /\ line'.dest = p[2] /\ slot' = "src" /\ step' \in {"convert", "operand"}
    BY <2>5 DEF Statement
  <2>3. Readable(p[1].text) /\ Readable(p[2].text)
    BY <2>1, LinesAssumption
  <2>4. UNCHANGED <<Pass2, exprVars>> /\ step = "line"
    BY <1>2 DEF ReadLine
  <2> QED BY <1>1, <2>2, <2>3, <2>4 DEF CodeInv
<1>3. CASE SimpleOperand \/ ImmediateOperand \/ DisplacementOperand \/ SizedOperand \/ PlainOperand
  <2>1. /\ line' = line /\ slot' = "dest" /\ step' \in {"operand", "convert"}
        /\ step = "operand" \/ parser = "done"
        /\ UNCHANGED <<Pass2, exprVars>>
    BY <1>3 DEF SimpleOperand, ImmediateOperand, DisplacementOperand, SizedOperand, PlainOperand, Operand, Valued
  <2> QED BY <1>1, <2>1 DEF CodeInv
<1>4. CASE CallsGetValue
  <2>1. /\ step = "operand" /\ HasExpression(oper) /\ GetValue(Expression(oper)) /\ step' = "value"
        /\ UNCHANGED <<Pass2, line, slot>>
    BY <1>4 DEF CallsGetValue
  <2>2. Readable(oper)
    BY DEF CodeInv, oper
  <2>3. Expression(oper) \in Seq(STRING) /\ Scanned(Expression(oper))
    BY <2>1, <2>2, ExpressionScanned
  <2>4. ReadInv'
    BY <2>1, <2>3, GetValueKeeps, GetValueRead DEF ReadInv
  <2> QED BY <2>1, <2>4 DEF CodeInv
<1>5. CASE GetValueWorks
  <2>1. step = "value" /\ ParseStep /\ UNCHANGED <<Pass2, operandVars>>
    BY <1>5 DEF GetValueWorks
  <2>2. ReadInv'
    BY <1>0, <2>1, ReadInvKeeps DEF ExprNext
  <2> QED BY <2>1, <2>2 DEF CodeInv, operandVars
<1>6. CASE Convert \/ Encode
  <2>1. UNCHANGED <<Pass2, exprVars, line, slot>> /\ step \in {"convert", "encode"} /\ step' \in {"encode", "done"}
    BY <1>6 DEF Convert, Encode
  <2> QED BY <1>1, <2>1 DEF CodeInv
<1>7. CASE SecondPass
  <2>1. StartPass2 /\ line' = line /\ slot' = "src" /\ step' \in {"convert", "operand"}
    BY <1>7 DEF SecondPass, Statement
  <2>2. ReadInv' /\ parser' = "done"
    BY <1>0, <2>1, ReadInvKeeps DEF ExprNext, StartPass2
  <2> QED BY <2>1, <2>2 DEF CodeInv
<1>8. CASE UNCHANGED vars
  <2>1. UNCHANGED <<Pass2, exprVars>> /\ UNCHANGED <<line, slot, step>>
    BY <1>8 DEF vars, operandVars
  <2> QED BY <1>1, <2>1 DEF CodeInv
<1> QED BY <1>2, <1>3, <1>4, <1>5, <1>6, <1>7, <1>8 DEF CodeNext, ReadOperand

(***************************************************************************)
(* The same for the operands of instructions: GetOperand calls GetValue    *)
(* for source and destination, in both passes.                             *)
(***************************************************************************)
THEOREM OperandsRead == CodeSpec => [](NoParserBug /\ SyntaxChecked /\ ValueMeant)
<1>1. CodeInv => NoParserBug /\ SyntaxChecked /\ ValueMeant
  BY ParserInvSafe DEF CodeInv, ReadInv, ReadRight
<1> QED BY <1>1, CodeInvInit, CodeInvKeeps, PTL DEF CodeSpec
=============================================================================
