------------------------------ MODULE A68kExpr ------------------------------
(***************************************************************************)
(* The expression parser of the assembler (src/a68k/Symtab.c): GetValue    *)
(* reads an operand token by token, CondCalc combines terms as soon as an  *)
(* operator of lower precedence is met, CalcValue evaluates one term.      *)
(*                                                                         *)
(* A token is an operator, a parenthesis or a name; the characters of a    *)
(* number, a string or a symbol are not modelled.  The two stacks share    *)
(* the secondary heap in the program, which stops when they meet           *)
(* (ParseSpace); here they have room.                                      *)
(***************************************************************************)
EXTENDS Integers, Sequences, FiniteSets
LOCAL INSTANCE FiniteSetsExt

CONSTANTS
    Numbers,      \* value of each name that is a number or a string
    Symbols,      \* the symbols of the source: see SymbolsAssumption
    Undeclared,   \* names nobody defines, with the external hunk each would get
    CurrHunk,     \* the section of the current line
    LineCount,    \* the number of the current line
    AddrCnt,      \* its address, in pass 1 and in pass 2
    GlobalXREF,   \* option -g: undefined symbols are external
    Operands      \* the operands GetValue is called with, sequences of tokens

ABSHUNK == 32767   \* hunk of an absolute value; a negative hunk is external
NODEF   == 32767   \* line of a symbol that is not defined

OpPrec == [c \in {"(", ")", "+", "-", "*", "/", "&", "!", "|", "<<", ">>"} |->
    CASE c = "("                  -> 1
      [] c = ")"                  -> 2
      [] c \in {"+", "-"}         -> 3
      [] c \in {"*", "/"}         -> 4
      [] c \in {"&", "!", "|"}    -> 5
      [] c \in {"<<", ">>"}       -> 6]
Unary == 9         \* precedence of a unary operator; ~ has no other

IsOperator(c) == IF c \in DOMAIN OpPrec THEN OpPrec[c] ELSE 0

(* A token that is not an operator is a name.  val[1] and val[2] are the   *)
(* values of a symbol in the two passes: labels move when a branch is      *)
(* shortened.  reg tells the names of a register (EQUR) and of a list of   *)
(* registers (REG).                                                        *)
ASSUME SymbolsAssumption ==
    \A s \in DOMAIN Symbols :
        Symbols[s] \in [val : [1..2 -> Int], hunk : Int, defn : Nat, reg : {"", "EQUR", "REG"}]
ASSUME ContextAssumption ==
    /\ Operands \subseteq Seq(STRING)
    /\ AddrCnt \in [1..2 -> Nat] /\ LineCount \in Nat /\ CurrHunk \in Nat
    /\ GlobalXREF \in BOOLEAN

VARIABLES
    Pass2,        \* which pass
    operand, pos, \* what is parsed, and the next token
    Term, Ops,    \* the stacks of terms and operators, the bottom first
    parncnt,      \* open parentheses
    newprec,      \* argument of CondCalc
    parser,       \* where GetValue is
    Value, Hunk2, DefLine2, SingleFlag,   \* its results
    errors        \* kinds of error reported for the operand

stacks == <<Term, Ops, parncnt, newprec>>
result == <<Value, Hunk2, DefLine2, SingleFlag>>
exprVars == <<operand, pos, stacks, parser, result, errors>>

-----------------------------------------------------------------------------
(***************************************************************************)
(* Terms.                                                                  *)
(***************************************************************************)
Pass == IF Pass2 THEN 2 ELSE 1

(* Pass 1 knows the symbols defined so far. *)
Known(s) == s \in DOMAIN Symbols /\ (Pass2 \/ Symbols[s].defn <= LineCount)

ValueOf(val, hunk, line) == [value |-> val, hunk |-> hunk, defline |-> line]

(* The one term s: its value and the error it causes, if any. *)
CalcValue(s) ==
    CASE s \in DOMAIN Numbers -> ValueOf(Numbers[s], ABSHUNK, 0)
      [] s = "*"              -> ValueOf(AddrCnt[Pass], CurrHunk, 0)
      [] Known(s)             -> ValueOf(Symbols[s].val[Pass], Symbols[s].hunk, Symbols[s].defn)
      [] s \in DOMAIN Undeclared /\ Pass2 /\ GlobalXREF
                              -> ValueOf(0, Undeclared[s], LineCount)
      [] OTHER                -> ValueOf(0, ABSHUNK, NODEF)

(* Errors of a term; pass 1 reports none of any kind. *)
Report(kinds) == IF Pass2 THEN kinds ELSE {}

TermErrors(s) ==
    CASE s \in DOMAIN Numbers \cup {"*", "NARG"}                -> {}
      [] Known(s)                                     -> IF Symbols[s].reg # "" THEN {"AddrErr"} ELSE {}
      [] s \in DOMAIN Undeclared /\ Pass2 /\ GlobalXREF -> {}
      [] OTHER                                        -> {"Undef"}

-----------------------------------------------------------------------------
(***************************************************************************)
(* CondCalc's arithmetic.                                                  *)
(***************************************************************************)
Bits(n) == {i \in 0..30 : (n \div 2^i) % 2 = 1}
FromBits(S) == MapThenSumSet(LAMBDA i : 2^i, S)

Magnitude(n) == IF n < 0 THEN -n ELSE n
Quotient(a, b) ==          \* C's division, which truncates; 0 for b = 0
    CASE b = 0             -> 0
      [] (a < 0) = (b < 0) -> Magnitude(a) \div Magnitude(b)
      [] OTHER             -> -(Magnitude(a) \div Magnitude(b))

(* The operands of & and | are natural and the counts of shifts at most 31 *)
(* in all inputs.  ~ only comes with -1 on its left: it is exclusive or.   *)
Calculate(op, a, b) ==
    CASE op = "+"         -> a + b
      [] op = "-"         -> a - b
      [] op = "*"         -> a * b
      [] op = "/"         -> Quotient(a, b)
      [] op = "&"         -> FromBits(Bits(a) \cap Bits(b))
      [] op \in {"!","|"} -> FromBits(Bits(a) \cup Bits(b))
      [] op = "<<"        -> a * 2^b
      [] op = ">>"        -> a \div 2^b
      [] op = "~"         -> a - b
      [] OTHER            -> a

(* Where the result lies; an illegal combination is made absolute. *)
SumHunk(a, b)        == IF a = ABSHUNK THEN b ELSE IF b = ABSHUNK THEN a ELSE ABSHUNK
DifferenceHunk(a, b) == IF a # b /\ b = ABSHUNK THEN a ELSE ABSHUNK
HunkOf(op, a, b) ==
    CASE op = "+" -> SumHunk(a, b)
      [] op = "-" -> DifferenceHunk(a, b)
      [] OTHER    -> ABSHUNK

Crossed(op, a, b) ==           \* what CondCalc refuses
    CASE op = "+" -> a # ABSHUNK /\ b # ABSHUNK
      [] op = "-" -> a # b /\ b # ABSHUNK
      [] OTHER    -> a # ABSHUNK \/ b # ABSHUNK

CombineErrors(op, a, b) ==
    (IF Crossed(op, a.hunk, b.hunk) THEN {"RelErr"} ELSE {})
        \cup (IF op \in {"(", ")"} THEN {"OperErr"} ELSE {})

Later(a, b) == IF b > a THEN b ELSE a

Combined(op, a, b) ==
    ValueOf(Calculate(op, a.value, b.value), HunkOf(op, a.hunk, b.hunk), Later(a.defline, b.defline))

-----------------------------------------------------------------------------
(***************************************************************************)
(* GetValue.                                                               *)
(***************************************************************************)
At(p)  == IF p <= Len(operand) THEN operand[p] ELSE ""
Tok  == At(pos)
Top    == Ops[Len(Ops)]
Pop(s) == SubSeq(s, 1, Len(s) - 1)
Push(c, prec) == Ops' = Append(Ops, [chr |-> c, prec |-> prec])

Single(text) == \A i \in DOMAIN text : IsOperator(text[i]) = 0 /\ text[i] # "~"

(* A token has characters, and what has no operator is one token. *)
Scanned(text) == (\A i \in DOMAIN text : text[i] # "") /\ (Single(text) => Len(text) <= 1)
ASSUME TokensAssumption == \A text \in Operands : Scanned(text)

Returns(v) == Value' = v.value /\ Hunk2' = v.hunk /\ DefLine2' = v.defline

(* The call: a single term is evaluated at once.  An empty operand is a    *)
(* term without characters, which no symbol matches.                       *)
GetValue(text) ==
    /\ operand' = text
    /\ pos' = 1
    /\ SingleFlag' = Single(text)
    /\ IF Single(text)
         THEN LET s == IF text = <<>> THEN "" ELSE text[1]
              IN /\ Returns(CalcValue(s))
                 /\ errors' = Report(TermErrors(s))
                 /\ parser' = "done"
                 /\ UNCHANGED stacks
         ELSE /\ Hunk2' = ABSHUNK
              /\ DefLine2' = 0
              /\ Term' = <<>>
              /\ Ops' = <<[chr |-> " ", prec |-> -1]>>
              /\ parncnt' = 0
              /\ errors' = {}
              /\ parser' = "start"
              /\ UNCHANGED <<newprec, Value>>

(* An error return: the value is zero, the rest is as it happens to be. *)
Fails ==
    /\ errors' = errors \cup Report({"OperErr"})
    /\ Value' = 0
    /\ parser' = "done"
    /\ UNCHANGED <<operand, pos, stacks, Hunk2, DefLine2, SingleFlag>>

LeftParenthesis ==
    /\ parser = "start" /\ Tok = "("
    /\ Push("(", 1)
    /\ parncnt' = parncnt + 1
    /\ pos' = pos + 1
    /\ UNCHANGED <<operand, Term, newprec, parser, result, errors>>

\* variant: a sign may follow a sign
AfterSignAnything == "start"

AfterSign == IF At(pos + 1) = "(" THEN "start" ELSE "term"

(* A sign: zero minus, or -1 exclusive or, what follows.  After it comes a *)
(* parenthesis or a term, no other sign.                                   *)
UnaryOperator ==
    /\ parser = "start" /\ Tok \in {"+", "-", "~"}
    /\ IF Tok = "+"
         THEN UNCHANGED <<Term, Ops>>
         ELSE /\ Push(Tok, Unary)
              /\ Term' = Append(Term, ValueOf(IF Tok = "-" THEN 0 ELSE -1, ABSHUNK, 0))
    /\ pos' = pos + 1
    /\ parser' = AfterSign
    /\ UNCHANGED <<operand, parncnt, newprec, result, errors>>

AtTerm == parser = "term" \/ (parser = "start" /\ Tok \notin {"(", "+", "-", "~"})

NoTerm ==
    /\ AtTerm
    /\ Tok = "" \/ (IsOperator(Tok) > 0 /\ Tok # "*")
    /\ Fails

(* One term; * is the location counter here.  A ~ where a term should be   *)
(* leaves the term empty and stays where it is.                            *)
GetTerm ==
    /\ AtTerm
    /\ Tok = "*" \/ (Tok # "" /\ IsOperator(Tok) = 0)
    /\ LET s == IF Tok = "~" THEN "" ELSE Tok
       IN /\ Term' = Append(Term, CalcValue(s))
          /\ errors' = errors \cup Report(TermErrors(s))
          /\ pos' = IF Tok = "~" THEN pos ELSE pos + 1
    /\ Hunk2' = 0 /\ DefLine2' = 0
    /\ parser' = "close"
    /\ UNCHANGED <<operand, Ops, parncnt, newprec, Value, SingleFlag>>

Calls(prec) ==
    /\ newprec' = prec
    /\ parser' = "calc"
    /\ UNCHANGED <<operand, pos, Term, Ops, parncnt, result, errors>>

\* variant: a parenthesis that was not opened is closed
RightParenthesisAnywhere == parser = "close" /\ Tok = ")" /\ Calls(2)

RightParenthesis == parser = "close" /\ Tok = ")" /\ parncnt > 0 /\ Calls(2)

NextOperator ==
    parser = "close" /\ Tok \notin {"(", ")"} /\ IsOperator(Tok) > 0 /\ Calls(IsOperator(Tok))

EndOfOperand == parser = "close" /\ Tok = "" /\ parncnt = 0 /\ Calls(0)

(* A parenthesis too many on either side, or no operator between terms. *)
Unbalanced ==
    /\ parser = "close"
    /\ \/ Tok = ")" /\ parncnt = 0
       \/ Tok = "" /\ parncnt > 0
       \/ Tok = "("
       \/ Tok # "" /\ IsOperator(Tok) = 0
    /\ Fails

\* variant: an operator of the same precedence waits
BindsCloser == Top.prec > newprec

(* One round of CondCalc's loop: while the last operator binds as closely. *)
Binds == Top.prec >= newprec

CondCalc ==
    /\ parser = "calc" /\ Binds
    /\ LET a == Term[Len(Term) - 1]
           b == Term[Len(Term)]
       IN /\ Term' = Append(Pop(Pop(Term)), Combined(Top.chr, a, b))
          /\ errors' = errors \cup
                Report(CombineErrors(Top.chr, a, b))
    /\ Ops' = Pop(Ops)
    /\ UNCHANGED <<operand, pos, parncnt, newprec, parser, result>>

Calculated(prec) == parser = "calc" /\ ~Binds /\ newprec = prec

ClosesParenthesis ==
    /\ Calculated(2)
    /\ IF Top.chr = "(" THEN Ops' = Pop(Ops) ELSE Push(")", 2)
    /\ parncnt' = parncnt - 1
    /\ pos' = pos + 1
    /\ parser' = "close"
    /\ UNCHANGED <<operand, Term, newprec, result, errors>>

StacksOperator ==
    /\ parser = "calc" /\ ~Binds /\ newprec > 2
    /\ Push(Tok, newprec)
    /\ pos' = pos + 1
    /\ parser' = "start"
    /\ UNCHANGED <<operand, Term, parncnt, newprec, result, errors>>

FinalValue ==
    /\ Calculated(0)
    /\ Returns(Term[Len(Term)])
    /\ errors' = errors \cup Report(IF Len(Term) > 1 THEN {"OperErr"} ELSE {})
    /\ parser' = "done"
    /\ UNCHANGED <<operand, pos, stacks, SingleFlag>>

ParseStep ==
    \/ LeftParenthesis \/ UnaryOperator \/ NoTerm \/ GetTerm
    \/ RightParenthesis \/ NextOperator \/ EndOfOperand \/ Unbalanced
    \/ CondCalc \/ ClosesParenthesis \/ StacksOperator \/ FinalValue

ExprInit ==
    /\ Pass2 = FALSE
    /\ operand = <<>> /\ pos = 1
    /\ Term = <<>> /\ Ops = <<>> /\ parncnt = 0 /\ newprec = 0
    /\ parser = "done"
    /\ Value = 0 /\ Hunk2 = ABSHUNK /\ DefLine2 = 0 /\ SingleFlag = TRUE
    /\ errors = {}

(* startpass: between the passes no operand is read. *)
StartPass2 ==
    /\ ~Pass2 /\ parser = "done"
    /\ Pass2' = TRUE
    /\ operand' = <<>>
    /\ UNCHANGED <<pos, stacks, parser, result, errors>>

(* Calls of GetValue, one after the other, in one pass and in the next. *)
ExprNext ==
    \/ parser = "done" /\ UNCHANGED Pass2 /\ \E text \in Operands : GetValue(text)
    \/ ParseStep /\ UNCHANGED Pass2
    \/ StartPass2

ExprSpec == ExprInit /\ [][ExprNext]_<<Pass2, exprVars>>

-----------------------------------------------------------------------------
(***************************************************************************)
(* Properties.                                                             *)
(***************************************************************************)

(***************************************************************************)
(* The parser trusts its stacks: GetValue and CondCalc call it a "Parser   *)
(* bug?" when a parenthesis is calculated with or terms are left over.     *)
(* CondCalc always finds two terms and an operator, a closed parenthesis   *)
(* was opened, and one term is left at the end.                            *)
(***************************************************************************)
NoParserBug ==
    parser = "calc" =>
        IF Top.prec >= newprec
        THEN Len(Term) >= 2 /\ Top.chr \in {"+", "-", "*", "/", "&", "!", "|", "<<", ">>", "~"}
        ELSE /\ newprec = 2 => Top.chr = "("
             /\ newprec = 0 => Len(Term) = 1

(***************************************************************************)
(* What an operand says, defined without stacks.  A token ends a term or   *)
(* not; an operator after the end of a term is binary.  An expression is   *)
(* split at its last binary operator, among those outside parentheses of   *)
(* the least precedence.  "weights" counts how often each section or       *)
(* external symbol is added to the value: what the linker can relocate is  *)
(* one of them, once.                                                      *)
(***************************************************************************)
EndsTerm[k \in 0..Len(operand)] ==
    /\ k > 0
    /\ \/ operand[k] = ")" \/ (IsOperator(operand[k]) = 0 /\ operand[k] # "~")
       \/ operand[k] = "*" /\ ~EndsTerm[k - 1]

Parentheses(c, i, k) == Cardinality({j \in i..k : operand[j] = c})
Outer(i, j) ==
    {k \in i..j : IsOperator(operand[k]) > 2 /\ EndsTerm[k - 1]
                    /\ Parentheses("(", i, k) = Parentheses(")", i, k)}
SplitAt(i, j) ==
    LET least == {k \in Outer(i, j) : \A l \in Outer(i, j) :
                    IsOperator(operand[k]) <= IsOperator(operand[l])}
    IN  CHOOSE k \in least : \A l \in least : l <= k

Bases == {CalcValue(operand[k]).hunk : k \in DOMAIN operand} \ {ABSHUNK}
NoWeight == [h \in Bases |-> 0]
Atom(s) ==
    LET v == CalcValue(s) IN [form |-> TRUE, fixed |-> TRUE, value |-> v.value,
        weights |-> [h \in Bases |-> IF h = v.hunk THEN 1 ELSE 0]]
Malformed == [form |-> FALSE, fixed |-> FALSE, value |-> 0, weights |-> NoWeight]

Applied(op, a, b) ==
    IF op \in {"+", "-"}
    THEN [form    |-> a.form /\ b.form, fixed |-> a.fixed /\ b.fixed,
          value   |-> Calculate(op, a.value, b.value),
          weights |-> [h \in Bases |-> Calculate(op, a.weights[h], b.weights[h])]]
    ELSE [form    |-> a.form /\ b.form,
          fixed   |-> a.fixed /\ b.fixed /\ a.weights = NoWeight /\ b.weights = NoWeight,
          value   |-> Calculate(op, a.value, b.value),
          weights |-> NoWeight]
Signed(op, a) ==
    LET zero == [Malformed EXCEPT !.form = TRUE, !.fixed = TRUE]
        ones == [zero EXCEPT !.value = -1]
    IN  CASE op = "+" -> a [] op = "-" -> Applied("-", zero, a) [] op = "~" -> Applied("~", ones, a)

\* of the tokens i to j, where S is what shorter spans say
SaysOf(S, i, j) ==
    CASE i > j -> Malformed
      [] i = j /\ EndsTerm[i] /\ operand[i] # ")" -> Atom(operand[i])
      [] Outer(i, j) # {} ->
            LET k == SplitAt(i, j) IN
            IF k = i \/ k = j THEN Malformed ELSE Applied(operand[k], S[<<i, k - 1>>], S[<<k + 1, j>>])
      [] Outer(i, j) = {} /\ i < j /\ operand[i] \in {"+", "-", "~"} ->
            IF operand[i + 1] \in {"+", "-", "~"} THEN Malformed ELSE Signed(operand[i], S[<<i + 1, j>>])
      [] Outer(i, j) = {} /\ i < j /\ operand[i] = "(" /\ operand[j] = ")" -> S[<<i + 1, j - 1>>]
      [] OTHER -> Malformed
Says[s \in (1..Len(operand)) \X (0..Len(operand))] == SaysOf(Says, s[1], s[2])

Parsed == parser = "done" /\ Pass2 /\ operand # <<>>
Meaning == Says[<<1, Len(operand)>>]

(***************************************************************************)
(* GetValue: what is accepted has the value, and the one section or        *)
(* external symbol to relocate it with, that the operand says.             *)
(***************************************************************************)
ValueMeant ==
    Parsed /\ errors = {} =>
        /\ Meaning.fixed
        /\ Value = Meaning.value
        /\ \A h \in Bases : Meaning.weights[h] = IF h = Hunk2 THEN 1 ELSE 0
        /\ Hunk2 \in Bases \cup {ABSHUNK}

(***************************************************************************)
(* GetValue: an operand is refused for its syntax when it has none, and    *)
(* only then; pass 2 finds what pass 1 could not report.                   *)
(***************************************************************************)
SyntaxChecked == Parsed => (("OperErr" \in errors) <=> ~Meaning.form)
=============================================================================
