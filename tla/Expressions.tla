------------------------------ MODULE Expressions ------------------------------
(***************************************************************************)
(* The expressions of the rates, delays and parameters.  The text is       *)
(* cleaned (negations, implicit products, arguments), its tokens are put   *)
(* in postfix order with a stack of operators, and the postfix is compiled *)
(* from its right end: what has only constants is computed at once, the    *)
(* rest becomes a function of the symbols, the dynamic parameters.         *)
(* The system is the writer of the text, who composes a formula one        *)
(* operation at a time and writes it down with the parentheses the usual   *)
(* precedences ask for.  Values are symbolic: a number or a parameter      *)
(* stands for itself and an operation for the formula it makes.            *)
(***************************************************************************)
EXTENDS Integers, SequencesExt

CONSTANTS
    Number,         \* the tokens that are numbers
    Static,         \* the parameters that have a value at construction
    Dynamic,        \* the parameters whose value is received
    Operations,     \* the operations the writer uses
    Branches,       \* the formulas the writer adds as the other operand
    MaxOperations   \* bound on the operations of a formula

ASSUME OperandAssumption ==
    /\ "0" \in Number
    /\ Number \cap (Static \cup Dynamic) = {}
    /\ Static \cap Dynamic = {}

VARIABLES formula, expression
vars == <<formula, expression>>

-----------------------------------------------------------------------------
(* The operators of the parser                                             *)

Operator(precedence, argCount, rightAssociative, type) ==
    [precedence |-> precedence, argCount |-> argCount,
     rightAssociative |-> rightAssociative, type |-> type]

Functions == [f \in {"abs", "log2"} |-> Operator(5, 1, FALSE, f)]
             @@ [f \in {"max", "and"} |-> Operator(5, 2, FALSE, f)]
             @@ "if" :> Operator(5, 3, FALSE, "if")
             @@ "log10" :> Operator(5, 1, FALSE, "log2")

getOperator == [o \in {"+", "-"} |-> Operator(1, 2, FALSE, o)]
               @@ [o \in {"*", "/"} |-> Operator(2, 2, FALSE, o)]
               @@ "%" :> Operator(3, 2, FALSE, "%")
               @@ "^" :> Operator(3, 2, TRUE, "^")
               @@ "!" :> Operator(4, 1, TRUE, "!")
               @@ [o \in {"==", "<"} |-> Operator(0, 2, FALSE, o)]
               @@ Functions

Name == Static \cup Dynamic \cup DOMAIN Functions

-----------------------------------------------------------------------------
(* RPNConverter.cpp: from the text to the postfix                          *)

Rewrite(text, F(_)) == FoldLeft(LAMBDA done, n : done \o F(n), <<>>, [n \in DOMAIN text |-> n])

\* cleanInfixExpression(): (+x) is (x) and (-x) is (0-x).
SignsRemoved(text) ==
    Rewrite(text, LAMBDA n :
        IF n > 1 /\ text[n - 1] = "("
        THEN CASE text[n] = "+" -> <<>> [] text[n] = "-" -> <<"0", "-">> [] OTHER -> <<text[n]>>
        ELSE <<text[n]>>)

\* The last character is a digit, and it does not directly follow a letter.
EndsInDigit(token) == token \in Number \cup {"log10"}

ImplicitProduct_NumbersOnly(token, next) ==
    EndsInDigit(token) /\ next \in Name \cup {"("}

\* 2x, 2(x), (x)(y), (x)2 and (x)y are products.
ImplicitProduct(token, next) ==
    \/ EndsInDigit(token) /\ next \in Name \cup {"("}
    \/ token = ")" /\ next \in Name \cup Number \cup {"("}

ProductsAdded(text) ==
    Rewrite(text, LAMBDA n :
        IF n < Len(text) /\ ImplicitProduct(text[n], text[n + 1])
        THEN <<text[n], "*">> ELSE <<text[n]>>)

\* When there are commas every argument gets parentheses.
ArgumentsEnclosed_Inside(text) ==
    IF "," \notin Range(text) THEN text
    ELSE Rewrite(text, LAMBDA n : IF text[n] = "," THEN <<>> ELSE <<text[n]>>)
ArgumentsEnclosed(text) ==
    IF "," \notin Range(text) THEN text
    ELSE Rewrite(text, LAMBDA n :
            CASE text[n] \in {"(", ")"} -> <<text[n], text[n]>>
              [] text[n] = "," -> <<")", "(">>
              [] OTHER -> <<text[n]>>)

cleanInfixExpression(text) == ArgumentsEnclosed(ProductsAdded(SignsRemoved(text)))

\* missMatchParenthesis() and checkInfixExpression()
Restricted == {"*", "/", "+", "-", "%", "^"}
IllFormed(text) ==
    \/ Len(SelectSeq(text, LAMBDA t : t = "(")) # Len(SelectSeq(text, LAMBDA t : t = ")"))
    \/ \E n \in DOMAIN text :
        /\ text[n] \in Restricted
        /\ n \in {1, Len(text)} \/ text[n + 1] \in Restricted \cup {")"}

\* The operator at the top of the stack goes to the postfix before this one.
Precedes_Strict(top, op) ==
    top # "(" /\ getOperator[op].precedence < getOperator[top].precedence
Precedes_NoAssociativity(top, op) ==
    top # "(" /\ getOperator[op].precedence =< getOperator[top].precedence
Precedes(top, op) ==
    /\ top # "("
    /\ \/ getOperator[op].precedence < getOperator[top].precedence
       \/ /\ getOperator[op].precedence = getOperator[top].precedence
          /\ ~getOperator[top].rightAssociative

\* s is [operators, postfix]; the stack of operators has its top last.
PopWhile(s, Pops(_)) ==
    LET kept == Max({0} \cup {n \in DOMAIN s.operators : ~Pops(s.operators[n])})
    IN  [operators |-> SubSeq(s.operators, 1, kept),
         postfix |-> s.postfix \o Reverse(SubSeq(s.operators, kept + 1, Len(s.operators)))]

Push(s, operator) == [s EXCEPT !.operators = Append(@, operator)]

ReadToken(s, token) ==
    CASE token \in DOMAIN Functions \cup {"("} -> Push(s, token)
      [] token = ")" -> LET popped == PopWhile(s, LAMBDA top : top # "(")
                        IN  [popped EXCEPT !.operators = Front(@)]
      [] token \in DOMAIN getOperator \ DOMAIN Functions ->
            Push(PopWhile(s, LAMBDA top : Precedes(top, token)), token)
      [] OTHER -> [s EXCEPT !.postfix = Append(@, token)]

extractPostfixElements(text) ==
    LET read == FoldLeft(ReadToken, [operators |-> <<>>, postfix |-> <<>>],
                         cleanInfixExpression(text))
    IN  read.postfix \o Reverse(read.operators)

-----------------------------------------------------------------------------
(* ExpressionRuntime.cpp: from the postfix to the compiled expression      *)

Constant(value) == [type |-> "CONSTANT", value |-> value]
Variable(ix) == [type |-> "VARIABLE", ix |-> ix]
Function(op, args) == [type |-> "FUNCTION", op |-> op, args |-> args]

Operation(op, args) == [op |-> op, args |-> args]
Leaf(token) == Operation(token, <<>>)

\* generate(): computed at once when every argument is a constant.
generate_KeepConstants(op, args) == Function(op, args)
generate(op, args) ==
    IF \A n \in DOMAIN args : args[n].type = "CONSTANT"
    THEN Constant(Operation(op, [n \in DOMAIN args |-> args[n].value]))
    ELSE Function(op, args)

registerSymbol(symbols, param) ==
    IF Contains(symbols, param)
    THEN [symbols |-> symbols, ix |-> SelectInSeq(symbols, LAMBDA s : s = param)]
    ELSE [symbols |-> Append(symbols, param), ix |-> Len(symbols) + 1]

\* compile(): c.left is the postfix not read yet, c.tokens what was compiled.
Compiled_Backward(c, token) == [c EXCEPT !.tokens = Append(@, token)]
Compiled(c, token) == [c EXCEPT !.tokens = <<token>> \o @]

\* The last count operands or operations that are left, compiled.
RECURSIVE compile(_, _)
compile(c, count) ==
    IF count = 0 \/ c.invalid THEN c
    ELSE IF c.left = <<>> THEN [c EXCEPT !.invalid = TRUE]
    ELSE LET token == Last(c.left)
             rest == [c EXCEPT !.left = Front(@)]
         IN  compile(
               CASE token \in DOMAIN getOperator ->
                      LET op == getOperator[token]
                          read == compile([rest EXCEPT !.tokens = <<>>], op.argCount)
                      IN  [read EXCEPT !.tokens = <<generate(op.type, @)>> \o c.tokens]
                 [] token \in Dynamic ->
                      LET r == registerSymbol(rest.symbols, token)
                      IN  Compiled([rest EXCEPT !.symbols = r.symbols], Variable(r.ix))
                 [] OTHER -> Compiled(rest, Constant(Leaf(token))),
               count - 1)

Invalid == [invalid |-> TRUE]

\* Expression::Expression(expression, params)
Construct(text) ==
    LET postfix == extractPostfixElements(text)
        c == compile([left |-> postfix, tokens |-> <<>>, symbols |-> <<>>, invalid |-> FALSE], 1)
    IN  IF IllFormed(cleanInfixExpression(text)) \/ c.invalid THEN Invalid
        ELSE [invalid |-> FALSE, postfix |-> postfix, expr |-> Head(c.tokens),
              symbolTable |-> c.symbols,
              dynamic |-> Head(c.tokens).type # "CONSTANT"]

\* evaluateDBL(), where every parameter has the value that is its name.
RECURSIVE Evaluate(_, _)
Evaluate(token, symbolTable) ==
    CASE token.type = "CONSTANT" -> token.value
      [] token.type = "VARIABLE" -> Leaf(symbolTable[token.ix])
      [] token.type = "FUNCTION" ->
            Operation(token.op, [n \in DOMAIN token.args |-> Evaluate(token.args[n], symbolTable)])

-----------------------------------------------------------------------------
(* The writer                                                              *)

\* How tight the usual precedences, the ones of the tests, make a formula.
Tightness(f) ==
    CASE f.op \in {"==", "<"} -> 0
      [] f.op \in {"+", "-"} -> 1
      [] f.op \in {"*", "/", "juxtaposed"} -> 2
      [] f.op \in {"%", "^"} -> 3
      [] f.op = "!" -> 4
      [] OTHER -> 5

Enclosed(text) == <<"(">> \o text \o <<")">>
EncloseIf(condition, text) == IF condition THEN Enclosed(text) ELSE text

RECURSIVE Written(_)
Written(f) ==
    LET op == f.op
        side(n) == Written(f.args[n])
        looser(n) == Tightness(f.args[n]) < Tightness(f)
        asTight(n) == Tightness(f.args[n]) = Tightness(f)
        \* 3! followed by == would read as a !=
        factorial(n) == op = "==" /\ f.args[n].op = "!"
        text(n) == EncloseIf(\/ looser(n) \/ factorial(n)
                             \/ asTight(n) /\ (n = 2) = (op # "^")
                             \/ asTight(n) /\ {op, f.args[n].op} = {"%", "^"},
                             side(n))
    IN  CASE f.args = <<>> -> <<op>>
          [] op = "negated" -> <<"(", "-">> \o EncloseIf(Tightness(f.args[1]) < 2, side(1)) \o <<")">>
          [] op = "!" -> EncloseIf(looser(1), side(1)) \o <<"!">>
          [] op = "juxtaposed" ->
                EncloseIf(f.args[1].op \notin Number \cup DOMAIN Functions \cup {"negated"}, side(1))
                \o EncloseIf(\/ f.args[2].op \notin Name \cup Number \cup {"negated"}
                             \/ f.args[1].op \in Number /\ f.args[2].op \in Number, side(2))
          [] op \in DOMAIN Functions ->
                <<op>> \o Enclosed(FoldLeft(LAMBDA t, n : t \o <<",">> \o side(n), side(1),
                                            [n \in 1 .. Len(f.args) - 1 |-> n + 1]))
          [] OTHER -> text(1) \o <<op>> \o text(2)

RECURSIVE Count(_)
Count(f) == IF f.args = <<>> THEN 0
            ELSE 1 + FoldLeft(LAMBDA n, g : n + Count(g), 0, f.args)

Arity(op) == CASE op \in {"!", "negated", "abs", "log2", "log10"} -> 1
               [] op = "if" -> 3
               [] OTHER -> 2

Init ==
    /\ formula \in {Leaf(t) : t \in Number \cup Static \cup Dynamic}
    /\ expression = Construct(Written(formula))

Compose(op, args) ==
    /\ Len(args) = Arity(op)
    /\ Contains(args, formula)
    /\ Count(formula) < MaxOperations
    /\ formula' = Operation(op, args)
    /\ expression' = Construct(Written(formula'))

Next ==
    \E op \in Operations, before \in BoundedSeq(Branches, 2), after \in BoundedSeq(Branches, 2) :
        Compose(op, before \o <<formula>> \o after)

Spec == Init /\ [][Next]_vars

-----------------------------------------------------------------------------
(* Properties                                                              *)

\* The parser's names of the operations of the writer.
RECURSIVE Meaning(_)
Meaning(f) ==
    CASE f.op = "negated" -> Operation("-", <<Leaf("0"), Meaning(f.args[1])>>)
      [] f.op = "juxtaposed" -> Operation("*", <<Meaning(f.args[1]), Meaning(f.args[2])>>)
      [] OTHER -> Operation(f.op, [n \in DOMAIN f.args |-> Meaning(f.args[n])])

RECURSIVE Postorder(_)
Postorder(f) == FoldLeft(LAMBDA done, g : done \o Postorder(g), <<>>, f.args) \o <<f.op>>

\* A formula written with the usual precedences is accepted, and its postfix
\* is the one of the formula: cleaning the text and the stack of operators
\* (extractPostfixElements) lose no grouping and no argument.
ParsedAsWritten ==
    /\ ~expression.invalid
    /\ expression.postfix = Postorder(Meaning(formula))

\* What was computed at construction and what is left to compute give together
\* the value of the formula, whatever the values of the parameters
\* (Expression::compile, generate, evaluateImpl).
EvaluatedAsWritten ==
    ~expression.invalid =>
        Evaluate(expression.expr, expression.symbolTable) = Meaning(formula)

\* A call of a function of the operator table is read as a call of it: the digit
\* its name ends with starts no product (cleanInfixExpression).
CallsRead == formula.op \in DOMAIN Functions => ~expression.invalid
=============================================================================
