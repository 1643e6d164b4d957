----------------------------- MODULE Expressions -----------------------------
(***************************************************************************)
(* The expressions that pick values from a JSON document: the reader of    *)
(* llc/gpk_expression.cpp, which takes a character per step, and their     *)
(* evaluation in llc/gpk_json_expression.cpp.                              *)
(*                                                                         *)
(* Texts are written from expressions of the forms that are used: paths of *)
(* keys and indices, quoted literals, !, parentheses, && || ==, and one    *)
(* ?: at the end of a level.  Braces, comments, escapes, indices of        *)
(* strings and decimals are left out.  A document is a tree of records, a  *)
(* node of it the positions that lead there; a keyword or a number is one  *)
(* character.                                                              *)
(***************************************************************************)
EXTENDS Integers, Sequences, SequencesExt, FiniteSets

CONSTANTS
    ExprDocument, \* the document
    ExprTerms,    \* the terms that expressions are made of
    ExprBranches, \* those that ?: chooses from
    ExprNodes,    \* where paths are resolved; everything else is resolved at the root
    ExprLength    \* bound: the operators of a chain

ASSUME ExprAssumption == ExprLength \in Nat /\ <<>> \in ExprNodes

VARIABLES
    exprAsked,  \* the expression that was written, and where it is to be resolved
    exprText,   \* its text
    exprReader  \* SExpressionReader: its Token and StateRead

exprVars == <<exprAsked, exprText, exprReader>>

----------------------------------------------------------------------------
\* Expressions and their texts

ExprOperators == {"&&", "||", "=="}
ExprChains ==
    [op : {"chain"}, first : ExprTerms, rest : BoundedSeq([operator : ExprOperators, of : ExprTerms], ExprLength)]
ExprChoices == [op : {"if"}, of : {e \in ExprChains : Len(e.rest) <= 1}, then : ExprBranches, else : ExprBranches]

RECURSIVE ExprWrite(_, _)
ExprWrite(e, space) ==
    CASE e.op = "literal" -> <<"'">> \o e.text \o <<"'">>
      [] e.op = "path" ->
            FlattenSeq([k \in DOMAIN e.steps |->
                IF e.steps[k].op = "key" THEN (IF k > 1 THEN <<".">> ELSE <<>>) \o e.steps[k].key
                ELSE <<"[">> \o ExprWrite(e.steps[k], space) \o <<"]">>])
      [] e.op = "not" -> <<"!">> \o ExprWrite(e.of, space)
      [] e.op = "group" -> <<"(">> \o ExprWrite(e.of, space) \o <<")">>
      [] e.op = "chain" ->
            ExprWrite(e.first, space) \o FlattenSeq([k \in DOMAIN e.rest |->
                space \o <<SubSeq(e.rest[k].operator, 1, 1), SubSeq(e.rest[k].operator, 2, 2)>>
                      \o space \o ExprWrite(e.rest[k].of, space)])
      [] e.op = "if" ->
            ExprWrite(e.of, space) \o space \o <<"?">> \o ExprWrite(e.then, space)
                \o space \o <<":">> \o space \o ExprWrite(e.else, space) \o space

----------------------------------------------------------------------------
\* Tokens. r is the reader; positions and tokens count from 1, and 0 is no token.

ExprReset ==
    [pos |-> 1, tokens |-> <<>>, current |-> 0, nest |-> 0, inString |-> FALSE,
     separator |-> FALSE, failed |-> FALSE]
ExprFail(r) == [r EXCEPT !.failed = TRUE]
ExprType(r) == IF r.current = 0 THEN "none" ELSE r.tokens[r.current].type

ExprOpen(r, type, begin) ==
    [r EXCEPT !.tokens = Append(@, [parent |-> r.current, type |-> type, begin |-> begin, end |-> begin,
                                 closing |-> FALSE]),
              !.current = Len(r.tokens) + 1, !.nest = @ + 1]
ExprClose(r, type, end) ==
    IF ExprType(r) # type THEN ExprFail(r)
    ELSE [r EXCEPT !.tokens[r.current].end = end, !.current = r.tokens[r.current].parent, !.nest = @ - 1]
ExprCloseIf(r, type) == IF ExprType(r) = type THEN ExprClose(r, type, r.pos) ELSE r

RECURSIVE ExprCloseAll(_, _)
ExprCloseAll(r, type) == IF ExprType(r) = type THEN ExprCloseAll(ExprClose(r, type, r.pos), type) ELSE r

\* What is before an operator, from the inside out.
ExprCloseOperands(r) == FoldLeft(ExprCloseAll, ExprCloseIf(r, "KEY"), <<"NOT", "AND", "OR", "EQUALS">>)
BugExprCloseTerm(r) == ExprCloseIf(FoldLeft(ExprCloseAll, ExprCloseIf(r, "KEY"), <<"AND", "OR", "EQUALS">>), "BOOL")
ExprCloseTerm(r) == ExprCloseIf(ExprCloseOperands(r), "BOOL")

\* After the last character the open term and the root are closed.
ExprEnd(r, size) ==
    IF r.pos < size THEN r ELSE ExprCloseIf(ExprCloseTerm([r EXCEPT !.pos = size + 1]), "ANY")

----------------------------------------------------------------------------
\* expressionReaderProcessStringCharacter and expressionReaderProcessDocCharacter

ExprStringCharacter(r, c, size) ==
    IF c # "'" THEN r
    ELSE LET closed == ExprClose(r, "LITERAL", r.pos + 1)
             ends   == IF ExprType(closed) = "BOOL" /\ closed.tokens[closed.current].closing
                       THEN ExprClose(closed, "BOOL", r.pos + 1) ELSE closed
         IN  [ExprEnd([ends EXCEPT !.inString = FALSE], size) EXCEPT !.separator = TRUE]

ExprOperator(r, type) == ExprOpen([ExprCloseTerm(r) EXCEPT !.pos = @ + 1], type, r.pos + 2)

\* The case of a character. What closes, separates; a key begins with the first character in a term.
ExprCharacter(r, c, text) ==
    LET free   == [r EXCEPT !.separator = FALSE]
        closed == ExprCloseIf(free, "KEY")
        begins == ExprType(r) \in {"INDEX", "ANY", "BOOL", "AND", "OR", "EQUALS", "NOT"}
    IN  CASE c = "'" ->
                IF r.separator THEN ExprFail(r) ELSE [ExprOpen(r, "LITERAL", r.pos) EXCEPT !.inString = TRUE]
          [] c = " " ->
                LET spaces == {n \in r.pos..Len(text) : \A k \in r.pos..n : text[k] = " "}
                IN  [IF ExprType(r) = "KEY" THEN [ExprCloseIf(r, "KEY") EXCEPT !.separator = TRUE] ELSE r
                        EXCEPT !.pos = CHOOSE n \in spaces : n + 1 \notin spaces]
          [] c = "&" -> ExprOperator(free, "AND")
          [] c = "|" -> ExprOperator(free, "OR")
          [] c = "=" -> ExprOperator(free, "EQUALS")
          [] c = "." -> ExprOpen(closed, "KEY", r.pos + 1)
          [] c = "?" -> ExprOpen(ExprCloseOperands(free), "BOOL", r.pos + 1)
          [] c = ":" ->
                [ExprOpen(ExprCloseTerm(free), "BOOL", r.pos + 1)
                    EXCEPT !.tokens[Len(ExprCloseTerm(free).tokens) + 1].closing = TRUE]
          [] c = "[" -> ExprOpen(closed, "INDEX", r.pos)
          [] c = "]" -> ExprClose(ExprCloseIf(ExprCloseAll(closed, "NOT"), "BOOL"), "INDEX", r.pos + 1)
          [] c = "(" -> IF r.separator THEN ExprFail(r) ELSE ExprOpen(r, "ANY", r.pos)
          [] c = ")" -> ExprClose(ExprCloseTerm(free), "ANY", r.pos + 1)
          [] c = "!" -> ExprOpen(r, "NOT", r.pos + 1)
          [] OTHER ->
                IF r.separator THEN ExprFail(r) ELSE IF begins THEN ExprOpen(r, "KEY", r.pos) ELSE r

\* The first character is inside of the root. An error of a step is not returned by it; none comes
\* from these texts, and ends the reading here.
ExprStep(r, text) ==
    LET rooted == IF r.tokens = <<>> THEN ExprOpen(r, "ANY", r.pos) ELSE r
        c      == text[r.pos]
    IN  IF r.inString THEN ExprStringCharacter(r, c, Len(text))
        ELSE ExprEnd(ExprCharacter(rooted, c, text), Len(text))
----------------------------------------------------------------------------
ExprInit ==
    /\ exprAsked \in [of : ExprChains \cup ExprChoices, at : {<<>>}]
                     \cup [of : {t \in ExprTerms : t.op = "path"}, at : ExprNodes]
    /\ \E space \in {<<>>, <<" ">>} : exprText = ExprWrite(exprAsked.of, space)
    /\ exprReader = ExprReset

\* The loop of expressionReaderParse.
ExprNext ==
    /\ exprReader.pos <= Len(exprText) /\ ~exprReader.failed
    /\ LET read == ExprStep(exprReader, exprText) IN exprReader' = [read EXCEPT !.pos = @ + 1]
    /\ UNCHANGED <<exprAsked, exprText>>

ExprRead == exprReader.pos > Len(exprText) \/ exprReader.failed

----------------------------------------------------------------------------
\* Evaluation.  A result is a node of the document, a literal, a boolean, or a failure.

ExprView(i) ==
    LET token == exprReader.tokens[i]
        inner == IF i > 1 /\ token.type \in {"INDEX", "LITERAL"} THEN 1 ELSE 0
    IN  SubSeq(exprText, token.begin + inner, token.end - 1 - inner)
ExprChildren(i) ==
    SelectSeq([k \in DOMAIN exprReader.tokens |-> k], LAMBDA k : exprReader.tokens[k].parent = i)

ExprJson(node) == FoldLeft(LAMBDA json, k : json.children[k].of, ExprDocument, node)
ExprAt(node) == [kind |-> "node", node |-> node, view |-> ExprJson(node).text]
ExprFailed == [kind |-> "failed", node |-> <<>>, view |-> <<>>]
ExprBool(b) == [kind |-> "bool", node |-> <<>>, view |-> IF b THEN <<"true">> ELSE <<"false">>]

\* jsonObjectValueGet and jsonArrayValueGet
ExprKey(node, key) ==
    LET json  == ExprJson(node)
        found == {k \in DOMAIN json.children : json.children[k].key = key}
    IN  IF json.type # "OBJECT" \/ found = {} THEN ExprFailed
        ELSE ExprAt(Append(node, CHOOSE k \in found : \A l \in found : k <= l))
ExprIsIndex(result) ==
    CASE result.kind = "node" -> ExprJson(result.node).type = "INTEGER"
      [] OTHER -> result.kind # "failed"
ExprDigits == <<"0", "1", "2">>
ExprIndex(node, view) ==
    LET json  == ExprJson(node)
        found == {k \in DOMAIN json.children : view = <<ExprDigits[k]>>}
    IN  IF json.type # "ARRAY" \/ found = {} THEN ExprFailed ELSE ExprAt(Append(node, CHOOSE k \in found : TRUE))

\* evaluateBoolResult: a node by its type, anything else by its text.
ExprTruth(result) ==
    LET json == ExprJson(result.node)
    IN  CASE result.kind # "node" -> result.view \notin {<<>>, <<"0">>, <<"false">>, <<"null">>}
          [] json.type = "NULL" -> FALSE
          [] json.type = "BOOLEAN" -> result.view = <<"true">>
          [] json.type = "INTEGER" -> result.view # <<"0">>
          [] json.type = "STRING" -> result.view # <<>>
          [] OTHER -> json.children # <<>>

\* Of an operand: one that is not found counts as true.
ExprOperandTruth(result) == result.kind = "failed" \/ ExprTruth(result)

\* The views first, then what kind of value each is; between a number and what is no node there is no
\* case, and the number, or the literal, stays the result.
ExprEquals(left, right) ==
    LET none   == {<<>>, <<"null">>, <<"false">>}
        type(r) == IF r.kind = "node" THEN ExprJson(r.node).type ELSE "UNKNOWN"
        types  == {type(left), type(right)}
    IN  CASE right.kind = "failed" -> ExprFailed
          [] left.view = right.view \/ ({left.view, right.view} \subseteq none) -> ExprBool(TRUE)
          [] "STRING" \in types -> ExprBool(FALSE)
          [] types = {"INTEGER"} -> ExprBool(left.view = right.view)
          [] types \cap {"BOOLEAN", "NULL"} # {} -> ExprBool(ExprTruth(left) = ExprTruth(right))
          [] left.kind = "node" /\ right.kind = "node" /\ Cardinality(types) = 2 -> ExprBool(FALSE)
          [] (left.kind # "node" \/ right.kind # "node") /\ "INTEGER" \in types -> left
          [] OTHER -> ExprBool(FALSE)

RECURSIVE ExprEvaluate(_, _), ExprEvaluateFrom(_, _, _, _)

\* evaluateExpression: the children of a token from the k-th on; last is lastResult, and what comes
\* before the first child is the root of the document.
ExprEvaluateFrom(children, k, at, last) ==
    LET i     == children[k]
        type  == exprReader.tokens[i].type
        sub(node) == ExprEvaluate(i, node)
        here  == IF k = 1 THEN at ELSE last
        branch == IF ExprTruth(here) \/ k = Len(children) THEN children[k] ELSE children[k + 1]
        next  == CASE type = "LITERAL" -> [kind |-> "literal", node |-> <<>>, view |-> ExprView(i)]
                   [] type = "KEY" -> IF here.kind # "node" THEN ExprFailed ELSE ExprKey(here.node, ExprView(i))
                   [] type = "INDEX" ->
                        LET index == sub(at)
                        IN  IF here.kind = "node" /\ ExprIsIndex(index) THEN ExprIndex(here.node, index.view)
                            ELSE ExprFailed
                   [] type = "NOT" -> ExprBool(sub(last).kind # "failed" /\ ~ExprTruth(sub(last)))
                   [] type = "AND" -> ExprBool(ExprOperandTruth(sub(at)) /\ ExprTruth(here))
                   [] type = "OR"  -> ExprBool(ExprOperandTruth(sub(at)) \/ ExprTruth(here))
                   [] type = "ANY" -> sub(last)
                   [] type = "BOOL" -> ExprEvaluate(branch, at)
                   [] OTHER -> ExprEquals(here, sub(at))
        then  == k + 1 + IF type = "BOOL" /\ ExprTruth(here) THEN 1 ELSE 0
    IN  IF next.kind = "failed" \/ then > Len(children) THEN next
        ELSE ExprEvaluateFrom(children, then, at, next)
ExprEvaluate(i, at) ==
    IF at.kind # "node" THEN ExprFailed
    ELSE ExprEvaluateFrom(ExprChildren(i), 1, at, ExprAt(<<>>))

----------------------------------------------------------------------------
\* Properties

\* What an expression means: a path walks from a node, its indices start again from there; operators
\* go from left to right, none before another; what fails on the left fails.
RECURSIVE ExprMeans(_, _)
ExprMeans(e, node) ==
    CASE e.op = "literal" -> [kind |-> "literal", node |-> <<>>, view |-> e.text]
      [] e.op = "path" ->
            FoldLeft(LAMBDA r, step :
                         CASE r.kind = "failed" -> r
                           [] step.op = "key" -> ExprKey(r.node, step.key)
                           [] OTHER -> LET index == ExprMeans(step, node)
                                       IN  IF ExprIsIndex(index) THEN ExprIndex(r.node, index.view) ELSE ExprFailed,
                     ExprAt(node), e.steps)
      [] e.op = "not" -> ExprBool(~ExprOperandTruth(ExprMeans(e.of, node)))
      [] e.op = "group" -> ExprMeans(e.of, node)
      [] e.op = "if" ->
            LET of == ExprMeans(e.of, node)
            IN  IF of.kind = "failed" THEN of ELSE ExprMeans(IF ExprTruth(of) THEN e.then ELSE e.else, node)
      [] e.op = "chain" ->
            FoldLeft(LAMBDA r, o :
                         LET right == ExprMeans(o.of, node)
                         IN  CASE r.kind = "failed" -> r
                               [] o.operator = "&&" -> ExprBool(ExprTruth(r) /\ ExprOperandTruth(right))
                               [] o.operator = "||" -> ExprBool(ExprTruth(r) \/ ExprOperandTruth(right))
                               [] OTHER -> ExprEquals(r, right),
                     ExprMeans(e.first, node), e.rest)

ExprTypeOK ==
    /\ exprReader.current \in 0..Len(exprReader.tokens) /\ exprReader.nest \in 0..Len(exprReader.tokens)
    /\ \A i \in DOMAIN exprReader.tokens : exprReader.tokens[i].parent \in 0..i - 1

\* The text of an expression is read without error, every term that was opened is closed by its end,
\* and its evaluation is what the expression means.
ExpressionsMeanWhatTheySay ==
    ExprRead =>
        /\ ~exprReader.failed /\ exprReader.nest = 0
        /\ ExprEvaluate(1, ExprAt(exprAsked.at)) = ExprMeans(exprAsked.of, exprAsked.at)
=============================================================================
