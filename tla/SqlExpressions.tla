--------------------------- MODULE SqlExpressions ---------------------------
(***************************************************************************)
(* Expressions and predicates of the query builder as trees, and the text  *)
(* they are compiled to as a sequence of tokens.                           *)
(*                                                                         *)
(* Expression and Predicate of the code wrap a node and unwrap it whenever *)
(* it becomes part of another; the wrappers are left out.  Identifiers and *)
(* aliases are numbers, because their order matters; 0 is no alias.        *)
(***************************************************************************)
EXTENDS GoSlices, SequencesExt

\* core.TableRef: cte is the reference of a common table expression or 0.
TableRef(name, alias, cte) == [name |-> name, alias |-> alias, cte |-> cte]
SQLName(t) == IF t.alias = 0 THEN t.name ELSE t.alias

-----------------------------------------------------------------------------
(* Nodes.                                                                  *)

Column(t, name)     == [k |-> "column", table |-> t, name |-> name]
Param(v)            == [k |-> "param", value |-> v]
Literal(v)          == [k |-> "literal", value |-> v]
Star                == [k |-> "star"]
Default             == [k |-> "default"]
Binary(op, a, b)    == [k |-> "binary", op |-> op, a |-> a, b |-> b]
Compare(op, a, b)   == [k |-> "compare", op |-> op, a |-> a, b |-> b]
IsNull(a)           == Compare("IS", a, Literal("NULL"))
Logical(op, ps)     == [k |-> "logical", op |-> op, ps |-> ps]
Function(name, as)  == [k |-> "function", name |-> name, args |-> as]
Distinct(a)         == [k |-> "distinct", a |-> a]
Alias(a, name)      == [k |-> "alias", a |-> a, name |-> name]
Order(a, dir, nulls) == [k |-> "order", a |-> a, direction |-> dir, nulls |-> nulls]

\* Predicates and When of the options: a predicate is left out if its condition
\* does not hold.
When(condition, p) == [condition |-> condition, predicate |-> p]
Chosen(options) ==
  LET kept == SelectSeq(options, LAMBDA o : o.condition)
  IN  [i \in DOMAIN kept |-> kept[i].predicate]

\* A window: frame is a sequence of words.
Over(a, partition, order, frame) ==
  [k |-> "over", a |-> a, partitionBy |-> partition, orderBy |-> order, frame |-> frame]

\* The nodes below a node, in the order in which they are written.
Children(e) ==
  CASE e.k \in {"binary", "compare"}         -> <<e.a, e.b>>
    [] e.k = "logical"                       -> e.ps
    [] e.k = "function"                      -> e.args
    [] e.k \in {"distinct", "alias", "order"} -> <<e.a>>
    [] e.k = "over"                          -> <<e.a>> \o e.partitionBy \o e.orderBy
    [] OTHER                                 -> <<>>

\* Mutant of TablesOf: what a window is over is forgotten.
RECURSIVE TablesWithoutWindow(_)
TablesWithoutWindow(e) ==
  IF e.k = "column" THEN {e.table}
  ELSE IF e.k = "over" THEN TablesWithoutWindow(e.a)
  ELSE UNION {TablesWithoutWindow(c) : c \in ToSet(Children(e))}

\* Selecter.Tables
RECURSIVE TablesOf(_)
TablesOf(e) ==
  IF e.k = "column" THEN {e.table} ELSE UNION {TablesOf(c) : c \in ToSet(Children(e))}

-----------------------------------------------------------------------------
(* Compiling: a node becomes a sequence of tokens and of nodes that are    *)
(* compiled in their turn.  A piece is a tuple that starts with its kind.  *)

Sym(s)   == <<"sym", s>>
Id(name) == <<"id", name>>
Node(e)  == <<"node", e>>

InParentheses(pieces) == <<Sym("(")>> \o pieces \o <<Sym(")")>>

\* CompileList
Separated(pieces, separator) ==
  FlattenSeq([i \in 1 .. Len(pieces) |->
                IF i = 1 THEN <<pieces[i]>> ELSE <<Sym(separator), pieces[i]>>])

NodeList(es, separator) == Separated([i \in 1 .. Len(es) |-> Node(es[i])], separator)

\* Words and a list after them, if there is any.
Clause(words, es) ==
  IF es = <<>> THEN <<>> ELSE <<Sym(words)>> \o NodeList(es, ",")

PrecedenceOr == 1
PrecedenceAnd == 2
PrecedenceComparison == 3
PrecedenceAdditive == 4
PrecedenceMultiplicative == 5

\* Nodes without a precedence are never put in parentheses.
Precedence(e) ==
  CASE e.k = "logical" /\ e.op = "OR"           -> PrecedenceOr
    [] e.k = "logical" /\ e.op = "AND"          -> PrecedenceAnd
    [] e.k = "compare"                          -> PrecedenceComparison
    [] e.k = "binary" /\ e.op \in {"+", "-"}      -> PrecedenceAdditive
    [] e.k = "binary" /\ e.op \in {"*", "/", "%"} -> PrecedenceMultiplicative
    [] OTHER                                    -> PrecedenceMultiplicative + 1

\* Mutant of ParenthesizeRightPeer: only subtraction is told apart.
OnlyMinusIsAPeer(op) == op = "-"

ParenthesizeRightPeer(op) == op \in {"-", "/", "%"}

\* compileChild
Child(e, parent, peers) ==
  IF Precedence(e) < parent \/ (peers /\ Precedence(e) = parent)
  THEN <<Sym("("), Node(e), Sym(")")>>
  ELSE <<Node(e)>>

\* Mutant of LogicalPieces: what is combined is never put in parentheses.
BareLogicalPieces(e) == NodeList(e.ps, e.op)

LogicalPieces(e) ==
  FlattenSeq([i \in 1 .. Len(e.ps) |->
                (IF i = 1 THEN <<>> ELSE <<Sym(e.op)>>) \o Child(e.ps[i], Precedence(e), FALSE)])

\* compilePredicates, of WHERE and HAVING
PredicatesPieces(ps) ==
  IF Len(ps) = 1 THEN <<Node(ps[1])>> ELSE LogicalPieces(Logical("AND", ps))

\* compileAnyPredicates, of a join
JoinPredicatesPieces(ps) == NodeList(ps, "AND")

\* compileWindowSpec, compileWindowFrame
WindowPieces(e) ==
  <<Sym("(")>> \o Clause("PARTITION BY", e.partitionBy) \o Clause("ORDER BY", e.orderBy)
    \o [i \in 1 .. Len(e.frame) |-> Sym(e.frame[i])] \o <<Sym(")")>>

\* compileColumn: the qualified name is one token.
ColumnToken(e) == <<"column", SQLName(e.table), e.name>>

\* compileExpressionNode, compilePredicateNode, compileWindowNode
ExpressionPieces(e) ==
  CASE e.k = "column"   -> <<ColumnToken(e)>>
    [] e.k = "param"    -> <<<<"arg", e.value>>>>
    [] e.k = "literal"  -> <<<<"literal", e.value>>>>
    [] e.k = "star"     -> <<Sym("*")>>
    [] e.k = "default"  -> <<Sym("DEFAULT")>>
    [] e.k = "alias"    -> <<Node(e.a), Sym("AS"), Id(e.name)>>
    [] e.k = "distinct" -> <<Sym("DISTINCT"), Node(e.a)>>
    [] e.k = "function" -> <<Sym(e.name), Sym("(")>> \o NodeList(e.args, ",") \o <<Sym(")")>>
    [] e.k = "over"     -> <<Node(e.a), Sym("OVER")>> \o WindowPieces(e)
    [] e.k = "logical"  -> LogicalPieces(e)
    [] e.k = "compare"  -> Child(e.a, Precedence(e), FALSE) \o <<Sym(e.op)>>
                             \o Child(e.b, Precedence(e), FALSE)
    [] e.k = "binary"   -> Child(e.a, Precedence(e), FALSE) \o <<Sym(e.op)>>
                             \o Child(e.b, Precedence(e), ParenthesizeRightPeer(e.op))
=============================================================================
