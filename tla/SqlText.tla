------------------------------ MODULE SqlText -------------------------------
(***************************************************************************)
(* How a database reads the text that a statement was compiled to: its     *)
(* clauses, the tables it lists, the common table expressions it declares, *)
(* and its conditions as trees.  Nothing here is in the code; the          *)
(* properties of Statements compare what is read with what was built.      *)
(***************************************************************************)
EXTENDS SqlExpressions

\* The words that begin a clause.
ClauseWords ==
  {"WITH", "WITH RECURSIVE", "SELECT", "FROM", "WHERE", "GROUP BY", "HAVING", "ORDER BY", "LIMIT",
   "OFFSET", "FETCH FIRST", "UPDATE", "SET", "DELETE", "DELETE FROM", "USING", "INSERT INTO",
   "RETURNING", "ON", "JOIN", "LEFT JOIN", "FULL JOIN", "CROSS JOIN"}

Deeper(depth, token) ==
  CASE token = Sym("(") -> depth + 1
    [] token = Sym(")") -> depth - 1
    [] OTHER -> depth

\* The tokens of the clauses that begin with one of the words, without these.
RECURSIVE Scan(_, _, _, _)
Scan(tokens, words, depth, inside) ==
  IF tokens = <<>> THEN <<>>
  ELSE LET t    == Head(tokens)
           begins(ws) == depth = 0 /\ t[1] = "sym" /\ t[2] \in ws
           rest(in) == Scan(Tail(tokens), words, Deeper(depth, t), in)
       IN  IF begins(ClauseWords) THEN rest(begins(words))
           ELSE IF inside THEN <<t>> \o rest(TRUE)
           ELSE rest(FALSE)

Section(tokens, words) == Scan(tokens, words, 0, FALSE)

\* The tokens outside parentheses.
RECURSIVE TopLevel(_, _)
TopLevel(tokens, depth) ==
  IF tokens = <<>> THEN <<>>
  ELSE LET t    == Head(tokens)
           rest == TopLevel(Tail(tokens), Deeper(depth, t))
       IN  IF depth = 0 /\ Deeper(0, t) = 0 THEN <<t>> \o rest ELSE rest

\* The names by which the tables of a list of tables are known: the alias of
\* those that have one.
Listed(tokens) ==
  LET known(i) == /\ tokens[i][1] = "id"
                  /\ ~(i < Len(tokens) /\ tokens[i + 1] = Sym("AS"))
      at == SelectSeq([i \in DOMAIN tokens |-> i], known)
  IN  [k \in DOMAIN at |-> tokens[at[k]][2]]

\* The tables that columns name, outside a WITH clause.
TablesNamed(text) ==
  LET tokens == Section(text, ClauseWords \ {"WITH", "WITH RECURSIVE"})
  IN  {tokens[i][2] : i \in {j \in DOMAIN tokens : tokens[j][1] = "column"}}

\* The names that a WITH clause declares, in order.
DeclaredNames(text) ==
  LET tokens == TopLevel(Section(text, {"WITH", "WITH RECURSIVE"}), 0)
      names  == SelectSeq(tokens, LAMBDA t : t[1] = "id")
  IN  [i \in DOMAIN names |-> names[i][2]]

\* The number after a word, 0 without one.
NumberAfter(tokens, word) ==
  LET at == {i \in DOMAIN tokens : tokens[i] = Sym(word)}
  IN  IF at = {} \/ tokens[Max(at) + 1][1] # "number" THEN 0 ELSE tokens[Max(at) + 1][2]

\* The limit and the offset that a text ends with, in a dialect.
PageOf(d, text) ==
  LET tokens == TopLevel(text, 0)
      comma  == {i \in DOMAIN tokens : i > 2 /\ tokens[i] = Sym(",") /\ tokens[i - 2] = Sym("LIMIT")}
  IN  IF d = "mysql" /\ comma # {}
      THEN [limit |-> tokens[Max(comma) + 1][2], offset |-> NumberAfter(tokens, "LIMIT")]
      ELSE [limit  |-> Max({NumberAfter(tokens, w) : w \in {"LIMIT", "ROWS FETCH NEXT", "FETCH FIRST"}}),
            offset |-> NumberAfter(tokens, "OFFSET")]

-----------------------------------------------------------------------------
(* Conditions.  Operators of one precedence are taken from the left, those *)
(* of comparison not in chains.                                            *)

Operators == <<{"OR"}, {"AND"}, {"=", "<", "LIKE", "IS"}, {"+", "-"}, {"*", "/"}>>

Unreadable == [k |-> "unreadable"]

\* The place of the last operator of a level that is outside parentheses, 0
\* without one.
RECURSIVE LastOf(_, _, _, _)
LastOf(tokens, level, i, depth) ==
  IF i = 0 THEN 0
  ELSE IF depth = 0 /\ tokens[i][1] = "sym" /\ tokens[i][2] \in Operators[level] THEN i
  ELSE LastOf(tokens, level, i - 1, Deeper(depth, tokens[i]))

\* The tree of a text.
RECURSIVE Read(_, _)
Read(tokens, level) ==
  LET n    == Len(tokens)
      i    == LastOf(tokens, level, n, 0)
      left == Read(SubSeq(tokens, 1, i - 1),
                   IF level = PrecedenceComparison THEN level + 1 ELSE level)
      right == Read(SubSeq(tokens, i + 1, n), level + 1)
  IN  IF n = 0 THEN Unreadable
      ELSE IF level > PrecedenceMultiplicative
      THEN IF n = 1 THEN [k |-> "atom", token |-> tokens[1]]
           ELSE IF tokens[1] = Sym("(") /\ tokens[n] = Sym(")")
           THEN Read(SubSeq(tokens, 2, n - 1), PrecedenceOr)
           ELSE IF tokens[1][1] = "sym" /\ tokens[2] = Sym("(") /\ tokens[n] = Sym(")")
           THEN [k |-> "call", of |-> Read(SubSeq(tokens, 3, n - 1), PrecedenceOr)]
           ELSE Unreadable
      ELSE IF i = 0 THEN Read(tokens, level + 1)
      ELSE [k |-> "operation", op |-> tokens[i][2], a |-> left, b |-> right]

\* What a condition means: a comparison is kept as it is, of the values of its
\* sides, and AND and OR as the set of what they combine.
Combined(op, x, y) ==
  LET inside(z) == IF z[1] = op THEN z[2] ELSE {z}
  IN  CASE op \in {"OR", "AND"} -> <<op, inside(x) \cup inside(y)>>
        [] op \in Operators[PrecedenceComparison] -> <<op, x, y>>
        [] op = "+" -> x + y
        [] op = "-" -> x - y
        [] op = "*" -> x * y
        [] op = "/" -> IF y = 0 THEN 0 ELSE x \div y

\* What a function returns, whichever it is.
Result(x) == 7 - x

\* What was built means, and what is read means, when env gives the columns
\* their values.
RECURSIVE BuiltMeaning(_, _)
BuiltMeaning(e, env) ==
  CASE e.k = "column"               -> env[e.name]
    [] e.k \in {"param", "literal", "raw"} -> e.value
    [] e.k = "logical"              ->
         LET join(acc, p) == Combined(e.op, acc, BuiltMeaning(p, env))
         IN  FoldLeft(join, BuiltMeaning(Head(e.ps), env), Tail(e.ps))
    [] e.k \in {"binary", "compare"} ->
         Combined(e.op, BuiltMeaning(e.a, env), BuiltMeaning(e.b, env))
    [] e.k = "function"             -> Result(BuiltMeaning(e.args[1], env))

RECURSIVE ReadMeaning(_, _)
ReadMeaning(r, env) ==
  CASE r.k = "atom"       -> IF r.token[1] = "column" THEN env[r.token[3]]
                             ELSE IF r.token[1] = "placeholder" THEN r.token[3] ELSE r.token[2]
    [] r.k = "operation"  -> Combined(r.op, ReadMeaning(r.a, env), ReadMeaning(r.b, env))
    [] r.k = "call"       -> Result(ReadMeaning(r.of, env))
    [] r.k = "unreadable" -> <<"unreadable">>

\* What columns may hold, and what a condition means for each of these rows.
Rows == {<<700, 30>>, <<95, 7>>, <<1000, 450>>}

TextMeans(tokens) == [row \in Rows |-> ReadMeaning(Read(tokens, PrecedenceOr), row)]
TreeMeans(e)      == [row \in Rows |-> BuiltMeaning(e, row)]

-----------------------------------------------------------------------------
(* Definitions.                                                            *)

\* The parts of a text between separators, outside parentheses.
RECURSIVE SplitFrom(_, _, _, _)
SplitFrom(tokens, separators, depth, part) ==
  IF tokens = <<>> THEN <<part>>
  ELSE LET t == Head(tokens)
       IN  IF depth = 0 /\ t \in separators THEN <<part>> \o SplitFrom(Tail(tokens), separators, 0, <<>>)
           ELSE SplitFrom(Tail(tokens), separators, Deeper(depth, t), Append(part, t))

Split(tokens, separator) == SplitFrom(tokens, {Sym(separator)}, 0, <<>>)

Says(tokens, word)  == Sym(word) \in ToSet(tokens)
Spot(tokens, word)  == Min({i \in DOMAIN tokens : tokens[i] = Sym(word)} \cup {Len(tokens) + 1})
Until(tokens, word) == SubSeq(tokens, 1, Spot(tokens, word) - 1)
After(tokens, word) == SubSeq(tokens, Spot(tokens, word) + 1, Len(tokens))

\* The words of tokens of one kind, in order, and those of a list that occur.
Named(tokens, kind) ==
  LET found == SelectSeq(tokens, LAMBDA t : t[1] = kind)
  IN  [i \in DOMAIN found |-> found[i][2]]
OneSaid(tokens, words) == IF \E w \in words : Says(tokens, w) THEN CHOOSE w \in words : Says(tokens, w) ELSE ""

\* The tokens in the first parentheses.
RECURSIVE Enclosed(_, _)
Enclosed(tokens, depth) ==
  IF tokens = <<>> THEN <<>>
  ELSE LET deep == Deeper(depth, Head(tokens))
       IN  IF depth > 0 /\ deep = 0 THEN <<>>
           ELSE (IF depth > 0 THEN <<Head(tokens)>> ELSE <<>>) \o Enclosed(Tail(tokens), deep)

\* A column, as its def and its checks.
ReadColumn(tokens) ==
  LET target == Named(After(tokens, "REFERENCES"), "id")
  IN  [def    |-> [name       |-> tokens[1][2],
                   type       |-> tokens[2][2],
                   notNull    |-> Says(tokens, "NOT NULL"),
                   default    |-> IF Says(tokens, "DEFAULT") THEN After(tokens, "DEFAULT")[1][2] ELSE 0,
                   identity   |-> OneSaid(tokens, {"ALWAYS", "BY DEFAULT"}),
                   generated  |-> OneSaid(tokens, {"STORED", "VIRTUAL"}),
                   pk         |-> Says(tokens, "PRIMARY KEY"),
                   uq         |-> Says(tokens, "UNIQUE"),
                   references |-> IF target = <<>> THEN <<>>
                                  ELSE <<[table |-> Head(target), columns |-> Tail(target)]>>],
       checks |-> Named(tokens, "raw")]

\* A constraint after the word CONSTRAINT; its check is what it means.
ReadConstraint(tokens) ==
  LET kind   == tokens[2][2]
      target == Named(After(tokens, "REFERENCES"), "id")
  IN  [kind       |-> kind,
       columns    |-> Tail(Named(Until(tokens, "REFERENCES"), "id")),
       check      |-> IF kind = "CHECK" THEN <<TextMeans(Enclosed(tokens, 0))>> ELSE <<>>,
       ref        |-> IF target = <<>> THEN 0 ELSE Head(target),
       refColumns |-> IF target = <<>> THEN <<>> ELSE Tail(target),
       onDelete   |-> IF Says(tokens, "ON DELETE") THEN After(tokens, "ON DELETE")[1][2] ELSE "",
       name       |-> tokens[1][2]]

\* What a database does for an operation on a column or a constraint:
\* <<what, names>>, or what it adds.  MySQL drops a column for DROP without a
\* word.
ReadOperation(tokens) ==
  LET words == SelectSeq(tokens, LAMBDA t : t[1] = "sym" /\ t[2] \notin {"IF EXISTS", "IF NOT EXISTS", "TO"})
      said  == [i \in DOMAIN words |-> words[i][2]]
      does  == CASE said = <<"DROP">> -> "DROP COLUMN"
                 [] said \in {<<"MODIFY">>, <<"MODIFY COLUMN">>, <<"ALTER COLUMN", "TYPE">>} -> "ALTER TYPE"
                 [] said = <<"MODIFY", "NOT NULL">> -> "SET NOT NULL"
                 [] said = <<"MODIFY", "NULL">> -> "DROP NOT NULL"
                 [] said = <<"MODIFY", "DEFAULT">> -> "SET DEFAULT"
                 [] said = <<"MODIFY", "DEFAULT", "NULL">> -> "DROP DEFAULT"
                 [] said[1] = "ALTER COLUMN" -> said[2]
                 [] OTHER -> said[1]
      column == SelectSeq(Tail(tokens), LAMBDA t : t # Sym("IF NOT EXISTS"))
  IN  CASE said[1] = "ADD COLUMN" -> <<"ADD COLUMN", ReadColumn(column)>>
        [] said[1] = "ADD"        -> <<"ADD CONSTRAINT", ReadConstraint(Tail(Tail(tokens)))>>
        [] OTHER                  -> <<does, Named(tokens, "id")>>

\* The operations that an ALTER TABLE does, each with its table, in order.
\* SQLite has no statement with several.
ReadAlter(d, text) ==
  LET statements == Split(text, ";")
      ops(s) == IF d = "sqlite" THEN <<Tail(Tail(s))>> ELSE Split(Tail(Tail(s)), ",")
      done(s) == [k \in DOMAIN ops(s) |-> <<s[2][2]>> \o ReadOperation(ops(s)[k])]
  IN  FlattenSeq([k \in DOMAIN statements |-> done(statements[k])])

\* A CREATE TABLE.
ReadCreate(text) ==
  LET items  == Split(Enclosed(text, 0), ",")
      keys   == SelectSeq(items, LAMBDA x : Head(x) = Sym("CONSTRAINT"))
      others == SelectSeq(items, LAMBDA x : Head(x) # Sym("CONSTRAINT"))
  IN  [table       |-> Named(text, "id")[1],
       columns     |-> [i \in DOMAIN others |-> ReadColumn(others[i])],
       constraints |-> [i \in DOMAIN keys |-> ReadConstraint(Tail(keys[i]))]]

\* A CREATE INDEX: a key is read if it is a column, or in parentheses.
\* A key is a column, a function or what parentheses hold.
ReadKey(tokens) ==
  LET words == SelectSeq(tokens, LAMBDA t : t[1] = "sym" /\ t[2] \in {"ASC", "DESC", "NULLS FIRST", "NULLS LAST"})
      key   == SubSeq(tokens, 1, Len(tokens) - Len(words))
      plain == Len(key) = 1 \/ Head(key) = Sym("(") \/ (key[1][1] = "sym" /\ key[2] = Sym("("))
  IN  [key   |-> IF plain THEN <<TextMeans(key)>> ELSE <<>>,
       words |-> [i \in DOMAIN words |-> words[i][2]]]

ReadIndex(text) ==
  LET head == Until(text, "ON")
      tail == After(text, "ON")
      keys == Split(Enclosed(tail, 0), ",")
      where == Until(After(tail, "WHERE"), "INVISIBLE")
      rest(word) == Named(Enclosed(After(tail, word), 0), "id")
  IN  [table   |-> tail[1][2],
       name    |-> Named(head, "id")[1],
       says    |-> {w \in {"UNIQUE", "CLUSTERED", "NONCLUSTERED", "CONCURRENTLY", "IF NOT EXISTS",
                           "NULLS NOT DISTINCT", "INVISIBLE"} : Says(text, w)},
       method  |-> IF Says(tail, "USING") THEN After(tail, "USING")[1][2] ELSE "",
       keys    |-> [i \in DOMAIN keys |-> ReadKey(keys[i])],
       include |-> rest("INCLUDE"),
       with    |-> rest("WITH"),
       where   |-> IF where = <<>> THEN <<>> ELSE <<TextMeans(where)>>]

\* What DROP does with what depends on its objects: CASCADE CONSTRAINTS is for
\* the tables of Oracle, SQLite and SQL Server know no such words.
ReadBehavior(d, text) ==
  CASE d \in {"sqlite", "sqlserver"} -> IF OneSaid(text, {"CASCADE", "RESTRICT"}) = "" THEN "" ELSE "unreadable"
    [] d = "oracle" /\ Says(text, "CASCADE CONSTRAINTS") ->
         IF Head(text) = Sym("DROP TABLE") THEN "CASCADE" ELSE "unreadable"
    [] OTHER -> OneSaid(text, {"CASCADE", "RESTRICT"})

ReadDrop(d, text) ==
  [what     |-> Head(text)[2],
   names    |-> Named(Until(text, "ON"), "id"),
   table    |-> Named(After(text, "ON"), "id"),
   says     |-> {w \in {"CONCURRENTLY", "IF EXISTS", "ONLINE"} : Says(text, w)},
   behavior |-> ReadBehavior(d, text)]

\* <<old, new>>
ReadRename(d, text) ==
  LET ids      == Named(text, "id")
      literals == Named(text, "literal")
  IN  CASE d = "mysql"     -> <<ids[2], ids[3]>>
        [] d = "sqlserver" -> <<Last(literals[1]), Last(literals[2])>>
        [] OTHER           -> <<ids[1], ids[2]>>
=============================================================================
