----------------------------- MODULE LunrQuery -----------------------------
(***************************************************************************)
(* The query language of the search box: lunr's QueryLexer, QueryParser    *)
(* and Query.  A lexer is the lexemes it has emitted, the start of the     *)
(* next one, its position, and the escape characters it has passed.        *)
(***************************************************************************)
EXTENDS Languages, TokenSet

Digits == Chars("0123456789")
\* lunr.QueryLexer.termSeparator is set when lunr.js is loaded, to what
\* separates tokens by default.
termSeparator == Chars(" -")

\* sliceString and emit
Emit(l, str, type) ==
  LET letters == [i \in 1..(Lesser(l.pos, Len(str)) - l.start) |-> l.start + i]
  IN [l EXCEPT !.lexemes = Append(@, [type |-> type,
                   str |-> FoldLeft(LAMBDA s, i : IF i \in l.escapes THEN s ELSE s \o At(str, i),
                                    "", letters)]),
               !.start = l.pos, !.escapes = {}]

EmitTerm(l, str) == IF l.pos > l.start THEN Emit(l, str, "TERM") ELSE l
Ignore(l) == [l EXCEPT !.pos = @ + 1, !.start = l.pos + 1]

\* lexEditDistance and lexBoost: all digits that follow.
Number(l, str, type) ==
  LET from == Ignore(l)
      end == Least({i \in from.pos..Len(str) : i = Len(str) \/ At(str, i + 1) \notin Digits})
  IN Emit([from EXCEPT !.pos = end], str, type)

\* lexText, letter by letter, and the state each special letter leads to.
RECURSIVE LexText(_, _)
LexText(l, str) ==
  LET ch == At(str, l.pos + 1)
  IN IF l.pos >= Len(str) THEN EmitTerm(l, str).lexemes
     ELSE LexText(
       CASE ch = "\\" -> [l EXCEPT !.escapes = @ \cup {l.pos + 1}, !.pos = @ + 2]
         [] ch = ":" -> Ignore(Emit(l, str, "FIELD"))
         [] ch = "~" -> Number(EmitTerm(l, str), str, "EDIT_DISTANCE")
         [] ch = "^" -> Number(EmitTerm(l, str), str, "BOOST")
         [] ch \in {"+", "-"} /\ l.pos = l.start -> Emit([l EXCEPT !.pos = @ + 1], str, "PRESENCE")
         [] ch \in termSeparator /\ ~(ch = "-" /\ l.pos = l.start) -> Ignore(EmitTerm(l, str))
         [] OTHER -> [l EXCEPT !.pos = @ + 1],
       str)

Lex(str) == LexText([lexemes |-> <<>>, start |-> 0, pos |-> 0, escapes |-> {}], str)

-----------------------------------------------------------------------------
(* The parser.  A clause has the defaults of lunr.Query.clause until its   *)
(* lexemes say otherwise.                                                  *)

Clause(allFields) == [term |-> "", fields |-> allFields, presence |-> "OPTIONAL", boost |-> 1,
                      usePipeline |-> TRUE, editDistance |-> NoEdits]

\* What may follow a lexeme; the parser throws on anything else.
Follows(type) ==
  CASE type = "none" -> {"PRESENCE", "FIELD", "TERM"}
    [] type = "PRESENCE" -> {"FIELD", "TERM"}
    [] type = "FIELD" -> {"TERM"}
    [] OTHER -> {"PRESENCE", "FIELD", "TERM", "EDIT_DISTANCE", "BOOST"}

\* parseInt
IntOf(str) ==
  LET upTo[n \in 0..Len(str)] ==
        IF n = 0 THEN 0 ELSE 10 * upTo[n - 1] + (Code[At(str, n)] - Code["0"])
  IN upTo[Len(str)]

\* Whether the parser throws at a lexeme after one of some type.
Refuses(lexeme, last, allFields) ==
  \/ lexeme.type \notin Follows(last)
  \/ lexeme.type = "FIELD" /\ lexeme.str \notin ToSet(allFields)
  \/ lexeme.type \in {"EDIT_DISTANCE", "BOOST"} /\ lexeme.str = ""

\* The clause with what a lexeme says of it.
Said(clause, lexeme) ==
  CASE lexeme.type = "PRESENCE" ->
         [clause EXCEPT !.presence = IF lexeme.str = "-" THEN "PROHIBITED" ELSE "REQUIRED"]
    [] lexeme.type = "FIELD" -> [clause EXCEPT !.fields = <<lexeme.str>>]
    [] lexeme.type = "TERM" -> [clause EXCEPT !.term = ToLowerCase(lexeme.str),
                                              !.usePipeline = "*" \notin Chars(lexeme.str)]
    [] lexeme.type = "EDIT_DISTANCE" -> [clause EXCEPT !.editDistance = IntOf(lexeme.str)]
    [] lexeme.type = "BOOST" -> [clause EXCEPT !.boost = IntOf(lexeme.str)]

\* nextClause, when the lexeme begins another clause.
NextClause(p, lexeme, allFields) ==
  IF p.last \in {"TERM", "EDIT_DISTANCE", "BOOST"} /\ lexeme.type \in Follows("none")
  THEN [p EXCEPT !.clauses = Append(@, p.clause), !.clause = Clause(allFields)] ELSE p

\* parse: the clauses, and whether it throws.
Parse(str, allFields) ==
  LET step(p, lexeme) ==
        LET q == NextClause(p, lexeme, allFields)
        IN IF p.last = "thrown" \/ Refuses(lexeme, p.last, allFields)
           THEN [p EXCEPT !.last = "thrown"]
           ELSE [q EXCEPT !.clause = Said(@, lexeme), !.last = lexeme.type]
      end == FoldLeft(step, [clauses |-> <<>>, clause |-> Clause(allFields), last |-> "none"],
                      Lex(str))
  IN [throws |-> end.last \in {"thrown", "PRESENCE", "FIELD"},
      clauses |-> IF end.last = "none" THEN <<>> ELSE Append(end.clauses, end.clause)]

isNegated(clauses) == \A i \in DOMAIN clauses : clauses[i].presence = "PROHIBITED"
=============================================================================
