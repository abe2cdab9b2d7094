----------------------------- MODULE Expression -----------------------------
(***************************************************************************)
(* The expression engine of internal/workflow/expression over token        *)
(* sequences: the recursive-descent parser, the evaluator, and the         *)
(* conditions of `if:`.  The lexer, and functions that build or search     *)
(* strings, are left out; the comparisons are in Comparison.               *)
(*                                                                         *)
(* Tokens and nodes, like values, are tuples headed by their kind.         *)
(***************************************************************************)
EXTENDS Comparison, FiniteSets, TLC

CONSTANTS
  Within,    \* the pairs <<s, t>> of lower-case strings such that t occurs in s
  EndsIn,    \* the pairs <<s, t>> of such strings, identifiers, such that s ends in t
  LexOf      \* [string -> its tokens], for the strings a template renders

-----------------------------------------------------------------------------
(***************************************************************************)
(* The parser.  Each function takes the tokens and a position and gives    *)
(* <<TRUE, node, next position>>, or Fail.                                 *)
(***************************************************************************)
Punct(t) == <<"punct", t>>
Fail == <<FALSE, <<>>, 0>>

cur(toks, pos) == IF pos <= Len(toks) THEN toks[pos] ELSE <<"eof", "">>

match(toks, pos, text) == cur(toks, pos) = Punct(text)

RECURSIVE parseBinary(_, _, _), BinaryRest(_, _, _), parseUnary(_, _), parsePostfix(_, _),
          PostfixRest(_, _), parsePrimary(_, _), Arguments(_, _, _)

(***************************************************************************)
(* parseOr, parseAnd and parseCompare are one function of the level, with  *)
(* the operators of each; their loops "for match(op)" are left-associative.*)
(***************************************************************************)
OperatorsAt == <<{"||"}, {"&&"}, {"==", "!=", "<", "<=", ">", ">="}>>

Binary(op, l, r) == IF Ok(r) THEN <<TRUE, <<"bin", op, l[2], r[2]>>, r[3]>> ELSE Fail

parseBinary(level, toks, pos) ==
  IF level > Len(OperatorsAt) THEN parseUnary(toks, pos)
  ELSE BinaryRest(level, toks, parseBinary(level + 1, toks, pos))

BinaryRest_ToTheRight(level, toks, left) ==
  IF Ok(left) /\ \E op \in OperatorsAt[level] : match(toks, left[3], op)
  THEN Binary(toks[left[3]][2], left, parseBinary(level, toks, left[3] + 1))
  ELSE left

BinaryRest(level, toks, left) ==
  IF Ok(left) /\ \E op \in OperatorsAt[level] : match(toks, left[3], op)
  THEN BinaryRest(level, toks, Binary(toks[left[3]][2], left, parseBinary(level + 1, toks, left[3] + 1)))
  ELSE left

parseOr(toks, pos) == parseBinary(1, toks, pos)

Not(x) == IF Ok(x) THEN <<TRUE, <<"not", x[2]>>, x[3]>> ELSE Fail

parseUnary(toks, pos) ==
  IF match(toks, pos, "!") THEN Not(parseUnary(toks, pos + 1)) ELSE parsePostfix(toks, pos)

parsePostfix(toks, pos) == PostfixRest(toks, parsePrimary(toks, pos))

(***************************************************************************)
(* a.b, where b is parsed as a primary and must come out as an identifier  *)
(* or a number, and a[i].                                                  *)
(***************************************************************************)
Property(x, p) ==
  IF Ok(p) /\ p[2][1] = "id" THEN <<TRUE, <<"member", x[2], <<"lit", StrOf(p[2][2])>>>>, p[3]>>
  ELSE IF Ok(p) /\ p[2][1] = "lit" /\ Kind(p[2][2]) = "num" THEN <<TRUE, <<"member", x[2], p[2]>>, p[3]>>
  ELSE Fail

Index(toks, x, i) ==
  IF Ok(i) /\ match(toks, i[3], "]") THEN <<TRUE, <<"member", x[2], i[2]>>, i[3] + 1>> ELSE Fail

PostfixRest(toks, x) ==
  IF Ok(x) /\ match(toks, x[3], ".")
  THEN PostfixRest(toks, Property(x, parsePrimary(toks, x[3] + 1)))
  ELSE IF Ok(x) /\ match(toks, x[3], "[")
  THEN PostfixRest(toks, Index(toks, x, parseOr(toks, x[3] + 1)))
  ELSE x

Word(w) ==
  CASE w = "null"  -> <<"lit", Null>>
    [] w = "true"  -> <<"lit", BoolOf(TRUE)>>
    [] w = "false" -> <<"lit", BoolOf(FALSE)>>
    [] OTHER       -> <<"id", w>>

Call(name, args) == IF Ok(args) THEN <<TRUE, <<"call", name, args[2]>>, args[3]>> ELSE Fail

Paren(toks, r) == IF Ok(r) /\ match(toks, r[3], ")") THEN <<TRUE, r[2], r[3] + 1>> ELSE Fail

parsePrimary(toks, pos) ==
  LET t == cur(toks, pos)
  IN  CASE t[1] \in {"num", "str"} -> <<TRUE, <<"lit", t>>, pos + 1>>
        [] t[1] = "id" ->
             IF Word(t[2])[1] = "lit" \/ ~match(toks, pos + 1, "(")
             THEN <<TRUE, Word(t[2]), pos + 1>>
             ELSE Call(t[2], IF match(toks, pos + 2, ")") THEN <<TRUE, <<>>, pos + 3>>
                             ELSE Arguments(toks, <<>>, parseOr(toks, pos + 2)))
        [] t = Punct("(") -> Paren(toks, parseOr(toks, pos + 1))
        [] OTHER -> Fail

Arguments(toks, args, r) ==
  IF Ok(r) /\ match(toks, r[3], ",") THEN Arguments(toks, Append(args, r[2]), parseOr(toks, r[3] + 1))
  ELSE IF Ok(r) /\ match(toks, r[3], ")") THEN <<TRUE, Append(args, r[2]), r[3] + 1>>
  ELSE Fail

Whole(toks, r) == IF Ok(r) /\ cur(toks, r[3])[1] = "eof" THEN r ELSE Fail

parse(toks) == Whole(toks, parseOr(toks, 1))

-----------------------------------------------------------------------------
(***************************************************************************)
(* Display strings: what the constant String of Comparison stands for.     *)
(***************************************************************************)
RECURSIVE Display(_), Joined(_)

Joined(parts) ==
  IF parts = <<>> THEN "" ELSE IF Len(parts) = 1 THEN parts[1]
  ELSE parts[1] \o "," \o Joined(Tail(parts))

Display(v) ==
  CASE Kind(v) = "null" -> ""
    [] Kind(v) = "bool" -> IF v[2] THEN "true" ELSE "false"
    [] Kind(v) = "num"  -> IF v[2] = NaN THEN "NaN" ELSE ToString(v[2])
    [] Kind(v) = "str"  -> v[2]
    [] Kind(v) = "arr"  -> Joined([i \in 1..Len(v[2]) |-> Display(v[2][i])])
    [] Kind(v) = "obj"  ->
         LET K    == DOMAIN v[2]
             keys == CHOOSE q \in [1..Cardinality(K) -> K] :
                       \A i, j \in DOMAIN q : i < j => RankOf(q[i]) < RankOf(q[j])
         IN  Joined([i \in DOMAIN keys |-> keys[i] \o "=" \o Display(v[2][keys[i]])])

-----------------------------------------------------------------------------
(***************************************************************************)
(* The evaluator, in an environment that maps the lower-case names of its  *)
(* contexts to values: <<TRUE, value>>, or <<FALSE, reason>>.              *)
(***************************************************************************)
objKey(obj, key) ==
  IF key \in DOMAIN obj THEN obj[key]
  ELSE LET same == {k \in DOMAIN obj : EqualFold(k, key)}
       IN  IF same = {} THEN Null ELSE obj[CHOOSE k \in same : TRUE]

Member(obj, prop) ==
  IF Kind(obj) = "obj" /\ Kind(prop) = "str" THEN objKey(obj[2], prop[2])
  ELSE IF Kind(obj) = "arr" /\ Kind(prop) = "num" /\ prop[2] \in 0..Len(obj[2]) - 1
  THEN obj[2][prop[2] + 1]
  ELSE Null

jobStatus(env) == IF "__jobstatus" \in DOMAIN env THEN env["__jobstatus"][2] ELSE "success"

StatusFunctions == {"success", "failure", "cancelled", "always"}

Contains(args) ==
  IF Kind(args[1]) = "arr" THEN \E i \in 1..Len(args[1][2]) : looseEqual(args[1][2][i], args[2])
  ELSE <<ToLower(String(args[1])), ToLower(String(args[2]))>> \in Within

Apply(name, args, env) ==
  CASE name = "always" -> <<TRUE, BoolOf(TRUE)>>
    [] name \in StatusFunctions \ {"always"} -> <<TRUE, BoolOf(jobStatus(env) = name)>>
    [] name = "contains" -> IF Len(args) = 2 THEN <<TRUE, BoolOf(Contains(args))>> ELSE <<FALSE, "arity">>
    [] OTHER -> <<FALSE, "unsupported">>

RECURSIVE evalNode(_, _), EvalArgs(_, _, _)

evalNode(n, env) ==
  CASE n[1] = "lit" -> <<TRUE, n[2]>>
    [] n[1] = "id" ->
         IF ToLower(n[2]) \in DOMAIN env THEN <<TRUE, env[ToLower(n[2])]>> ELSE <<FALSE, "unavailable">>
    [] n[1] = "not" ->
         LET x == evalNode(n[2], env) IN IF Ok(x) THEN <<TRUE, BoolOf(~Truthy(x[2]))>> ELSE x
    [] n[1] = "member" ->
         LET o == evalNode(n[2], env)
             p == evalNode(n[3], env)
         IN  IF ~Ok(o) THEN o ELSE IF ~Ok(p) THEN p ELSE <<TRUE, Member(o[2], p[2])>>
    [] n[1] = "bin" ->
         LET l == evalNode(n[3], env)
             r == evalNode(n[4], env)
         IN  IF ~Ok(l) \/ (n[2] = "&&" /\ ~Truthy(l[2])) \/ (n[2] = "||" /\ Truthy(l[2])) THEN l
             ELSE IF ~Ok(r) \/ n[2] \in {"&&", "||"} THEN r
             ELSE <<TRUE, BoolOf(Compared(n[2], l[2], r[2]))>>
    [] n[1] = "call" ->
         IF ToLower(n[2]) \notin StatusFunctions \cup {"contains"} THEN <<FALSE, "unsupported">>
         ELSE LET a == EvalArgs(n[3], <<>>, env)
              IN  IF Ok(a) THEN Apply(ToLower(n[2]), a[2], env) ELSE a

EvalArgs(nodes, done, env) ==
  IF nodes = <<>> THEN <<TRUE, done>>
  ELSE LET v == evalNode(nodes[1], env)
       IN  IF Ok(v) THEN EvalArgs(Tail(nodes), Append(done, v[2]), env) ELSE v

Eval(toks, env) ==
  LET r == parse(toks) IN IF Ok(r) THEN evalNode(r[2], env) ELSE <<FALSE, "parse">>

-----------------------------------------------------------------------------
(***************************************************************************)
(* Conditions.  raw is [template |-> whether it is one ${{ }}, toks |->    *)
(* the tokens of the expression].  The checks for a status function and    *)
(* for `needs.` and `job.` search the text: in quoted strings too, and at  *)
(* the end of a longer identifier (`myjob.`).                              *)
(***************************************************************************)
Mentions(toks, name, punct) ==
  \E i \in DOMAIN toks :
    \/ /\ toks[i][1] = "id" /\ match(toks, i + 1, punct)
       /\ ToLower(toks[i][2]) = name \/ <<ToLower(toks[i][2]), name>> \in EndsIn
    \/ toks[i][1] = "str" /\ <<ToLower(toks[i][2]), name \o punct>> \in Within

mentionsStatusFunction(toks) == \E fn \in StatusFunctions : Mentions(toks, fn, "(")

StatusAware(toks) ==
  mentionsStatusFunction(toks) \/ \E ctx \in {"needs", "job"} : Mentions(toks, ctx, ".")

Guarded(toks) ==
  <<<<"id", "success">>, Punct("("), Punct(")"), Punct("&&"), Punct("(")>> \o toks \o <<Punct(")")>>

(***************************************************************************)
(* The tokens that are evaluated in the end: those of the rendered text of *)
(* a template, or the condition, guarded unless it is aware of statuses.   *)
(***************************************************************************)
Expanded_Unguarded(raw, env) ==
  IF raw.template
  THEN LET v == Eval(raw.toks, env) IN IF Ok(v) THEN <<TRUE, LexOf[String(v[2])]>> ELSE v
  ELSE <<TRUE, raw.toks>>

Expanded(raw, env) ==
  IF raw.template
  THEN LET v == Eval(raw.toks, env) IN IF Ok(v) THEN <<TRUE, LexOf[String(v[2])]>> ELSE v
  ELSE <<TRUE, IF raw.toks = <<>> \/ StatusAware(raw.toks) THEN raw.toks ELSE Guarded(raw.toks)>>

EvaluateCondition(raw, env) ==
  LET e == Expanded(raw, env)
      v == Eval(e[2], env)
  IN  IF ~Ok(e) THEN e
      ELSE IF e[2] = <<>> THEN <<TRUE, TRUE>>
      ELSE IF Ok(v) THEN <<TRUE, Truthy(v[2])>> ELSE v

=============================================================================
