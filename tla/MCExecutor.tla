----------------------------- MODULE MCExecutor -----------------------------
(***************************************************************************)
(* Instances of Executor, with the conditions of Expression: the plans of  *)
(* up to three steps over steps that differ in what the loop tells apart.  *)
(***************************************************************************)
EXTENDS Executor, Expression

Id(w) == <<"id", w>>
If(toks) == [template |-> FALSE, toks |-> toks]

(***************************************************************************)
(* The conditions: none; on the outcome of the first step, in another case *)
(* than its; on the status of the job; always; and one that is an error.   *)
(***************************************************************************)
NoCond == If(<<>>)
FirstFailed == If(<<Id("steps"), Punct("."), Id("s1"), Punct("."), Id("Outcome"),
                    Punct("=="), <<"str", "Failure">>>>)
JobFine == If(<<Id("job"), Punct("."), Id("status"), Punct("=="), <<"str", "success">>>>)
Failing == If(<<Id("failure"), Punct("("), Punct(")")>>)
Unknown == If(<<Id("secrets"), Punct("."), Id("s1")>>)
Rendered == [template |-> TRUE, toks |-> <<Id("always"), Punct("("), Punct(")")>>]

Step(kind, cond, coe, renders) ==
  [kind |-> kind, cond |-> cond, continueOnError |-> coe, renders |-> renders]

First == {Step("run", NoCond, coe, TRUE) : coe \in BOOLEAN}
         \cup {Step("js", Rendered, TRUE, TRUE), Step("builtin", NoCond, FALSE, FALSE)}
Later == {Step("run", c, FALSE, TRUE) : c \in {NoCond, FirstFailed, JobFine, Failing, Unknown}}
         \cup {Step("builtin", NoCond, TRUE, TRUE), Step("js", FirstFailed, FALSE, TRUE),
               Step("composite", NoCond, FALSE, TRUE), Step("run", NoCond, TRUE, FALSE)}

IDs == <<"s1", "s2", "s3">>
Plan(ss) == [envOk |-> TRUE, secrets |-> FALSE,
             steps |-> [i \in DOMAIN ss |-> [id |-> IDs[i]] @@ ss[i]]]

MCPlans ==
  {Plan(<<>>), [Plan(<<Step("run", NoCond, FALSE, TRUE)>>) EXCEPT !.envOk = FALSE],
   [Plan(<<Step("run", NoCond, FALSE, TRUE)>>) EXCEPT !.secrets = TRUE]}
  \cup {Plan(<<a, b>>) : a \in First, b \in Later}
  \cup {Plan(<<a, b, c>>) : a \in First, b \in Later, c \in Later}

MCLower == [s \in {"Outcome", "Failure"} |-> IF s = "Outcome" THEN "outcome" ELSE "failure"]
MCNumberOf == [s \in {"1", "NaN"} |-> IF s = "1" THEN 1 ELSE NaN]
MCAlphabet == <<"", "1", "NaN", "failure", "outcome", "skipped", "success">>
MCWithin == {}
MCEndsIn == {<<"myjob", "job">>}
MCOperands ==
  {Null, ArrOf(<<NumOf(1)>>), ObjOf([outcome |-> NumOf(1)])} \cup {BoolOf(b) : b \in BOOLEAN}
  \cup {NumOf(n) : n \in {0, 1, NaN}} \cup {StrOf(s) : s \in {"", "1", "NaN", "Failure", "failure", "Outcome"}}
MCLexOf == [s \in {"true"} |-> <<Id("true")>>]

-----------------------------------------------------------------------------
(***************************************************************************)
(* The expression engine by itself, over all sentences of up to six tokens *)
(* of a small vocabulary.  The statements do not depend on the state, and  *)
(* are evaluated in the initial one.                                       *)
(***************************************************************************)
Operators == {"||", "&&", "=="}
Operand(t) == t[1] = "id"
Vocabulary == {Id("yes"), Punct("!")} \cup {Punct(o) : o \in Operators}
Sentences == UNION {[1..n -> Vocabulary] : n \in 1..6}

WellFormed(s) ==
  /\ Operand(s[Len(s)])
  /\ \A i \in DOMAIN s : (Operand(s[i]) \/ s[i] = Punct("!")) <=> (i = 1 \/ ~Operand(s[i - 1]))

Precedence(n) ==
  CASE n[1] = "bin" -> (CASE n[2] = "||" -> 1 [] n[2] = "&&" -> 2 [] OTHER -> 3)
    [] n[1] = "not" -> 4
    [] OTHER        -> 5

RECURSIVE Printed(_, _)

(* The text of a tree, with parentheses only where it binds too loosely.   *)
Printed(n, least) ==
  LET p    == Precedence(n)
      text == CASE n[1] = "bin" -> Printed(n[3], p) \o <<Punct(n[2])>> \o Printed(n[4], p + 1)
                [] n[1] = "not" -> <<Punct("!")>> \o Printed(n[2], 4)
                [] OTHER        -> <<n>>
  IN  IF p < least THEN <<Punct("(")>> \o text \o <<Punct(")")>> ELSE text

(***************************************************************************)
(* The parser accepts exactly the well-formed sentences, and the tree of   *)
(* one means it: printed, it needs no parentheses the sentence does not    *)
(* have, so precedence and association are those of the grammar (parseOr   *)
(* to parsePrimary).                                                       *)
(***************************************************************************)
ParserFaithful ==
  pc = "off" =>
    \A s \in Sentences : LET r == parse(s) IN IF WellFormed(s) THEN Ok(r) /\ Printed(r[2], 1) = s ELSE ~Ok(r)

(***************************************************************************)
(* A condition that names no status is guarded by the job's: it holds when *)
(* the job is a success and the condition holds, and in no other case,     *)
(* however its operators would bind with the guard (EvaluateCondition).    *)
(***************************************************************************)
StatusGuarded ==
  pc = "off" =>
    \A s \in {x \in Sentences : WellFormed(x)}, yes \in BOOLEAN, status \in {"success", "failure", "cancelled"} :
      LET env == [yes |-> BoolOf(yes), __jobstatus |-> StrOf(status)]
      IN  EvaluateCondition(If(s), env) = <<TRUE, status = "success" /\ Truthy(Eval(s, env)[2])>>

=============================================================================
