----------------------------- MODULE Comparison -----------------------------
(***************************************************************************)
(* The comparisons of the expression engine (internal/workflow/expression, *)
(* eval.go and value.go), which coerce their operands.                     *)
(*                                                                         *)
(* A string is one of a small set, of which the constants give what the    *)
(* code asks of it: its lower case, the number it parses to and its place  *)
(* in the order of lower-case strings.  These are strings for which        *)
(* folding the case, as == does, and lower-casing, as < does, agree; they  *)
(* differ for a few letters outside ASCII.                                 *)
(***************************************************************************)
EXTENDS Value, Integers, Sequences

CONSTANTS
  Lower,      \* [string -> its lower case], where that is another one
  NumberOf,   \* [numeric string -> number]
  Alphabet,   \* the lower-case strings, in their order
  String(_),  \* the display string of a value
  Operands    \* the values considered as operands

ToLower(s) == IF s \in DOMAIN Lower THEN Lower[s] ELSE s

ASSUME ComparisonAssumption ==
  /\ NumberOf \in [DOMAIN NumberOf -> Int]
  /\ Len(Alphabet) \in Nat
  /\ \A i, j \in 1..Len(Alphabet) : Alphabet[i] = Alphabet[j] => i = j
  /\ \A v \in Operands :
       CASE Kind(v) = "num"  -> v[2] \in Int
         [] Kind(v) = "bool" -> v[2] \in BOOLEAN
         [] Kind(v) = "str"  -> \E i \in 1..Len(Alphabet) : Alphabet[i] = ToLower(v[2])
         [] OTHER            -> Kind(v) \in {"null", "arr", "obj"}

RankOf(s) == CHOOSE i \in 1..Len(Alphabet) : Alphabet[i] = ToLower(s)

EqualFold(a, b) == ToLower(a) = ToLower(b)

toNumber(v) ==
  CASE Kind(v) = "num"  -> <<TRUE, v[2]>>
    [] Kind(v) = "bool" -> <<TRUE, IF v[2] THEN 1 ELSE 0>>
    [] Kind(v) = "str" /\ v[2] \in DOMAIN NumberOf -> <<TRUE, NumberOf[v[2]]>>
    [] OTHER            -> <<FALSE, 0>>

SameNumber(a, b) == a[1] /\ b[1] /\ a[2] = b[2] /\ a[2] # NaN

looseEqual_CaseSensitive(l, r) ==
  IF Kind(l) = "str" /\ Kind(r) = "str" THEN l[2] = r[2]
  ELSE IF "num" \in {Kind(l), Kind(r)} THEN SameNumber(toNumber(l), toNumber(r))
  ELSE EqualFold(String(l), String(r))

looseEqual(l, r) ==
  IF Kind(l) = Kind(r)
  THEN CASE Kind(l) \in {"null", "bool"} -> l = r
         [] Kind(l) = "num" -> SameNumber(toNumber(l), toNumber(r))
         [] Kind(l) = "str" -> EqualFold(l[2], r[2])
         [] OTHER           -> String(l) = String(r)
  ELSE IF {Kind(l), Kind(r)} = {"null", "str"} THEN StrOf("") \in {l, r}
  ELSE IF "num" \in {Kind(l), Kind(r)} THEN SameNumber(toNumber(l), toNumber(r))
  ELSE EqualFold(String(l), String(r))

(***************************************************************************)
(* compare: <<comparable, -1, 0 or 1>>.  NaN is neither less nor greater.  *)
(***************************************************************************)
Sign(a, b) == IF a < b THEN -1 ELSE IF a > b THEN 1 ELSE 0

compare(l, r) ==
  LET ln == toNumber(l)
      rn == toNumber(r)
  IN  IF ln[1] /\ rn[1] /\ "num" \in {Kind(l), Kind(r)} 
      THEN <<TRUE, IF NaN \in {ln[2], rn[2]} THEN 0 ELSE Sign(ln[2], rn[2])>>
      ELSE IF Kind(l) = "str" /\ Kind(r) = "str" THEN <<TRUE, Sign(RankOf(l[2]), RankOf(r[2]))>>
      ELSE <<FALSE, 0>>

Compared(op, l, r) ==
  LET c == compare(l, r)
  IN  CASE op = "==" -> looseEqual(l, r)
        [] op = "!=" -> ~looseEqual(l, r)
        [] op = "<"  -> c[1] /\ c[2] < 0
        [] op = "<=" -> c[1] /\ c[2] <= 0
        [] op = ">"  -> c[1] /\ c[2] > 0
        [] op = ">=" -> c[1] /\ c[2] >= 0

-----------------------------------------------------------------------------
(***************************************************************************)
(* What the comparisons owe each other.  A comparison with a number is one *)
(* of numbers; NaN is the exception to their order.                        *)
(***************************************************************************)
Unordered(l, r) ==
  "num" \in {Kind(l), Kind(r)} /\ NaN \in {toNumber(l)[2], toNumber(r)[2]}

Orders == {"<", "==", ">"}

Agree(l, r) ==
  /\ Compared("==", l, r) <=> Compared("==", r, l)
  /\ Compared("<", l, r) <=> Compared(">", r, l)
  /\ Compared("<=", l, r) <=> Compared(">=", r, l)
  /\ compare(l, r)[1] /\ ~Unordered(l, r) =>
       /\ \E one \in Orders : \A op \in Orders : Compared(op, l, r) <=> op = one
       /\ Compared("<=", l, r) <=> Compared("<", l, r) \/ Compared("==", l, r)
       /\ Compared(">=", l, r) <=> Compared(">", l, r) \/ Compared("==", l, r)

=============================================================================
