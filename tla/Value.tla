------------------------------- MODULE Value -------------------------------
(***************************************************************************)
(* The values of expressions (internal/workflow/expression/value.go), as   *)
(* tuples headed by their kind, and the shape of a result: <<TRUE, ...>>,  *)
(* or <<FALSE, ...>> for an error.                                         *)
(***************************************************************************)
NaN == 1000  \* the number the string "NaN" parses to

Null == <<"null", 0>>
BoolOf(b) == <<"bool", b>>
NumOf(n) == <<"num", n>>
StrOf(s) == <<"str", s>>
ArrOf(vs) == <<"arr", vs>>
ObjOf(f) == <<"obj", f>>
Kind(v) == v[1]

Truthy(v) ==
  CASE Kind(v) = "bool" -> v[2]
    [] Kind(v) = "num"  -> v[2] \notin {0, NaN}
    [] Kind(v) = "str"  -> v[2] # ""
    [] OTHER            -> Kind(v) \in {"arr", "obj"}

Ok(r) == r[1]

=============================================================================
