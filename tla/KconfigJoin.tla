---------------------------- MODULE KconfigJoin ----------------------------
(* The expressions of Kconfig (parser/expr.c), and the rules by which two    *)
(* operands become one.                                                      *)
(*                                                                           *)
(* An expression is a tuple whose first element is its type:                 *)
(*   <<"null">>                  NULL, which counts as yes                   *)
(*   <<"sym", s>>                a symbol or one of the constants y, m, n    *)
(*   <<"not", e>>, <<"and", e, f>>, <<"or", e, f>>                           *)
(*   <<"=", s, t>> and "!=", "<", "<=", ">", ">="   a comparison of symbols  *)
(* Nodes are shared by hash in the code; here equal tuples are one node.     *)
(* T gives the type of every symbol: "bool", "tristate", "int", "unknown".   *)
EXTENDS Integers, Sequences

Null   == <<"null">>
Yes    == <<"sym", "y">>
Mod    == <<"sym", "m">>
No     == <<"sym", "n">>
Sym(s) == <<"sym", s>>
Not(e) == <<"not", e>>
Comp(op, s, t) == <<op, s, t>>

Op(e)    == e[1]
Left(e)  == e[2]
Right(e) == e[3]
Comparisons == {"=", "!=", "<", "<=", ">", ">="}
IsComp(e)   == Op(e) \in Comparisons
IsYes(e)    == e \in {Null, Yes}

AndExpr(e, f) == IF e = Null THEN f ELSE IF f = Null THEN e ELSE <<"and", e, f>>
OrExpr(e, f)  == IF e = Null THEN f ELSE IF f = Null THEN e ELSE <<"or", e, f>>

\* The tristates: n, m, y are 0, 1, 2.
Least(a, b) == IF a < b THEN a ELSE b
Most(a, b)  == IF a > b THEN a ELSE b

Holds(op, l, r) == CASE op = "=" -> l = r [] op = "!=" -> l # r
                     [] op = "<" -> l < r [] op = "<=" -> l <= r
                     [] op = ">" -> l > r [] op = ">=" -> l >= r

-----------------------------------------------------------------------------
(* The symbol that both operands of a join are about, or "" when the two are *)
(* not about one bool or tristate symbol.  The first operand may be the      *)
(* negation of a comparison, the second only that of a symbol.               *)
Joinable(e) == Op(e) \in {"=", "!=", "sym", "not"}
JoinSymbol(T, e, f) ==
  LET a == IF Op(e) = "not" THEN Left(e) ELSE e
      b == IF Op(f) = "not" THEN Left(f) ELSE f
  IN IF /\ Joinable(e) /\ Joinable(f)
        /\ Op(a) \in {"=", "!=", "sym"}
        /\ Op(f) = "not" => Op(b) = "sym"
        /\ Left(a) = Left(b)
        /\ T[Left(a)] \in {"bool", "tristate"}
     THEN Left(a) ELSE ""

\* Two comparisons with op of one symbol to the two constants c and d.
Both(op, e, f, c, d) == /\ Op(e) = op /\ Op(f) = op
                        /\ {Right(e), Right(f)} = {c, d}

(* e || f of two operands that are not equal, as one expression, or Null     *)
(* when it is left as it is; s is the symbol both are about.                 *)
OrOf(T, s, e, f) ==
  CASE T[s] = "tristate" /\ Both("=", e, f, "y", "m") -> Comp("!=", s, "n")
    [] T[s] = "tristate" /\ Both("=", e, f, "y", "n") -> Comp("!=", s, "m")
    [] T[s] = "tristate" /\ Both("=", e, f, "m", "n") -> Comp("!=", s, "y")
    [] T[s] = "bool" /\ {e, f} = {Sym(s), Not(Sym(s))} -> Yes
    [] OTHER -> Null
JoinedOr(T, e, f) ==
  LET s == JoinSymbol(T, e, f) IN IF s = "" THEN Null ELSE OrOf(T, s, e, f)

\* One operand is the symbol itself, the other compares it with op to c.
SymAnd(s, op, c, e, f) == {e, f} = {Sym(s), Comp(op, s, c)}
Constants == {"y", "m", "n"}
SymAndFlag(s, e, f) ==   \* a symbol that is not n would be as good as one that is y
  CASE SymAnd(s, "=", "y", e, f)  -> Comp("=", s, "y")
    [] SymAnd(s, "!=", "n", e, f) -> Comp("!=", s, "n")
    [] SymAnd(s, "!=", "m", e, f) -> Comp("=", s, "y")
    [] OTHER -> Null
JoinSymAnd(s, e, f) ==
  CASE SymAnd(s, "=", "y", e, f)  -> Comp("=", s, "y")
    [] SymAnd(s, "!=", "n", e, f) -> Sym(s)
    [] SymAnd(s, "!=", "m", e, f) -> Comp("=", s, "y")
    [] OTHER -> Null

\* (a='b') && (a!='c')  ->  'b'='c' ? 'n' : a='b'
Differ(e, f)    == Op(e) = "=" /\ Op(f) = "!=" /\ {Right(e), Right(f)} \subseteq Constants
Narrow(s, e, f) == IF Right(e) = Right(f) THEN No ELSE Comp("=", s, Right(e))

(* The same for e && f. *)
AndOf(T, s, e, f) ==
  CASE JoinSymAnd(s, e, f) # Null -> JoinSymAnd(s, e, f)
    [] T[s] = "tristate" /\ Differ(e, f) -> Narrow(s, e, f)
    [] T[s] = "tristate" /\ Differ(f, e) -> Narrow(s, f, e)
    [] T[s] = "tristate" /\ Both("!=", e, f, "y", "n") -> Comp("=", s, "m")
    [] T[s] = "tristate" /\ Both("!=", e, f, "y", "m") -> Comp("=", s, "n")
    [] T[s] = "tristate" /\ Both("!=", e, f, "m", "n") -> Comp("=", s, "y")
    [] OTHER -> Null
JoinedAnd(T, e, f) ==
  LET s == JoinSymbol(T, e, f) IN IF s = "" THEN Null ELSE AndOf(T, s, e, f)

-----------------------------------------------------------------------------
\* !(a op b) as a comparison
Negated == [o \in Comparisons |->
  CASE o = "="  -> "!=" [] o = "!=" -> "="  [] o = "<"  -> ">="
    [] o = "<=" -> ">"  [] o = ">"  -> "<=" [] o = ">=" -> "<"]

(* A comparison of a bool symbol to a constant.  (A!=y is rewritten to a     *)
(* node whose operand is the symbol itself where an expression is expected:  *)
(* the value of that node is not defined and this definition excludes the    *)
(* input.)                                                                   *)
OfBool(e) ==
  CASE Op(e) = "=" /\ Right(e) = "n"  -> Not(Sym(Left(e)))
    [] Op(e) = "=" /\ Right(e) = "m"  -> No
    [] Op(e) = "=" /\ Right(e) = "y"  -> Sym(Left(e))
    [] Op(e) = "!=" /\ Right(e) = "n" -> Sym(Left(e))
    [] Op(e) = "!=" /\ Right(e) = "m" -> Yes
    [] OTHER -> e
=============================================================================
