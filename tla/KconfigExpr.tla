---------------------------- MODULE KconfigExpr ----------------------------
(* The expressions of Kconfig (parser/expr.c): how "depends on", "if",       *)
(* "select ... if" and "default" expressions are built, simplified and       *)
(* compared.  All operators are of constant level; Kconfig.tla uses them.    *)
EXTENDS KconfigJoin

(* What expressions are made of; the operands of a comparison are symbols.   *)
RECURSIVE WellFormed(_)
WellFormed(e) ==
  \/ e = Null \/ Op(e) = "sym" \/ IsComp(e)
  \/ Op(e) = "not" /\ WellFormed(Left(e))
  \/ Op(e) \in {"and", "or"} /\ WellFormed(Left(e)) /\ WellFormed(Right(e))

(* The symbols an expression mentions. *)
RECURSIVE Symbols(_)
Symbols(e) ==
  CASE Op(e) = "null" -> {}
    [] Op(e) = "sym"  -> {Left(e)}
    [] Op(e) = "not"  -> Symbols(Left(e))
    [] IsComp(e)      -> {Left(e), Right(e)}
    [] OTHER          -> Symbols(Left(e)) \cup Symbols(Right(e))

ContainsSymbol(e, s) == s \in Symbols(e)

(* e cannot be other than n unless s is: an operand of the outermost && is   *)
(* s, s=y, s=m or s!=n.                                                      *)
RECURSIVE DependsSymbol(_, _)
DependsSymbol(e, s) ==
  \/ Op(e) = "and" /\ (DependsSymbol(Left(e), s) \/ DependsSymbol(Right(e), s))
  \/ e \in {Sym(s), <<"=", s, "y">>, <<"=", s, "m">>, <<"!=", s, "n">>}

-----------------------------------------------------------------------------
(* expr && n -> n,  expr && y -> expr,  expr || n -> expr,  expr || y -> y   *)
RECURSIVE EliminateYN(_)
EliminateYN(e) ==
  IF Op(e) \notin {"and", "or"} THEN e
  ELSE LET l    == EliminateYN(Left(e))
           r    == EliminateYN(Right(e))
           zero == IF Op(e) = "and" THEN No ELSE Yes
           unit == IF Op(e) = "and" THEN Yes ELSE No
       IN CASE l = zero -> l
            [] l = unit -> r
            [] r = zero -> r
            [] r = unit -> l
            [] OTHER    -> e

(* Walks two trees to the leaves that are not of type op and replaces both   *)
(* of a pair of leaves that are equal.  Eq decides that for leaves.          *)
RECURSIVE EliminateLeaves(_, _, _), EliminateEq(_, _), ExprEq(_, _)
EliminateLeaves(op, e, f) ==
  CASE Op(e) = op ->
         LET a == EliminateLeaves(op, Left(e), f)
             b == EliminateLeaves(op, Right(e), a[2])
         IN <<<<op, a[1], b[1]>>, b[2]>>
    [] Op(e) # op /\ Op(f) = op ->
         LET a == EliminateLeaves(op, e, Left(f))
             b == EliminateLeaves(op, a[1], Right(f))
         IN <<b[1], <<op, a[2], b[2]>>>>
    [] OTHER ->
         LET gone == IF op = "or" THEN No ELSE Yes
         IN IF (e = f /\ e \in {Yes, No}) \/ ~ExprEq(e, f)
            THEN <<e, f>> ELSE <<gone, gone>>

(* Removes the operands common to both expressions. *)
EliminateEq(e, f) ==
  IF Null \in {e, f} THEN <<e, f>>
  ELSE LET a == IF Op(e) \in {"and", "or"}
                THEN EliminateLeaves(Op(e), e, f) ELSE <<e, f>>
           b == IF Op(a[1]) # Op(a[2]) /\ Op(a[2]) \in {"and", "or"}
                THEN EliminateLeaves(Op(a[2]), a[1], a[2]) ELSE a
       IN <<EliminateYN(b[1]), EliminateYN(b[2])>>

(* Equality up to the order and the grouping of operands: what is left of    *)
(* both after the elimination is the same single symbol.                     *)
ExprEq(e, f) ==
  IF Null \in {e, f} THEN IsYes(e) /\ IsYes(f)
  ELSE CASE Op(e) = "not" -> Op(f) = "not" /\ ExprEq(Left(e), Left(f))
         [] Op(e) \in {"and", "or"} ->
              LET a == EliminateEq(e, f)
              IN Op(e) = Op(f) /\ Op(a[1]) = "sym" /\ a[1] = a[2]
         [] OTHER -> e = f

-----------------------------------------------------------------------------
JoinOr(T, e, f)  == IF ExprEq(e, f) THEN e ELSE JoinedOr(T, e, f)
JoinAnd(T, e, f) == IF ExprEq(e, f) THEN e ELSE JoinedAnd(T, e, f)

(* Joins each leaf of e with each leaf of f; the third element says whether  *)
(* anything was joined.                                                      *)
RECURSIVE JoinLeaves(_, _, _, _)
JoinLeaves(T, op, e, f) ==
  CASE Op(e) = op ->
         LET a == JoinLeaves(T, op, Left(e), f)
             b == JoinLeaves(T, op, Right(e), a[2])
         IN <<<<op, a[1], b[1]>>, b[2], a[3] \/ b[3]>>
    [] Op(e) # op /\ Op(f) = op ->
         LET a == JoinLeaves(T, op, e, Left(f))
             b == JoinLeaves(T, op, a[1], Right(f))
         IN <<b[1], <<op, a[2], b[2]>>, a[3] \/ b[3]>>
    [] OTHER ->
         LET j == IF op = "or" THEN JoinOr(T, e, f) ELSE JoinAnd(T, e, f)
         IN IF j = Null THEN <<e, f, FALSE>>
            ELSE <<IF op = "or" THEN No ELSE Yes, j, TRUE>>

(* Removes duplicate and redundant operands, until there are none. *)
RECURSIVE EliminateDups(_, _), DupsRemoved(_, _, _)
EliminateDups(T, e) ==
  IF Op(e) \notin {"and", "or"} THEN e
  ELSE DupsRemoved(T, Op(e), JoinLeaves(T, Op(e), EliminateDups(T, Left(e)),
                                                  EliminateDups(T, Right(e))))
DupsRemoved(T, op, j) ==
  LET s == EliminateYN(<<op, j[1], j[2]>>) IN IF j[3] THEN EliminateDups(T, s) ELSE s

-----------------------------------------------------------------------------
(* Comparisons of a bool symbol to a constant become the symbol; negations   *)
(* move inwards.                                                             *)
RECURSIVE Transform(_, _)
Transform(T, e) ==
  LET bool == T[Left(e)] = "bool"
  IN CASE e = Null -> e
       [] Op(e) = "sym" -> e
       [] Op(e) \in {"=", "!="} /\ bool -> OfBool(e)
       [] IsComp(e) /\ ~(Op(e) \in {"=", "!="} /\ bool) -> e
       [] Op(e) \in {"and", "or"} ->
            <<Op(e), Transform(T, Left(e)), Transform(T, Right(e))>>
       [] Op(e) = "not" ->
            LET a == Transform(T, Left(e))
            IN CASE Op(a) = "not" -> Left(a)
                 [] IsComp(a)     -> Comp(Negated[Op(a)], Left(a), Right(a))
                 [] Op(a) = "or"  ->
                      Transform(T, <<"and", Not(Left(a)), Not(Right(a))>>)
                 [] Op(a) = "and" ->
                      Transform(T, <<"or", Not(Left(a)), Not(Right(a))>>)
                 [] OTHER -> CASE a = Yes -> No [] a = Mod -> Mod
                               [] a = No -> Yes [] OTHER -> Not(a)

(* The expression "e is c" (op "=") or "e is not c" (op "!="), c being the   *)
(* constant y or n.                                                          *)
RECURSIVE TransCompare(_, _, _)
TransCompare(e, op, c) ==
  CASE e = Null -> IF op = "!=" THEN Not(Sym(c)) ELSE Sym(c)
    [] Op(e) = "sym" -> Comp(op, Left(e), c)
    [] Op(e) = "not" -> TransCompare(Left(e), IF op = "=" THEN "!=" ELSE "=", c)
    [] IsComp(e)     -> IF (op = "=") = (c = "y") THEN e ELSE Not(e)
    [] OTHER ->
         LET flip == [and |-> "or", or |-> "and"]
             f    == <<IF c = "y" THEN Op(e) ELSE flip[Op(e)],
                       TransCompare(Left(e), "=", c), TransCompare(Right(e), "=", c)>>
         IN IF op = "!=" THEN Not(f) ELSE f

(* 'm' stands for 'm' && MODULES. *)
RECURSIVE RewriteM(_, _)
RewriteM(modules, e) ==
  CASE Op(e) = "not" -> Not(RewriteM(modules, Left(e)))
    [] Op(e) \in {"and", "or"} ->
         <<Op(e), RewriteM(modules, Left(e)), RewriteM(modules, Right(e))>>
    [] e = Mod -> AndExpr(e, Sym(modules))
    [] OTHER   -> e
=============================================================================
