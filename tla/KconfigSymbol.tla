--------------------------- MODULE KconfigSymbol ---------------------------
(* What expressions are worth (expr_calc_value() in parser/expr.c), and what *)
(* follows from the values of the symbols for the menus and for a minimal    *)
(* configuration.                                                            *)
EXTENDS KconfigMenu, KconfigValue

RECURSIVE ExprValue(_, _, _)
(* expr_calc_value() *)
ExprValue(db, u, e) ==
  CASE e = Null -> 2
    [] Op(e) = "sym" -> IF IsTri(db, Left(e)) THEN SymValue(db, u, Left(e)) ELSE 0
    [] Op(e) = "not" -> 2 - ExprValue(db, u, Left(e))
    [] Op(e) = "and" -> Least(ExprValue(db, u, Left(e)), ExprValue(db, u, Right(e)))
    [] Op(e) = "or"  -> Most(ExprValue(db, u, Left(e)), ExprValue(db, u, Right(e)))
    [] IsComp(e) -> IF Holds(Op(e), SymValue(db, u, Left(e)), SymValue(db, u, Right(e)))
                    THEN 2 ELSE 0

(* sym_get_string_default(): what a minimal configuration leaves out. *)
StringDefault(db, u, s) ==
  IF db.type[s] = "int" THEN DefaultValue(db, u, s)
  ELSE Most(Promote(db, u, s, Most(DefaultValue(db, u, s), u.rev[s])), u.imp[s])

(* menu_is_visible() *)
RECURSIVE MenuVisible(_, _, _)
MenuVisible(db, u, m) ==
  LET s == db.menu[m].sym
      p == db.menu[m].prompt
      v == ExprValue(db, u, db.prop[p].cond)
  IN /\ p # 0 /\ ExprValue(db, u, db.menu[m].vis) # 0
     /\ \/ v # 0
        \/ /\ s # "" /\ IsTri(db, s) /\ SymValue(db, u, s) # 0
           /\ \E k \in ToSet(db.kids[m]) : MenuVisible(db, u, k)
=============================================================================
