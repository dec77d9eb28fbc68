---------------------------- MODULE KconfigValue ----------------------------
(* The value of each symbol (parser/symbol.c), from a menu database db, what *)
(* expressions are worth, and a state u of the symbols:                      *)
(*   u.val    the user's value of each name (S_DEF_USER), None without one   *)
(*   u.prio   the members of each choice, the last one set first             *)
(*   u.curr   the cached value of each name (curr)                           *)
(*   u.vis, u.dir, u.rev, u.imp   how far each name is visible, allowed by   *)
(*            its dependencies, selected and implied (cached as well)        *)
(* A bool or tristate value is 0, 1 or 2; an int is itself.  The database is *)
(* free of recursive dependencies: computing every value once, in an order   *)
(* in which a value comes after those it needs, gives what the recursive     *)
(* calls of sym_calc_value() give, each cut short by SYMBOL_VALID.           *)
EXTENDS KconfigTree

CONSTANTS None,               \* no user value
          Numbers,            \* the value of each name that is a number
          Eval(_, _, _),      \* expr_calc_value() of an expression
          EntriesBelow(_, _)  \* the entries below a menu entry, depth first
ASSUME NoneAssumption    == None \notin 0 .. 2
ASSUME NumbersAssumption == {"y", "m", "n"} \cap DOMAIN Numbers = {}

Const(s) == CASE s = "y" -> 2 [] s = "m" -> 1 [] s = "n" -> 0
              [] s \in DOMAIN Numbers -> Numbers[s] [] OTHER -> -1
SymValue(db, u, s) == IF s \in DOMAIN u.curr THEN u.curr[s] ELSE Const(s)

(* sym_get_type(): without modules a tristate symbol is bool. *)
TypeOf(db, u, s) ==
  IF db.type[s] = "tristate" /\ SymValue(db, u, db.modules) = 0 THEN "bool" ELSE db.type[s]
Promote(db, u, s, v) == IF v = 1 /\ TypeOf(db, u, s) = "bool" THEN 2 ELSE v

(* sym_calc_visibility(): the prompt, the direct dependencies, the reverse   *)
(* and the weak reverse dependencies.                                        *)
Upgraded(db, u, s, v) == IF v = 1 /\ TypeOf(db, u, s) # "tristate" THEN 2 ELSE v
Prompts(db, u, s) == {Eval(db, u, db.prop[i].cond) : i \in Own(db, s, {"prompt", "menu"})}
Shown(db, u, s) ==
  IF s \in db.trans THEN 2 ELSE Upgraded(db, u, s, Max({0} \cup Prompts(db, u, s)))
\* Nothing selects or implies a member of a choice.
Weak(db, u, s, e) == IF e = Null \/ IsMember(db, s) THEN 0
                     ELSE Promote(db, u, s, Eval(db, u, e))
\* A member is looked at with all the others.  (sym_calc_choice() stops at the first member
\* that is visible and set to y, and leaves the others as they were looked at before; when
\* they are visible on the same conditions, as in KconfigSession, that is no difference:
\* one that is not visible yet is looked at when its own value is computed.)
LookedAll(db, u, s) ==
  LET group == Group(db, s)
  IN [u EXCEPT
       !.vis = [t \in DOMAIN @ |-> IF t \in group THEN Shown(db, u, t) ELSE @[t]],
       !.dir = [t \in DOMAIN @ |-> IF t \in group THEN Promote(db, u, t, Eval(db, u, db.dir[t])) ELSE @[t]],
       !.rev = [t \in DOMAIN @ |-> IF t \in group THEN Weak(db, u, t, db.rev[t]) ELSE @[t]],
       !.imp = [t \in DOMAIN @ |-> IF t \in group THEN Weak(db, u, t, db.imp[t]) ELSE @[t]]]

HasValue(u, s)     == u.val[s] # None
Changeable(db, u, s) ==
  ~IsChoice(db, s) /\ u.vis[s] > u.rev[s]

\* The properties of the given type whose condition holds; the first one counts.
Active(db, u, s, type) == {i \in Own(db, s, {type}) : Eval(db, u, db.prop[i].cond) # 0}

(* The default of s: its value and the limit its condition sets (the first   *)
(* active "default"), the tristate n and the int 0 without one.              *)
ValueBy(db, u, s, q) ==
  IF IsTri(db, s) THEN Eval(db, u, <<"and", q.expr, q.cond>>)
  ELSE IF Op(q.expr) = "sym" THEN SymValue(db, u, Left(q.expr)) ELSE 0
DefaultValue(db, u, s) ==
  LET is == Active(db, u, s, "default")
  IN IF is = {} THEN 0 ELSE ValueBy(db, u, s, db.prop[Min(is)])

(* sym_validate_range(), sym_string_within_range() *)
Bounds(db, u, q)   == <<SymValue(db, u, Left(q.expr)), SymValue(db, u, Right(q.expr))>>
RangeOf(db, u, s)  ==
  LET is == Active(db, u, s, "range") IN IF is = {} THEN <<>> ELSE Bounds(db, u, db.prop[Min(is)])
Clamp(r, v) == IF r = <<>> THEN v ELSE IF v < r[1] THEN r[1] ELSE IF v > r[2] THEN r[2] ELSE v

-----------------------------------------------------------------------------
(* Choices.  c is the entry of the choice, a list is one of names, "" for an *)
(* entry without a symbol.                                                   *)
MenuOrder(db, c) == [i \in DOMAIN EntriesBelow(db, c) |-> db.menu[EntriesBelow(db, c)[i]].sym]
Seen(u, list)    == {s \in ToSet(list) : s # "" /\ u.vis[s] # 0}
MembersIn(db, u, c) == Seen(u, MenuOrder(db, c))

\* The first of a list that is in S, or s.
FirstOf(list, S, s) ==
  LET at == {i \in DOMAIN list : list[i] \in S} IN IF at = {} THEN s ELSE list[Min(at)]

(* sym_choice_default() *)
ChoiceDefault(db, u, c) ==
  LET named == {i \in Active(db, u, Choice(db, c), "default") : u.vis[Left(db.prop[i].expr)] # 0}
  IN IF named # {} THEN Left(db.prop[Min(named)].expr)
     ELSE FirstOf(MenuOrder(db, c), MembersIn(db, u, c), "")

(* sym_calc_choice(): the last member set to y; the default unless it is set *)
(* to n; the first member without a user value; the member set to n longest  *)
(* ago.                                                                      *)
UnchosenNone(db, u, c, def) ==   \* nothing when every member is set to n
  IF def # "" /\ u.val[def] # 0 THEN def
  ELSE FirstOf(MenuOrder(db, c), {s \in MembersIn(db, u, c) : ~HasValue(u, s)}, "")
Unchosen(db, u, c, def) ==
  LET prio == u.prio[Choice(db, c)]
  IN IF def # "" /\ u.val[def] # 0 THEN def
     ELSE FirstOf(MenuOrder(db, c), {s \in MembersIn(db, u, c) : ~HasValue(u, s)},
                  FirstOf(Reverse(prio), Seen(u, prio), ""))
ChoiceValue(db, u, c) ==
  LET prio == u.prio[Choice(db, c)]
  IN FirstOf(prio, {s \in Seen(u, prio) : u.val[s] = 2}, Unchosen(db, u, c, ChoiceDefault(db, u, c)))

-----------------------------------------------------------------------------
(* The value of a symbol outside choices, before its range is looked at: the *)
(* user's value where the symbol is visible, else its default and what       *)
(* implies it, and never less than what selects it.                          *)
OrImpliedFree(u, s, v) == Most(v, u.imp[s])   \* whatever the dependencies are
OrImplied(u, s, v) == IF u.imp[s] # 0 THEN Least(Most(v, u.imp[s]), u.dir[s]) ELSE v
PlainTri(db, u, s) ==
  Promote(db, u, s,
    Most(u.rev[s],
         IF u.vis[s] # 0 /\ HasValue(u, s) THEN Least(u.val[s], u.vis[s])
         ELSE OrImplied(u, s, IF IsChoice(db, s) THEN 0 ELSE DefaultValue(db, u, s))))

(* sym_calc_value() *)
IntValue(db, u, s) == IF u.vis[s] # 0 /\ HasValue(u, s) THEN u.val[s] ELSE DefaultValue(db, u, s)
MemberValue(db, u, s) == IF u.vis[s] # 0 /\ ChoiceValue(db, u, db.around[s]) = s THEN 2 ELSE 0
Computed(db, u, s) ==
  CASE db.type[s] = "int" -> Clamp(RangeOf(db, u, s), IntValue(db, u, s))
    [] IsTri(db, s) /\ IsMember(db, s)  -> MemberValue(db, u, s)
    [] IsTri(db, s) /\ ~IsMember(db, s) -> PlainTri(db, u, s)

(* Every value anew, after sym_clear_all_valid(): the visibility of a symbol *)
(* comes before its value, that of all members before the value of one.      *)
Evaluated(db, u, s) == [u EXCEPT !.curr[s] = Computed(db, u, s)]
Recomputed(db, u) ==
  LET at[i \in 0 .. Len(db.order)] ==
        IF i = 0 THEN u
        ELSE Evaluated(db, LookedAll(db, at[i - 1], db.order[i]), db.order[i])
  IN at[Len(db.order)]

(* SYMBOL_WRITE: does the symbol go into .config? *)
IsWritten(db, u, s) ==
  /\ db.type[s] # "unknown" /\ ~IsChoice(db, s) /\ s \notin db.trans
  /\ \/ u.vis[s] # 0
     \/ db.type[s] = "int" /\ Active(db, u, s, "default") # {}
     \/ /\ IsTri(db, s) /\ ~IsMember(db, s)
        /\ \/ u.rev[s] # 0 \/ u.imp[s] # 0
           \/ DefaultValue(db, u, s) # 0

(* A symbol without a user value whose default is a transitional symbol with *)
(* one takes its value over as its own user value.                           *)
OfTransitional(db, q)  == Op(q.expr) = "sym" /\ Left(q.expr) \in db.trans
Replaces(db, u, is) ==
  is # {} /\ LET q == db.prop[Min(is)] IN OfTransitional(db, q) /\ HasValue(u, Left(q.expr))
Adopts(db, u, s) == /\ ~HasValue(u, s) /\ ~IsChoice(db, s) /\ ~IsMember(db, s)
                    /\ Replaces(db, u, Active(db, u, s, "default"))
Adopt(db, u) ==
  [u EXCEPT !.val = [s \in DOMAIN @ |->
     IF s \in ToSet(db.order) /\ Adopts(db, u, s)
     THEN IF IsTri(db, s) THEN SymValue(db, u, s) ELSE DefaultValue(db, u, s)   \* not in its range yet
     ELSE @[s]]]
Fresh(db, u)  == Adopt(db, Recomputed(db, u))
Untouched(db) ==
  LET none == [s \in Names(db) |-> 0]
  IN Recomputed(db, [val  |-> [s \in DOMAIN db.type |-> None], prio |-> db.members,
                     curr |-> none, vis |-> none, dir |-> none, rev |-> none, imp |-> none])

-----------------------------------------------------------------------------
(* Setting a value: sym_set_tristate_value() and sym_string_within_range()   *)
(* accept what sym_tristate_within_range() and the range allow.              *)
SetVal(u, s, v) == [u EXCEPT !.val[s] = v]
WithinRange(db, u, s, v) ==
  /\ IsTri(db, s) /\ ~(TypeOf(db, u, s) = "bool" /\ v = 1)
  /\ u.vis[s] > u.rev[s] /\ v \in u.rev[s]..u.vis[s]
IntAccepted(db, u, s, v) == Clamp(RangeOf(db, u, s), v) = v

\* list_move(): s becomes the first of the list.
Fronted(list, s) == <<s>> \o SelectSeq(list, LAMBDA t : t # s)

(* choice_set_value(): every visible member gets a value, in menu order. *)
ShownOf(db, u, c) == SelectSeq(MenuOrder(db, c), LAMBDA t : t \in MembersIn(db, u, c))
Chosen(db, u, c, v) ==
  [u EXCEPT !.val = [t \in DOMAIN @ |-> IF t \in MembersIn(db, u, c) THEN v[t] ELSE @[t]],
            !.prio[Choice(db, c)] = FoldLeft(Fronted, @, ShownOf(db, u, c))]
ChooseOnly(db, u, c, s) ==   \* the others lose their value
  Chosen(db, u, c, [t \in MembersIn(db, u, c) |-> IF t = s THEN 2 ELSE None])
ChooseMember(db, u, c, s) ==
  Chosen(db, u, c, [t \in MembersIn(db, u, c) |-> IF t = s THEN 2 ELSE 0])
=============================================================================
