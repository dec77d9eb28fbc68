---------------------------- MODULE KconfigMenu ----------------------------
(* The menu tree of Kconfig: what the parser's rules (autogen/parser.y) add  *)
(* to it, how menu_finalize() (parser/menu.c) rewrites it, and the search    *)
(* for recursive dependencies (parser/symbol.c).                             *)
EXTENDS KconfigExpr, KconfigTree

NoMenu(kind, s, parent) == [kind |-> kind, sym |-> s, parent |-> parent,
                            prompt |-> 0, dep |-> Null, vis |-> Null]

Error(db)   == [db EXCEPT !.bad = TRUE]
SetCur(db, field, v) ==
  CASE field = "dep"    -> [db EXCEPT !.menu[db.cur].dep = v]
    [] field = "vis"    -> [db EXCEPT !.menu[db.cur].vis = v]
    [] field = "prompt" -> [db EXCEPT !.menu[db.cur].prompt = v]

(* An empty tree over the given names and their initial types. *)
EmptyDb(types) ==
  LET none == [s \in DOMAIN types |-> Null]
  IN [menu |-> [i \in {0} |-> NoMenu("menu", "", 0)], kids |-> [i \in {0} |-> <<>>],
      prop |-> <<>>, type |-> types, dir |-> none, rev |-> none, imp |-> none,
      trans |-> {}, modules |-> "n", members |-> [s \in DOMAIN types |-> <<>>],
      cur |-> 0, top |-> 0, choice |-> 0, bad |-> FALSE,
      order |-> <<>>, around |-> [s \in DOMAIN types |-> 0]]

(* menu_add_entry(): a new last entry of the current menu. *)
AddEntry(db, kind, s) ==
  LET n == Cardinality(DOMAIN db.menu)
  IN [db EXCEPT !.menu = [i \in 0..n |-> IF i = n THEN NoMenu(kind, s, db.top) ELSE @[i]],
                !.kids = [i \in 0..n |-> IF i = n THEN <<>>
                                         ELSE IF i = db.top THEN Append(@[i], n) ELSE @[i]],
                !.cur = n]

(* menu_add_prop() *)
AddProp(db, type, e, cond) ==
  [db EXCEPT !.prop = Append(@, [type |-> type, owner |-> db.menu[db.cur].sym,
                                 menu |-> db.cur, expr |-> e, cond |-> cond])]

RECURSIVE Ancestors(_, _)
Ancestors(db, m) == IF m = 0 THEN <<>>
                    ELSE <<db.menu[m].parent>> \o Ancestors(db, db.menu[m].parent)

(* menu_add_prompt(): the prompt of a symbol also takes over "visible if" of *)
(* all menus above it.                                                       *)
AddPrompt(db, type, cond) ==
  LET above == FoldLeft(LAMBDA c, m : AndExpr(c, db.menu[m].vis), cond,
                        Ancestors(db, db.cur))
      d == AddProp(db, type, Null, IF type = "prompt" THEN above ELSE cond)
  IN SetCur(d, "prompt", Len(d.prop))

(* One line below a config, choice, menu or comment. *)
AddOption(db, o) ==
  LET m == db.menu[db.cur]
  IN CASE o[1] = "type" ->
            IF db.type[m.sym] = "unknown" THEN [db EXCEPT !.type[m.sym] = o[2]] ELSE db
       [] o[1] = "prompt"  -> AddPrompt(db, "prompt", o[2])
       [] o[1] = "depends" -> SetCur(db, "dep", AndExpr(m.dep, o[2]))
       [] o[1] = "visible" -> SetCur(db, "vis", AndExpr(m.vis, o[2]))
       [] o[1] \in {"default", "range", "select", "imply"} ->
            AddProp(db, o[1], o[2], o[3])
       [] o[1] = "modules" ->
            IF db.modules = "n" THEN [db EXCEPT !.modules = m.sym] ELSE Error(db)
       [] o[1] = "transitional" -> [db EXCEPT !.trans = @ \cup {m.sym}]

AddOptions(db, opts) == FoldLeft(AddOption, db, opts)

PromptOf(db) == db.menu[db.cur].prompt     \* of the current entry
Enter(db)   == [db EXCEPT !.top = db.cur]

(* config and menuconfig.  In a choice the symbol becomes a member. *)
JoinChoice(db, s) ==
  LET c == db.menu[db.choice].sym
  IN IF db.choice = 0 THEN db
     ELSE IF PromptOf(db) = 0 \/ db.type[s] # "bool" THEN Error(db)
     ELSE IF \E d \in DOMAIN db.members : s \in ToSet(db.members[d]) THEN db
     ELSE [db EXCEPT !.members[c] = Append(@, s)]
AddConfig(db, s, opts) == JoinChoice(AddOptions(AddEntry(db, "config", s), opts), s)

AsMenu(db) == IF PromptOf(db) = 0 THEN Error(db)
              ELSE [db EXCEPT !.prop[PromptOf(db)].type = "menu"]
AddMenuconfig(db, s, opts) == AsMenu(AddConfig(db, s, opts))

OpenChoice(db) == IF PromptOf(db) = 0 THEN Error(db) ELSE [Enter(db) EXCEPT !.choice = db.cur]
AddChoice(db, s, opts) ==
  OpenChoice(AddOptions(AddEntry(db, "choice", s), <<<<"type", "bool">>>> \o opts))

AddMenu(db, opts) == Enter(AddOptions(AddPrompt(AddEntry(db, "menu", ""), "menu", Null), opts))
AddIf(db, e)      == Enter(SetCur(AddEntry(db, "if", ""), "dep", e))
AddComment(db, opts) == AddOptions(AddPrompt(AddEntry(db, "comment", ""), "comment", Null), opts)

(* endmenu, endchoice, endif: refused unless they close the open block. *)
EndBlock(db, kind) ==
  LET d == IF kind = "choice" THEN [db EXCEPT !.choice = 0] ELSE db
  IN IF d.top # 0 /\ d.menu[d.top].kind = kind
     THEN [d EXCEPT !.top = d.menu[d.top].parent] ELSE Error(d)

InChoice == {"config", "comment", "if", "end"}   \* what may stand in a choice
Add(db, st) ==
  CASE st[1] = "config"     -> AddConfig(db, st[2], st[3])
    [] st[1] = "menuconfig" -> AddMenuconfig(db, st[2], st[3])
    [] st[1] = "choice"     -> AddChoice(db, st[2], st[3])
    [] st[1] = "menu"       -> AddMenu(db, st[2])
    [] st[1] = "comment"    -> AddComment(db, st[2])
    [] st[1] = "if"         -> AddIf(db, st[2])
    [] st[1] = "end"        -> EndBlock(db, st[2])
Statement(db, st) == IF db.choice # 0 /\ st[1] \notin InChoice THEN Error(db) ELSE Add(db, st)

-----------------------------------------------------------------------------
Simplify(db, e) == Transform(db.type, RewriteM(db.modules, e))

\* The dependencies of p are handed down to entry m, those of m to its properties;
\* select and imply are recorded at the symbol they name.
HandDown(db, p, m) ==
  [db EXCEPT !.menu[m].dep =
     EliminateDups(db.type, AndExpr(db.menu[p].dep, Simplify(db, @)))]
ConditionOwn(db, q) ==   \* without the dependencies of the entry
  [q EXCEPT !.cond = EliminateDups(db.type, Simplify(db, @))]
Condition(db, q) ==
  [q EXCEPT !.cond = EliminateDups(db.type, AndExpr(db.menu[q.menu].dep, Simplify(db, @)))]
HandOn(db, m) ==
  [db EXCEPT !.prop = [i \in DOMAIN @ |-> IF @[i].menu = m THEN Condition(db, @[i]) ELSE @[i]]]
Recorded(db, m, type, old) ==
  FoldLeft(LAMBDA r, q : [r EXCEPT ![Left(q.expr)] = OrExpr(@, AndExpr(Sym(q.owner), q.cond))],
           old, SelectSeq(db.prop, LAMBDA q : q.menu = m /\ q.type = type))
Record(db, m) == [db EXCEPT !.rev = Recorded(db, m, "select", @),
                            !.imp = Recorded(db, m, "imply", @)]
PropagateTo(db, p, m) == Record(HandOn(HandDown(db, p, m), m), m)

\* The condition under which entry m is shown.
ShownIf(db, m) == IF db.menu[m].prompt = 0 THEN db.menu[m].dep
                  ELSE db.prop[db.menu[m].prompt].cond
IsShown(db, e) == EliminateDups(db.type, Transform(db.type, TransCompare(e, "!=", "n")))

(* Does an entry shown if e belong below the symbol entry p?  It does when e *)
(* needs the symbol, or when it mentions it and needs all that p needs.      *)
BelowAny(db, p, e) == ContainsSymbol(e, db.menu[p].sym)   \* whatever else e needs
Below(db, p, e) ==
  LET s    == db.menu[p].sym
      base == IF db.menu[p].prompt = 0 THEN Null ELSE ShownIf(db, p)
  IN /\ ContainsSymbol(e, s)
     /\ \/ DependsSymbol(e, s)
        \/ IsYes(EliminateEq(IsShown(db, e), IsShown(db, base))[2])

(* Entries without a prompt are no submenu: theirs move up behind them. *)
RECURSIVE FlattenFrom(_, _, _)
FlattenFrom(db, p, i) ==
  IF i > Len(db.kids[p]) THEN db
  ELSE LET m == db.kids[p][i]
           up == db.kids[m]
       IN IF up = <<>> \/ db.menu[m].prompt # 0 THEN FlattenFrom(db, p, i + 1)
          ELSE FlattenFrom(
                 [db EXCEPT !.kids[p] = SubSeq(@, 1, i) \o up \o SubSeq(@, i + 1, Len(@)),
                            !.kids[m] = <<>>,
                            !.menu = [k \in DOMAIN @ |-> IF k \in ToSet(up)
                                        THEN [@[k] EXCEPT !.parent = p] ELSE @[k]]],
                 p, i + 1)

(* _menu_finalize().  FinalizeKids goes through the list of p as it is at    *)
(* that moment, since an entry may take its successors as its submenu.       *)
(* Absorb looks at the i-th entry of the list in which p stands.             *)
RECURSIVE Finalize(_, _, _), FinalizeKids(_, _, _), Absorb(_, _, _)
FinalizeKids(db, p, i) ==
  IF i > Len(db.kids[p]) THEN db
  ELSE FinalizeKids(Finalize(db, db.kids[p][i], db.menu[p].kind = "choice"), p, i + 1)

Absorb(db, p, i) ==
  LET list == db.kids[db.menu[p].parent]
  IN IF i > Len(list) \/ ~Below(db, p, ShownIf(db, list[i]))
     THEN <<db, i - 1>>
     ELSE Absorb([Finalize(db, list[i], FALSE) EXCEPT !.menu[list[i]].parent = p], p, i + 1)

\* The entries of list q behind place i, up to j, become those of p.
CopiedBelow(db, p, q, i, j) ==   \* without unlinking them from q
  [db EXCEPT !.kids[p] = SubSeq(db.kids[q], i + 1, j),
             !.dir[db.menu[p].sym] = OrExpr(@, db.menu[p].dep)]
MovedBelow(db, p, q, i, j) ==
  [db EXCEPT !.kids = [@ EXCEPT ![p] = SubSeq(db.kids[q], i + 1, j),
                                ![q] = SubSeq(@, 1, i) \o SubSeq(@, j + 1, Len(@))],
             !.dir[db.menu[p].sym] = OrExpr(@, db.menu[p].dep)]
Submenu(db, p) ==
  LET q    == db.menu[p].parent
      here == CHOOSE i \in DOMAIN db.kids[q] : db.kids[q][i] = p
      Move(a) == MovedBelow(a[1], p, q, here, a[2])
  IN Move(Absorb(db, p, here + 1))

Finalize(db, p, inside) ==
  LET handed == FoldLeft(LAMBDA d, m : PropagateTo(d, p, m), db, db.kids[p])
  IN FlattenFrom(CASE db.kids[p] # <<>> -> FinalizeKids(handed, p, 1)
                   [] db.kids[p] = <<>> /\ ~inside /\ db.menu[p].sym # "" -> Submenu(db, p)
                   [] OTHER -> db,
                 p, 1)

-----------------------------------------------------------------------------
(* menu_for_each_sub_entry(): the entries below m, depth first. *)
RECURSIVE SubEntries(_, _)
SubEntries(db, m) ==
  FoldLeft(LAMBDA r, k : r \o <<k>> \o SubEntries(db, k), <<>>, db.kids[m])

(* sym_get_choice_menu(): the choice around the first entry of s that has a  *)
(* prompt, 0 when there is none.                                             *)
ChoiceMenu(db, s) ==
  LET prompted == {m \in MenusOf(db, s) : db.menu[m].prompt # 0}
      above == SelectSeq(Ancestors(db, Min(prompted)), LAMBDA m : db.menu[m].sym # "")
  IN IF prompted = {} \/ above = <<>> THEN 0
     ELSE IF db.menu[Head(above)].kind = "choice" THEN Head(above) ELSE 0

(* sym_check_deps(): depth first; st.on is SYMBOL_CHECK (being checked),     *)
(* st.done SYMBOL_CHECKED, st.bad a recursion was found.  A choice is        *)
(* checked first, then its members, which are marked all the time.           *)
LeaveMarked(st, group) == st   \* SYMBOL_CHECK is never taken back
Leave(st, group) == [st EXCEPT !.on = @ \ group]
RECURSIVE CheckSym(_, _, _), CheckNames(_, _, _)
CheckNames(db, names, st) ==
  FoldLeft(LAMBDA x, s : IF x.bad THEN x ELSE CheckSym(db, s, x), st, SetToSeq(names))

CheckSym(db, s, st) ==
  LET group == IF IsChoice(db, s)
               THEN {s} \cup ({db.menu[m].sym : m \in
                       ToSet(SubEntries(db, Min(MenusOf(db, s))))} \ {""})
               ELSE {s}
      under == UNION {CheckedNames(db, t) : t \in group \ {s}}
      into  == [st EXCEPT !.on = @ \cup group, !.done = @ \cup group]
  IN CASE s \in st.on -> [st EXCEPT !.bad = TRUE]
       [] s \in st.done \ st.on -> st
       [] s \notin st.done /\ ChoiceMenu(db, s) # 0 ->
            CheckSym(db, db.menu[ChoiceMenu(db, s)].sym, st)
       [] OTHER -> Leave(CheckNames(db, under, Leave(CheckNames(db, CheckedNames(db, s), into), {s})),
                         group)

Recursive(db) ==
  CheckNames(db, {db.menu[m].sym : m \in Entries(db)} \ {""},
             [on |-> {}, done |-> {}, bad |-> FALSE]).bad

\* The names, each after those it needs.
RECURSIVE Ordered(_, _)
Ordered(db, names) ==
  LET ready == {s \in names : s = db.modules \/ Needs(db, s) \cap names = {}}
  IN IF ready = {} THEN SetToSeq(names)
     ELSE SetToSeq(ready) \o Ordered(db, names \ ready)

Indexed(db) ==
  LET d == [db EXCEPT !.around = [s \in DOMAIN @ |-> ChoiceMenu(db, s)]]
  IN [d EXCEPT !.order = Ordered(d, Names(d))]

(* transitional_check_sanity() and choice_check_sanity(). *)
Insane(db) ==
  \/ \E m \in Entries(db) : /\ db.menu[m].sym \in db.trans
                            /\ \/ ~IsYes(db.menu[m].dep) \/ ~IsYes(db.menu[m].vis)
                               \/ \E i \in DOMAIN db.prop : db.prop[i].owner = db.menu[m].sym
  \/ \E m \in Entries(db) : /\ db.menu[m].kind = "choice"
                            /\ \E k \in ToSet(SubEntries(db, m)) : db.menu[k].sym # "" /\
                                 \E i \in DOMAIN db.prop : /\ db.prop[i].owner = db.menu[k].sym
                                    /\ \/ db.prop[i].type = "default"
                                       \/ /\ db.prop[i].type = "prompt" /\ db.prop[i].menu # k
                                          /\ db.menu[db.prop[i].menu].parent # db.menu[k].parent
=============================================================================
