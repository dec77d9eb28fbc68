---------------------------- MODULE KconfigTree ----------------------------
(* What a menu database says of its names: which are choices, where they     *)
(* stand, and which other names the value of each is computed from.          *)
(*                                                                           *)
(* A database db is a record:                                                *)
(*   menu     the entries by number, 0 being the root: kind, sym ("" when    *)
(*            it has none), parent, prompt (its property, 0 when it has      *)
(*            none), dep, vis ("visible if")                                 *)
(*   kids     the list of entries below each entry                           *)
(*   prop     the properties in the order of the source: type, owner, menu,  *)
(*            expr and cond (prop->visible.expr)                             *)
(*   type     the type of each name, the constants and numbers included      *)
(*   dir, rev, imp   dir_dep, rev_dep and implied of each name               *)
(*   trans, modules, members   the transitional symbols, the symbol with     *)
(*            "modules", the list of each choice's members                   *)
(*   cur, top, choice, bad   current_entry, current_menu, current_choice,    *)
(*            yynerrs > 0                                                    *)
(*   order, around   set when the tree is complete: the names, each after    *)
(*            those its value needs; the choice around each name, or 0       *)
EXTENDS KconfigJoin, FiniteSets, SequencesExt, FiniteSetsExt

CONSTANTS IsExpr(_),   \* an expression that the parser builds
          NamesIn(_)   \* the symbols it mentions

Entries(db)     == DOMAIN db.menu \ {0}
Names(db)       == {s \in DOMAIN db.type : db.type[s] # "unknown"} \ {"y", "m", "n"}
IsTri(db, s)    == db.type[s] \in {"bool", "tristate"}
IsChoice(db, s) == \E m \in Entries(db) : db.menu[m].sym = s /\ db.menu[m].kind = "choice"
MenusOf(db, s)  == {m \in Entries(db) : db.menu[m].sym = s}

\* The properties of s of the given types.
Own(db, s, types) == {i \in DOMAIN db.prop : db.prop[i].owner = s /\ db.prop[i].type \in types}

(* The members of a choice are looked at together.  c is the entry of the    *)
(* choice.                                                                   *)
IsMember(db, s) == db.around[s] # 0
Choice(db, c)   == db.menu[c].sym
Group(db, s)    == IF IsMember(db, s) THEN ToSet(db.members[Choice(db, db.around[s])]) ELSE {s}

(* The names a symbol's value is computed from, as sym_check_sym_deps() sees *)
(* them: its dependencies, and the conditions and values of its properties.  *)
CheckedNames(db, s) ==
  LET valued == IF IsChoice(db, s) THEN {} ELSE Own(db, s, {"default"})
  IN UNION ({NamesIn(db.dir[s]), NamesIn(db.rev[s]), NamesIn(db.imp[s])}
            \cup {NamesIn(db.prop[i].cond) : i \in Own(db, s, {"prompt", "menu", "default", "range"})}
            \cup {NamesIn(db.prop[i].expr) : i \in valued})

(* The names that a value is computed from: what is checked, the bounds of   *)
(* ranges, the symbol that allows modules, and for the members of a choice   *)
(* what the choice and the others need.                                      *)
Around(db, s) ==
  IF IsMember(db, s) THEN {Choice(db, db.around[s])} \cup {t \in Names(db) : db.around[t] = db.around[s]}
  ELSE {s}
Reads(db, s) ==
  (UNION ({CheckedNames(db, t) : t \in Around(db, s)}
          \cup {NamesIn(db.prop[i].expr) : i \in Own(db, s, {"range"})}))
  \cup (IF \E t \in Around(db, s) : db.type[t] = "tristate" THEN {db.modules} ELSE {})
Needs(db, s) == Reads(db, s) \ (Around(db, s) \cup {"y", "m", "n"})
=============================================================================
