--------------------------- MODULE KconfigSession ---------------------------
(* What conf and mconf do to the values of the symbols, whatever is read and *)
(* answered: they compute all values anew after a change, or leave the       *)
(* cached ones in place when the symbol that is set keeps its value.         *)
EXTENDS KconfigValue

VARIABLES phase,  \* what the program does
          db,     \* the menu database
          u       \* the symbols: what the user has set, and the cached values
sessionVars == <<phase, db, u>>

Parsing == {"parse", "check", "failed"}
\* There is a database, and its symbols may still change.
Live    == phase \notin Parsing \cup {"save", "exit"}

-----------------------------------------------------------------------------
(* What the parser and menu_finalize() make of a text, when it is a regular  *)
(* one.  Most of it they see to themselves; three things are up to the text: *)
(* the parser only warns of a choice default outside of the choice           *)
(* (ChoicesHaveMembers), and looks neither for members of a choice with      *)
(* conditions of their own (MembersAreAlike) nor for a condition on the      *)
(* prompt of a symbol that takes over a value (TakersAreShown).              *)

\* What is evaluated is an expression of names that the database has, in the order of
\* the source.
Known(d, e) == IsExpr(e) /\ NamesIn(e) \subseteq DOMAIN d.type
ExpressionsOnly(d) ==
  /\ DOMAIN d.prop \subseteq Nat
  /\ \A s \in Names(d) :
       /\ Known(d, d.dir[s]) /\ Known(d, d.rev[s]) /\ Known(d, d.imp[s])
       /\ \A i \in Own(d, s, {"prompt", "menu", "default", "range"}) : Known(d, d.prop[i].cond)
       /\ IsTri(d, s) => \A i \in Own(d, s, {"default"}) : Known(d, d.prop[i].expr)

\* Every name once, after all the names its value is computed from.
InOrderOfReading(d) ==
  /\ Len(d.order) \in Nat /\ DOMAIN d.order = 1 .. Len(d.order)
  /\ ToSet(d.order) = Names(d)
  /\ \A i, j \in DOMAIN d.order : d.order[i] = d.order[j] => i = j
  /\ \A i \in DOMAIN d.order :
       Reads(d, d.order[i]) \cap Names(d) \subseteq {d.order[j] : j \in 1 .. (i - 1)}

\* The names of a value or of bounds stand for the symbols that are read.
NamesRead(d) ==
  \A s \in Names(d) :
    /\ \A i \in Own(d, s, {"default"}) :
         LET e == d.prop[i].expr IN Op(e) = "sym" => Left(e) \in NamesIn(e)
    /\ \A i \in Own(d, s, {"range"}) :
         LET e == d.prop[i].expr IN {Left(e), Right(e)} \subseteq NamesIn(e)

\* A choice has its members in its menu, in its list and around them, and one of
\* them as its default (sym_choice_default() would return another symbol as well, and
\* then no member is set); no two choices are one symbol.
ChoiceEntries(d) == {c \in Entries(d) : d.menu[c].kind = "choice"}
MembersOf(d, c) == {s \in Names(d) : d.around[s] = c}
ChoicesHaveMembers(d) ==
  /\ \A s \in Names(d) : IsMember(d, s) => d.around[s] \in ChoiceEntries(d) /\ d.type[s] = "bool"
  /\ \A c \in ChoiceEntries(d) :
       /\ Choice(d, c) \in Names(d) \cap DOMAIN d.members /\ IsTri(d, Choice(d, c))
       /\ DOMAIN EntriesBelow(d, c) \subseteq Nat /\ d.members[Choice(d, c)] \in Seq(Names(d))
       /\ ToSet(d.members[Choice(d, c)]) = MembersOf(d, c)
       /\ ToSet(MenuOrder(d, c)) \ {""} = MembersOf(d, c)
       /\ \A i \in Own(d, Choice(d, c), {"default"}) : Left(d.prop[i].expr) \in MembersOf(d, c)
       /\ \A b \in ChoiceEntries(d) : Choice(d, b) = Choice(d, c) => b = c

\* The members of a choice are shown on the same conditions (LookedAll needs it).
ShownWhen(d, s) == <<s \in d.trans, {d.prop[i].cond : i \in Own(d, s, {"prompt", "menu"})}>>
MembersAreAlike(d) ==
  \A c \in ChoiceEntries(d) : \A s, t \in MembersOf(d, c) : ShownWhen(d, s) = ShownWhen(d, t)

\* A tristate that may take over the value of a transitional symbol is shown always (the
\* value it takes over would be lowered to its visibility only when it is next computed).
Takers(d) == {s \in Names(d) : \E i \in Own(d, s, {"default"}) : OfTransitional(d, d.prop[i])}
TakersAreShown(d) ==
  \A s \in Takers(d) : IsTri(d, s) => \E i \in Own(d, s, {"prompt", "menu"}) : d.prop[i].cond = Null

Regular(d) ==
  /\ "" \notin Names(d) /\ \A s \in Names(d) : d.type[s] \in {"bool", "tristate", "int"}
  /\ ExpressionsOnly(d) /\ InOrderOfReading(d) /\ NamesRead(d)
  /\ ChoicesHaveMembers(d) /\ MembersAreAlike(d) /\ TakersAreShown(d)

\* menu_finalize() hands the dependencies of an entry down to its properties: none
\* is active further than they are, now that the values are those of w.
HandedDown(d, w) ==
  \A s \in Names(d) : IsTri(d, s) /\ ~IsMember(d, s) /\ ~IsChoice(d, s) =>
    /\ s \in d.trans => Eval(d, w, d.dir[s]) = 2
    /\ \A i \in Own(d, s, {"prompt", "menu", "default"}) :
         Eval(d, w, d.prop[i].cond) <= Eval(d, w, d.dir[s])

-----------------------------------------------------------------------------
(* The steps.                                                                *)

\* What may be set: a tristate to n, m or y, the list of a choice to another order.
Settable(d, w) ==
  /\ DOMAIN w.val = DOMAIN d.type /\ DOMAIN w.prio = DOMAIN d.members
  /\ \A s \in Names(d) : IsTri(d, s) => w.val[s] \in {None} \cup 0 .. 2
  /\ \A c \in ChoiceEntries(d) : /\ w.prio[Choice(d, c)] \in Seq(Names(d))
                           /\ ToSet(w.prio[Choice(d, c)]) = MembersOf(d, c)

SessionInit == phase = "parse"

\* conf_parse()
KeepParsing == phase \in Parsing /\ phase' \in Parsing

\* A program starts with nothing set.
StartOver == /\ phase \in Parsing => phase = "check" /\ Regular(db)
             /\ u' = Untouched(db)

\* Whatever is set, sym_clear_all_valid() has all values computed anew; symbols in
\* taken then take over the value of a transitional one.
Given(w, v, taken) ==   \* what is cached in w beside what is set in v
  [val  |-> [s \in DOMAIN v.val |-> IF s \in taken THEN None ELSE v.val[s]],
   prio |-> v.prio, curr |-> w.curr, vis |-> w.vis, dir |-> w.dir, rev |-> w.rev, imp |-> w.imp]
ComputeAnew ==
  /\ phase \notin Parsing /\ Settable(db, u')
  /\ \/ u' = Recomputed(db, Given(u, u', {}))
     \/ \E taken \in SUBSET Takers(db) : u' = Fresh(db, Given(u, u', taken))

\* sym_set_tristate_value() to the value the symbol has.
SetSame ==
  /\ phase \notin Parsing
  /\ \E s \in Names(db), v \in 0 .. 2 : /\ ~IsMember(db, s) /\ WithinRange(db, u, s, v)
                                      /\ u.curr[s] = v /\ u' = SetVal(u, s, v)

\* choice_set_value() to the member that is set.
ChooseSame ==
  /\ phase \notin Parsing /\ Settable(db, u')
  /\ \E c \in ChoiceEntries(db) : \E s \in MembersIn(db, u, c) :
       /\ \A t \in MembersIn(db, u, c) : u.curr[t] = (IF t = s THEN 2 ELSE 0)
       /\ u' = ChooseMember(db, u, c, s)

SetNothing == phase \notin Parsing /\ u' = u

SessionNext ==
  \/ KeepParsing
  \/ /\ phase' \notin Parsing /\ db' = db /\ HandedDown(db, u')
     /\ StartOver \/ ComputeAnew \/ SetSame \/ ChooseSame \/ SetNothing
SessionSpec == SessionInit /\ [][SessionNext]_sessionVars

-----------------------------------------------------------------------------
(* Properties *)

\* sym_clear_all_valid() in the setters: no cached value is out of date, though
\* they leave the caches alone when the symbol keeps its value.
ValuesCurrent == Live => u.curr = Recomputed(db, u).curr

\* sym_calc_choice(): a choice one can see has one member set, whatever was set,
\* loaded or unset before.
ChoiceOne ==
  Live => \A c \in ChoiceEntries(db) : MembersIn(db, u, c) # {} =>
    Cardinality({s \in ToSet(db.members[Choice(db, c)]) : SymValue(db, u, s) = 2}) = 1

\* sym_calc_value(): no symbol is on further than its dependencies or what selects
\* it allow, whichever user value or default it has.
WithinDeps ==
  Live => \A s \in Names(db) : IsTri(db, s) /\ ~IsMember(db, s) /\ ~IsChoice(db, s) =>
    SymValue(db, u, s) <= Most(u.dir[s], u.rev[s])
=============================================================================
