------------------------- MODULE KconfigValueProofs -------------------------
(***************************************************************************)
(* The values of symbols stay true to what is set, for every regular       *)
(* database (KconfigSession) and whatever the user, a file or a mode sets. *)
(***************************************************************************)
EXTENDS KconfigSession, InductionLemmas

\* What is used of expressions: their value is one of n, m and y, depends on the values of
\* the symbols they mention only, of e && f it is the lesser one, of no expression y.
ExprLaws ==
  /\ \A e : IsExpr(e) => \A d, v, w :
       (\A s \in NamesIn(e) : SymValue(d, v, s) = SymValue(d, w, s)) => Eval(d, v, e) = Eval(d, w, e)
  /\ \A e : IsExpr(e) => \A d, w :
       (\A s \in NamesIn(e) : IsTri(d, s) => SymValue(d, w, s) \in 0 .. 2) => Eval(d, w, e) \in 0 .. 2
  /\ \A e, f : IsExpr(e) /\ IsExpr(f) =>
       \A d, w : Eval(d, w, <<"and", e, f>>) = Least(Eval(d, w, e), Eval(d, w, f))
  /\ IsExpr(Null) /\ \A d, w : Eval(d, w, Null) = 2

\* The kinds of what is cached.
Cached(d, w) ==
  /\ w = [val |-> w.val, prio |-> w.prio, curr |-> w.curr, vis |-> w.vis, dir |-> w.dir,
          rev |-> w.rev, imp |-> w.imp]
  /\ DOMAIN w.curr = Names(d) /\ w.curr = [s \in DOMAIN w.curr |-> w.curr[s]]
  /\ \A s \in Names(d) : IsTri(d, s) => w.curr[s] \in 0 .. 2
  /\ w.vis \in [Names(d) -> 0 .. 2] /\ w.dir \in [Names(d) -> 0 .. 2]
  /\ w.rev \in [Names(d) -> 0 .. 2] /\ w.imp \in [Names(d) -> 0 .. 2]
Typed(d, w) == Cached(d, w) /\ Settable(d, w)

\* Every cached value is the one that would be computed now.
LooksOf(d, w, s) == [vis |-> Shown(d, w, s), dir |-> Promote(d, w, s, Eval(d, w, d.dir[s])),
                     rev |-> Weak(d, w, s, d.rev[s]), imp |-> Weak(d, w, s, d.imp[s])]
LooksIn(w, s) == [vis |-> w.vis[s], dir |-> w.dir[s], rev |-> w.rev[s], imp |-> w.imp[s]]
Stable(d, w) ==
  \A s \in Names(d) : LooksIn(w, s) = LooksOf(d, w, s) /\ w.curr[s] = Computed(d, w, s)

SessionInv == phase \notin Parsing => Regular(db) /\ Typed(db, u) /\ Stable(db, u) /\ HandedDown(db, u)

-----------------------------------------------------------------------------
(* Reading *)

\* The values that the computation of s reads are the same in v and w.
Agree(d, v, w, s) == \A x \in Reads(d, s) : SymValue(d, v, x) = SymValue(d, w, x)

LEMMA GroupOf ==
  ASSUME NEW d, Regular(d), NEW s \in Names(d)
  PROVE  /\ Around(d, s) \subseteq Names(d) /\ Group(d, s) \subseteq Around(d, s)
         /\ s \in Group(d, s) /\ s \in Around(d, s)
<1>1. CASE IsMember(d, s)
  <2>1. /\ Choice(d, d.around[s]) \in Names(d)
        /\ d.around[s] \in ChoiceEntries(d) /\ ToSet(d.members[Choice(d, d.around[s])]) = MembersOf(d, d.around[s])
    BY <1>1 DEF Regular, ChoicesHaveMembers
  <2>2. /\ Group(d, s) = MembersOf(d, d.around[s]) /\ s \in MembersOf(d, d.around[s])
        /\ Names(d) \subseteq DOMAIN d.type
    BY <1>1, <2>1 DEF Group, MembersOf, Names
  <2>3. QED
    BY <1>1, <2>1, <2>2 DEF MembersOf, Around
<1>2. CASE ~IsMember(d, s)
  BY <1>2 DEF Group, Around
<1>3. QED
  BY <1>1, <1>2

\* What the group of s is looked at for, and what s is computed from, is among what is read.
LEMMA WhatIsRead ==
  ASSUME NEW d, NEW s, NEW t \in Around(d, s)
  PROVE  /\ NamesIn(d.dir[t]) \subseteq Reads(d, s)
         /\ NamesIn(d.rev[t]) \subseteq Reads(d, s) /\ NamesIn(d.imp[t]) \subseteq Reads(d, s)
         /\ \A i \in Own(d, t, {"prompt", "menu", "default", "range"}) :
              NamesIn(d.prop[i].cond) \subseteq Reads(d, s)
         /\ ~IsChoice(d, t) => \A i \in Own(d, t, {"default"}) : NamesIn(d.prop[i].expr) \subseteq Reads(d, s)
         /\ d.type[t] = "tristate" => d.modules \in Reads(d, s)
<1>1. CheckedNames(d, t) \subseteq Reads(d, s)
  BY DEF Reads
<1>2. /\ NamesIn(d.dir[t]) \subseteq CheckedNames(d, t) /\ NamesIn(d.rev[t]) \subseteq CheckedNames(d, t)
      /\ NamesIn(d.imp[t]) \subseteq CheckedNames(d, t)
  BY DEF CheckedNames
<1>3. ASSUME NEW i \in Own(d, t, {"prompt", "menu", "default", "range"})
      PROVE  NamesIn(d.prop[i].cond) \subseteq CheckedNames(d, t)
  BY DEF CheckedNames
<1>4. ASSUME ~IsChoice(d, t), NEW i \in Own(d, t, {"default"})
      PROVE  NamesIn(d.prop[i].expr) \subseteq CheckedNames(d, t)
  BY <1>4 DEF CheckedNames
<1>5. d.type[t] = "tristate" => d.modules \in Reads(d, s)
  BY DEF Reads
<1>6. QED
  BY <1>1, <1>2, <1>3, <1>4, <1>5

\* Own of one type is part of Own of more.
LEMMA OwnMore ==
  ASSUME NEW d, NEW s, NEW S, NEW T, S \subseteq T
  PROVE  Own(d, s, S) \subseteq Own(d, s, T)
BY DEF Own

\* The same reads give an expression the same value.
LEMMA EvalAgrees ==
  ASSUME ExprLaws, NEW d, NEW v, NEW w, NEW s, Agree(d, v, w, s), NEW e, IsExpr(e),
         NamesIn(e) \subseteq Reads(d, s)
  PROVE  Eval(d, v, e) = Eval(d, w, e)
<1>1. \A x \in NamesIn(e) : SymValue(d, v, x) = SymValue(d, w, x)
  BY DEF Agree
<1>2. QED
  BY <1>1 DEF ExprLaws

LEMMA TypeAgrees ==
  ASSUME NEW d, NEW v, NEW w, NEW s, Agree(d, v, w, s), NEW t \in Around(d, s)
  PROVE  /\ TypeOf(d, v, t) = TypeOf(d, w, t)
         /\ \A x : Promote(d, v, t, x) = Promote(d, w, t, x) /\ Upgraded(d, v, t, x) = Upgraded(d, w, t, x)
<1>1. d.type[t] = "tristate" => SymValue(d, v, d.modules) = SymValue(d, w, d.modules)
  BY WhatIsRead DEF Agree
<1>2. TypeOf(d, v, t) = TypeOf(d, w, t)
  BY <1>1 DEF TypeOf
<1>3. QED
  BY <1>2 DEF Promote, Upgraded

\* What is evaluated for a symbol is an expression.
LEMMA WhatIsEvaluated ==
  ASSUME NEW d, Regular(d), NEW t \in Names(d)
  PROVE  /\ Known(d, d.dir[t]) /\ Known(d, d.rev[t]) /\ Known(d, d.imp[t])
         /\ \A i \in Own(d, t, {"prompt", "menu"}) : Known(d, d.prop[i].cond)
         /\ \A i \in Own(d, t, {"default"}) : Known(d, d.prop[i].cond)
         /\ \A i \in Own(d, t, {"range"}) : Known(d, d.prop[i].cond)
         /\ IsTri(d, t) => \A i \in Own(d, t, {"default"}) : Known(d, d.prop[i].expr)
<1>1. /\ Own(d, t, {"prompt", "menu"}) \subseteq Own(d, t, {"prompt", "menu", "default", "range"})
      /\ Own(d, t, {"default"}) \subseteq Own(d, t, {"prompt", "menu", "default", "range"})
      /\ Own(d, t, {"range"}) \subseteq Own(d, t, {"prompt", "menu", "default", "range"})
  BY DEF Own
<1>2. ExpressionsOnly(d)
  BY DEF Regular
<1>3. QED
  BY <1>1, <1>2 DEF ExpressionsOnly

\* ... and a symbol of the group the same looks.
LEMMA LooksAgree ==
  ASSUME ExprLaws, NEW d, Regular(d), NEW s \in Names(d), NEW t \in Around(d, s), NEW v, NEW w,
         Agree(d, v, w, s)
  PROVE  LooksOf(d, v, t) = LooksOf(d, w, t)
<1> t \in Names(d)
  BY GroupOf
<1>1. Eval(d, v, d.dir[t]) = Eval(d, w, d.dir[t])
  BY EvalAgrees, WhatIsRead, WhatIsEvaluated DEF Known
<1>2. Eval(d, v, d.rev[t]) = Eval(d, w, d.rev[t])
  BY EvalAgrees, WhatIsRead, WhatIsEvaluated DEF Known
<1>3. Eval(d, v, d.imp[t]) = Eval(d, w, d.imp[t])
  BY EvalAgrees, WhatIsRead, WhatIsEvaluated DEF Known
<1>4. \A i \in Own(d, t, {"prompt", "menu"}) : Eval(d, v, d.prop[i].cond) = Eval(d, w, d.prop[i].cond)
  <2>1. Own(d, t, {"prompt", "menu"}) \subseteq Own(d, t, {"prompt", "menu", "default", "range"})
    BY OwnMore
  <2>2. QED
    BY <2>1, EvalAgrees, WhatIsRead, WhatIsEvaluated DEF Known
<1>5. Prompts(d, v, t) = Prompts(d, w, t)
  BY <1>4 DEF Prompts
<1>6. Shown(d, v, t) = Shown(d, w, t)
  BY <1>5, TypeAgrees DEF Shown
<1>7. QED
  BY <1>1, <1>2, <1>3, <1>6, TypeAgrees DEF LooksOf, Weak

LEMMA ActiveAgrees ==
  ASSUME ExprLaws, NEW d, Regular(d), NEW s \in Names(d), NEW t \in Around(d, s), NEW v, NEW w,
         Agree(d, v, w, s), NEW type \in {"default", "range"}
  PROVE  Active(d, v, t, type) = Active(d, w, t, type)
<1>1. Own(d, t, {type}) \subseteq Own(d, t, {"prompt", "menu", "default", "range"})
  BY OwnMore
<1>2. \A i \in Own(d, t, {type}) : Eval(d, v, d.prop[i].cond) = Eval(d, w, d.prop[i].cond)
  <2>1. t \in Names(d)
    BY GroupOf
  <2>2. \A i \in Own(d, t, {type}) : Known(d, d.prop[i].cond)
    <3>1. CASE type = "default"
      BY <2>1, <3>1, WhatIsEvaluated
    <3>2. CASE type = "range"
      BY <2>1, <3>2, WhatIsEvaluated
    <3>3. QED
      BY <3>1, <3>2
  <2>3. ASSUME NEW i \in Own(d, t, {type})
        PROVE  Eval(d, v, d.prop[i].cond) = Eval(d, w, d.prop[i].cond)
    <3>1. IsExpr(d.prop[i].cond)
      BY <2>2 DEF Known
    <3>2. NamesIn(d.prop[i].cond) \subseteq Reads(d, s)
      BY <1>1, WhatIsRead
    <3>3. QED
      BY <3>1, <3>2, EvalAgrees
  <2>4. QED
    BY <2>3
<1>3. QED
  BY <1>2 DEF Active

-----------------------------------------------------------------------------
(* Lists and choices *)

\* The first of a list that is in S is in S, when there is one.
LEMMA FirstIsIn ==
  ASSUME NEW list, DOMAIN list \subseteq Nat, NEW S, NEW s
  PROVE  IF ToSet(list) \cap S = {} THEN FirstOf(list, S, s) = s
         ELSE FirstOf(list, S, s) \in ToSet(list) \cap S
<1> DEFINE at == {i \in DOMAIN list : list[i] \in S}
<1>1. at = {} <=> ToSet(list) \cap S = {}
  BY DEF ToSet
<1>2. at # {} => Min(at) \in at
  BY MinOf
<1>3. FirstOf(list, S, s) = IF at = {} THEN s ELSE list[Min(at)]
  BY DEF FirstOf
<1>4. at # {} => list[Min(at)] \in ToSet(list) \cap S
  BY <1>2 DEF ToSet
<1>5. QED
  BY <1>1, <1>3, <1>4

\* The property that counts is one of those that are active.
LEMMA FirstActive ==
  ASSUME NEW d, Regular(d), NEW w, NEW s, NEW type, NEW is \in SUBSET Active(d, w, s, type), is # {}
  PROVE  Min(is) \in is /\ Min(is) \in Own(d, s, {type}) /\ Eval(d, w, d.prop[Min(is)].cond) # 0
<1>1. is \subseteq Own(d, s, {type}) /\ \A i \in is : Eval(d, w, d.prop[i].cond) # 0
  BY DEF Active
<1>2. Own(d, s, {type}) \subseteq Nat
  BY DEF Own, Regular, ExpressionsOnly
<1>3. QED
  BY <1>1, <1>2, MinOf

\* The visible members of the choice around s.
VisibleAround(d, w, s) == {t \in Group(d, s) : w.vis[t] # 0}

\* What a member knows of its choice.
LEMMA ChoiceOf ==
  ASSUME NEW d, Regular(d), NEW s \in Names(d), IsMember(d, s), NEW w, Settable(d, w),
         NEW c, c = d.around[s]
  PROVE  /\ c \in ChoiceEntries(d) /\ d.type[s] = "bool"
         /\ Choice(d, c) \in Around(d, s) /\ Group(d, s) = MembersOf(d, c)
         /\ ToSet(MenuOrder(d, c)) \ {""} = Group(d, s) /\ DOMAIN MenuOrder(d, c) \subseteq Nat
         /\ ToSet(w.prio[Choice(d, c)]) = Group(d, s) /\ DOMAIN w.prio[Choice(d, c)] \subseteq Nat
         /\ Len(w.prio[Choice(d, c)]) \in Nat
         /\ MembersIn(d, w, c) = VisibleAround(d, w, s)
         /\ Seen(w, w.prio[Choice(d, c)]) = VisibleAround(d, w, s)
         /\ "" \notin Group(d, s)
<1>1. c \in ChoiceEntries(d) /\ d.type[s] = "bool"
  BY DEF Regular, ChoicesHaveMembers
<1>2. /\ ToSet(d.members[Choice(d, c)]) = MembersOf(d, c) /\ ToSet(MenuOrder(d, c)) \ {""} = MembersOf(d, c)
      /\ DOMAIN EntriesBelow(d, c) \subseteq Nat
  BY <1>1 DEF Regular, ChoicesHaveMembers
<1>3. Group(d, s) = MembersOf(d, c) /\ Choice(d, c) \in Around(d, s)
  BY <1>2 DEF Group, Around
<1>4. "" \notin MembersOf(d, c)
  BY DEF Regular, MembersOf
<1>5. /\ w.prio[Choice(d, c)] \in Seq(Names(d)) /\ ToSet(w.prio[Choice(d, c)]) = MembersOf(d, c)
  BY <1>1 DEF Settable
<1>6. DOMAIN w.prio[Choice(d, c)] \subseteq Nat /\ Len(w.prio[Choice(d, c)]) \in Nat
  BY <1>5
<1>7. DOMAIN MenuOrder(d, c) \subseteq Nat
  BY <1>2 DEF MenuOrder
<1>8. MembersIn(d, w, c) = {t \in MembersOf(d, c) : w.vis[t] # 0}
  BY <1>2, <1>4 DEF MembersIn, Seen
<1>9. Seen(w, w.prio[Choice(d, c)]) = {t \in MembersOf(d, c) : w.vis[t] # 0}
  BY <1>4, <1>5 DEF Seen
<1>10. QED
  BY <1>1, <1>2, <1>3, <1>4, <1>5, <1>6, <1>7, <1>8, <1>9 DEF VisibleAround

\* The default of a choice is one of its visible members, if it has any.
LEMMA DefaultIsSeen ==
  ASSUME NEW d, Regular(d), NEW c \in ChoiceEntries(d), NEW w
  PROVE  LET def == ChoiceDefault(d, w, c) IN
         /\ def = "" \/ (def \in MembersOf(d, c) /\ w.vis[def] # 0)
         /\ MembersIn(d, w, c) # {} => def \in MembersIn(d, w, c)
<1> DEFINE is == Active(d, w, Choice(d, c), "default")
           named == {i \in is : w.vis[Left(d.prop[i].expr)] # 0}
           first == FirstOf(MenuOrder(d, c), MembersIn(d, w, c), "")
<1>1. /\ ToSet(MenuOrder(d, c)) \ {""} = MembersOf(d, c) /\ DOMAIN MenuOrder(d, c) \subseteq Nat
      /\ \A i \in Own(d, Choice(d, c), {"default"}) : Left(d.prop[i].expr) \in MembersOf(d, c)
  BY DEF Regular, ChoicesHaveMembers, MenuOrder
<1>2. "" \notin MembersOf(d, c)
  BY DEF Regular, MembersOf
<1>3. MembersIn(d, w, c) = {t \in MembersOf(d, c) : w.vis[t] # 0}
  BY <1>1, <1>2 DEF MembersIn, Seen
<1>4. ChoiceDefault(d, w, c) = IF named # {} THEN Left(d.prop[Min(named)].expr) ELSE first
  BY DEF ChoiceDefault
<1>5. CASE named # {}
  <2>1. Min(named) \in named /\ Min(named) \in Own(d, Choice(d, c), {"default"})
    BY <1>5, FirstActive
  <2>2. QED
    BY <1>1, <1>3, <1>4, <1>5, <2>1
<1>6. CASE named = {}
  <2>1. ToSet(MenuOrder(d, c)) \cap MembersIn(d, w, c) = MembersIn(d, w, c)
    BY <1>1, <1>3
  <2>2. IF MembersIn(d, w, c) = {} THEN first = "" ELSE first \in MembersIn(d, w, c)
    BY <1>1, <2>1, FirstIsIn
  <2>3. ChoiceDefault(d, w, c) = first
    BY <1>4, <1>6
  <2>4. QED
    BY <1>3, <2>2, <2>3
<1>7. QED
  BY <1>5, <1>6

-----------------------------------------------------------------------------
(* What a value is computed from *)

\* A value that is not that of a choice has the default that its reads give it ...
LEMMA DefaultAgrees ==
  ASSUME ExprLaws, NEW d, Regular(d), NEW s \in Names(d), ~IsChoice(d, s), NEW v, NEW w, Agree(d, v, w, s)
  PROVE  DefaultValue(d, v, s) = DefaultValue(d, w, s)
<1> DEFINE is == Active(d, v, s, "default")
           q  == d.prop[Min(is)]
<1>1. is = Active(d, w, s, "default")
  BY ActiveAgrees, GroupOf
<1>2. is # {} => ValueBy(d, v, s, q) = ValueBy(d, w, s, q)
  <2>1. SUFFICES ASSUME is # {} PROVE ValueBy(d, v, s, q) = ValueBy(d, w, s, q)
    OBVIOUS
  <2>2. Min(is) \in Own(d, s, {"default"})
    BY <2>1, FirstActive
  <2>3. /\ Known(d, q.cond) /\ (IsTri(d, s) => Known(d, q.expr))
        /\ NamesIn(q.expr) \subseteq Reads(d, s) /\ NamesIn(q.cond) \subseteq Reads(d, s)
        /\ Op(q.expr) = "sym" => Left(q.expr) \in NamesIn(q.expr)
    <3>1. s \in Around(d, s)
      BY GroupOf
    <3>2. Own(d, s, {"default"}) \subseteq Own(d, s, {"prompt", "menu", "default", "range"})
      BY OwnMore
    <3>3. /\ NamesIn(q.expr) \subseteq Reads(d, s) /\ NamesIn(q.cond) \subseteq Reads(d, s)
      BY <2>2, <3>1, <3>2, WhatIsRead
    <3>4. Known(d, q.cond) /\ (IsTri(d, s) => Known(d, q.expr))
      BY <2>2, WhatIsEvaluated
    <3>5. Op(q.expr) = "sym" => Left(q.expr) \in NamesIn(q.expr)
      BY <2>2 DEF Regular, NamesRead
    <3>6. QED
      BY <3>3, <3>4, <3>5
  <2>4. CASE IsTri(d, s)
    <3>1. IsExpr(q.expr) /\ IsExpr(q.cond)
      BY <2>3, <2>4 DEF Known
    <3>2. Eval(d, v, q.expr) = Eval(d, w, q.expr) /\ Eval(d, v, q.cond) = Eval(d, w, q.cond)
      BY <2>3, <3>1, EvalAgrees
    <3>3. Eval(d, v, <<"and", q.expr, q.cond>>) = Eval(d, w, <<"and", q.expr, q.cond>>)
      BY <3>1, <3>2 DEF ExprLaws
    <3>4. QED
      BY <2>4, <3>3 DEF ValueBy
  <2>5. CASE ~IsTri(d, s)
    <3>1. Op(q.expr) = "sym" => SymValue(d, v, Left(q.expr)) = SymValue(d, w, Left(q.expr))
      BY <2>3 DEF Agree
    <3>2. QED
      BY <2>5, <3>1 DEF ValueBy
  <2>6. QED
    BY <2>4, <2>5
<1>3. QED
  BY <1>1, <1>2 DEF DefaultValue

\* ... the range ...
LEMMA RangeAgrees ==
  ASSUME ExprLaws, NEW d, Regular(d), NEW s \in Names(d), NEW v, NEW w, Agree(d, v, w, s)
  PROVE  RangeOf(d, v, s) = RangeOf(d, w, s)
<1> DEFINE is == Active(d, v, s, "range")
           q  == d.prop[Min(is)]
<1>1. is = Active(d, w, s, "range")
  BY ActiveAgrees, GroupOf
<1>2. is # {} => Bounds(d, v, q) = Bounds(d, w, q)
  <2>1. SUFFICES ASSUME is # {} PROVE Bounds(d, v, q) = Bounds(d, w, q)
    OBVIOUS
  <2>2. Min(is) \in Own(d, s, {"range"})
    BY <2>1, FirstActive
  <2>3. {Left(q.expr), Right(q.expr)} \subseteq NamesIn(q.expr)
    BY <2>2 DEF Regular, NamesRead
  <2>4. NamesIn(q.expr) \subseteq Reads(d, s)
    BY <2>2 DEF Reads
  <2>5. QED
    BY <2>3, <2>4 DEF Agree, Bounds
<1>3. QED
  BY <1>1, <1>2 DEF RangeOf

\* The same user values and looks in the group of s: all that its value depends on then.
AlikeAround(d, v, w, s) ==
  /\ \A t \in Group(d, s) : v.val[t] = w.val[t] /\ LooksIn(v, t) = LooksIn(w, t)
  /\ IsMember(d, s) => v.prio[Choice(d, d.around[s])] = w.prio[Choice(d, d.around[s])]

\* ... and a member the member that is set.
LEMMA ChoiceAgrees ==
  ASSUME ExprLaws, NEW d, Regular(d), NEW s \in Names(d), IsMember(d, s), NEW v, NEW w,
         Settable(d, v), Settable(d, w), Agree(d, v, w, s), AlikeAround(d, v, w, s)
  PROVE  ChoiceValue(d, v, d.around[s]) = ChoiceValue(d, w, d.around[s])
<1> DEFINE c    == d.around[s]
           G    == Group(d, s)
           prio == v.prio[Choice(d, c)]
           all  == VisibleAround(d, v, s)
<1>1. /\ c \in ChoiceEntries(d) /\ Choice(d, c) \in Around(d, s) /\ G = MembersOf(d, c)
      /\ MembersIn(d, v, c) = all /\ Seen(v, prio) = all
  BY ChoiceOf
<1>2. /\ w.prio[Choice(d, c)] = prio
      /\ \A t \in G : v.val[t] = w.val[t] /\ v.vis[t] = w.vis[t]
  BY DEF AlikeAround, LooksIn
<1>3. MembersIn(d, w, c) = all /\ Seen(w, prio) = all
  <2>1. MembersIn(d, w, c) = VisibleAround(d, w, s) /\ Seen(w, prio) = VisibleAround(d, w, s)
    BY <1>2, ChoiceOf
  <2>2. VisibleAround(d, w, s) = all
    BY <1>2 DEF VisibleAround
  <2>3. QED
    BY <2>1, <2>2
<1>4. ChoiceDefault(d, v, c) = ChoiceDefault(d, w, c)
  <2>1. Active(d, v, Choice(d, c), "default") = Active(d, w, Choice(d, c), "default")
    BY <1>1, ActiveAgrees
  <2>2. \A i \in Active(d, v, Choice(d, c), "default") : Left(d.prop[i].expr) \in G
    <3>1. \A i \in Own(d, Choice(d, c), {"default"}) : Left(d.prop[i].expr) \in MembersOf(d, c)
      BY <1>1 DEF Regular, ChoicesHaveMembers
    <3>2. Active(d, v, Choice(d, c), "default") \subseteq Own(d, Choice(d, c), {"default"})
      BY DEF Active
    <3>3. QED
      BY <1>1, <3>1, <3>2
  <2>3. {i \in Active(d, v, Choice(d, c), "default") : v.vis[Left(d.prop[i].expr)] # 0}
          = {i \in Active(d, w, Choice(d, c), "default") : w.vis[Left(d.prop[i].expr)] # 0}
    BY <1>2, <2>1, <2>2
  <2>4. QED
    BY <1>1, <1>3, <2>3 DEF ChoiceDefault
<1> DEFINE def == ChoiceDefault(d, v, c)
<1>5. def # "" => v.val[def] = w.val[def]
  BY <1>1, <1>2, DefaultIsSeen
<1>6. {t \in all : ~HasValue(v, t)} = {t \in all : ~HasValue(w, t)}
  BY <1>2 DEF HasValue, VisibleAround
<1>7. {t \in all : v.val[t] = 2} = {t \in all : w.val[t] = 2}
  BY <1>2 DEF VisibleAround
<1> HIDE DEF def
<1>8. Unchosen(d, v, c, def) = Unchosen(d, w, c, def)
  BY <1>1, <1>2, <1>3, <1>5, <1>6 DEF Unchosen
<1>9. QED
  BY <1>1, <1>2, <1>3, <1>4, <1>7, <1>8 DEF ChoiceValue, def

\* The three ways to compute a value.
LEMMA Cases ==
  ASSUME NEW d, NEW w, NEW s
  PROVE  /\ d.type[s] = "int" => Computed(d, w, s) = Clamp(RangeOf(d, w, s), IntValue(d, w, s))
         /\ IsTri(d, s) /\ IsMember(d, s) => Computed(d, w, s) = MemberValue(d, w, s)
         /\ IsTri(d, s) /\ ~IsMember(d, s) => Computed(d, w, s) = PlainTri(d, w, s)
<1>1. CASE d.type[s] = "int"
  BY <1>1 DEF Computed, IsTri
<1>2. CASE IsTri(d, s) /\ IsMember(d, s)
  <2>1. d.type[s] # "int"
    BY <1>2 DEF IsTri
  <2>2. QED
    BY <1>2, <2>1 DEF Computed
<1>3. CASE IsTri(d, s) /\ ~IsMember(d, s)
  <2>1. d.type[s] # "int"
    BY <1>3 DEF IsTri
  <2>2. QED
    BY <1>3, <2>1 DEF Computed
<1>4. QED
  BY <1>1, <1>2, <1>3

LEMMA ComputedAgrees ==
  ASSUME ExprLaws, NEW d, Regular(d), NEW s \in Names(d), NEW v, NEW w,
         Settable(d, v), Settable(d, w), Agree(d, v, w, s), AlikeAround(d, v, w, s)
  PROVE  Computed(d, v, s) = Computed(d, w, s)
<1>1. /\ s \in Group(d, s) /\ s \in Around(d, s) /\ d.type[s] \in {"bool", "tristate", "int"}
  BY GroupOf DEF Regular
<1>2. /\ v.val[s] = w.val[s] /\ v.vis[s] = w.vis[s] /\ v.dir[s] = w.dir[s]
      /\ v.rev[s] = w.rev[s] /\ v.imp[s] = w.imp[s] /\ HasValue(v, s) = HasValue(w, s)
  BY <1>1 DEF AlikeAround, LooksIn, HasValue
<1>3. CASE d.type[s] = "int"
  <2>1. ~IsChoice(d, s)
    BY <1>3 DEF IsChoice, Regular, ChoicesHaveMembers, ChoiceEntries, IsTri, Choice
  <2>2. DefaultValue(d, v, s) = DefaultValue(d, w, s) /\ RangeOf(d, v, s) = RangeOf(d, w, s)
    BY <2>1, DefaultAgrees, RangeAgrees
  <2>3. QED
    BY <1>2, <1>3, <2>2, Cases DEF IntValue
<1>4. CASE IsTri(d, s) /\ IsMember(d, s)
  <2>1. ChoiceValue(d, v, d.around[s]) = ChoiceValue(d, w, d.around[s])
    BY <1>4, ChoiceAgrees
  <2>2. MemberValue(d, v, s) = MemberValue(d, w, s)
    BY <1>2, <2>1 DEF MemberValue
  <2>3. QED
    BY <1>4, <2>2, Cases
<1>5. CASE IsTri(d, s) /\ ~IsMember(d, s)
  <2>1. ~IsChoice(d, s) => DefaultValue(d, v, s) = DefaultValue(d, w, s)
    BY DefaultAgrees
  <2>2. \A x : Promote(d, v, s, x) = Promote(d, w, s, x)
    BY <1>1, TypeAgrees
  <2>3. PlainTri(d, v, s) = PlainTri(d, w, s)
    BY <1>2, <2>1, <2>2 DEF PlainTri, OrImplied
  <2>4. QED
    BY <1>5, <2>3, Cases
<1>6. QED
  BY <1>1, <1>3, <1>4, <1>5 DEF IsTri

-----------------------------------------------------------------------------
(* The kinds of what is computed *)

\* An expression is worth n, m or y, whatever is cached.
LEMMA EvalTyped ==
  ASSUME ExprLaws, NEW d, NEW w, Cached(d, w), NEW e, Known(d, e)
  PROVE  Eval(d, w, e) \in 0 .. 2
<1>1. ASSUME NEW x \in NamesIn(e), IsTri(d, x) PROVE SymValue(d, w, x) \in 0 .. 2
  <2>1. x \in DOMAIN d.type /\ d.type[x] # "unknown"
    BY <1>1 DEF Known, IsTri
  <2>2. CASE x \in Names(d)
    BY <1>1, <2>2 DEF Cached, SymValue
  <2>3. CASE x \notin Names(d)
    <3>1. x \in {"y", "m", "n"} /\ x \notin DOMAIN w.curr /\ x \notin DOMAIN Numbers
      BY <2>1, <2>3, NumbersAssumption DEF Names, Cached
    <3>2. Const(x) \in 0 .. 2
      BY <3>1 DEF Const
    <3>3. QED
      BY <3>1, <3>2 DEF SymValue
  <2>4. QED
    BY <2>2, <2>3
<1>2. QED
  BY <1>1 DEF ExprLaws, Known

LEMMA PromoteTyped ==
  ASSUME NEW d, NEW w, NEW s, NEW x \in 0 .. 2
  PROVE  Promote(d, w, s, x) \in 0 .. 2 /\ Upgraded(d, w, s, x) \in 0 .. 2
BY DEF Promote, Upgraded

\* What counts for the visibility of s.
LEMMA PromptsTyped ==
  ASSUME ExprLaws, NEW d, Regular(d), NEW w, Cached(d, w), NEW s \in Names(d)
  PROVE  LET all == {0} \cup Prompts(d, w, s)
         IN Prompts(d, w, s) \subseteq 0 .. 2 /\ Max(all) \in all /\ \A x \in all : x <= Max(all)
<1> DEFINE all == {0} \cup Prompts(d, w, s)
<1>1. Prompts(d, w, s) \subseteq 0 .. 2
  BY EvalTyped, WhatIsEvaluated DEF Prompts
<1>2. all \in SUBSET (0 .. 2) /\ all # {}
  BY <1>1
<1> HIDE DEF all
<1>3. Max(all) \in all /\ \A x \in all : x <= Max(all)
  BY <1>2, MaxOf
<1>4. QED
  BY <1>1, <1>3 DEF all

LEMMA LooksTyped ==
  ASSUME ExprLaws, NEW d, Regular(d), NEW w, Cached(d, w), NEW s \in Names(d)
  PROVE  /\ Shown(d, w, s) \in 0 .. 2 /\ Promote(d, w, s, Eval(d, w, d.dir[s])) \in 0 .. 2
         /\ Weak(d, w, s, d.rev[s]) \in 0 .. 2 /\ Weak(d, w, s, d.imp[s]) \in 0 .. 2
<1>1. Eval(d, w, d.dir[s]) \in 0 .. 2 /\ Eval(d, w, d.rev[s]) \in 0 .. 2 /\ Eval(d, w, d.imp[s]) \in 0 .. 2
  BY EvalTyped, WhatIsEvaluated
<1>2. Max({0} \cup Prompts(d, w, s)) \in 0 .. 2
  BY PromptsTyped
<1>3. Shown(d, w, s) \in 0 .. 2
  BY <1>2, PromoteTyped DEF Shown
<1>4. QED
  BY <1>1, <1>3, PromoteTyped DEF Weak

LEMMA DefaultTyped ==
  ASSUME ExprLaws, NEW d, Regular(d), NEW w, Cached(d, w), NEW s \in Names(d), IsTri(d, s)
  PROVE  /\ DefaultValue(d, w, s) \in 0 .. 2
         /\ DefaultValue(d, w, s) # 0 => \E i \in Own(d, s, {"default"}) :
              DefaultValue(d, w, s) <= Eval(d, w, d.prop[i].cond)
<1> DEFINE is == Active(d, w, s, "default")
           q  == d.prop[Min(is)]
<1>1. CASE is = {}
  BY <1>1 DEF DefaultValue
<1>2. CASE is # {}
  <2>1. Min(is) \in Own(d, s, {"default"})
    BY <1>2, FirstActive
  <2>2. Known(d, q.cond) /\ Known(d, q.expr)
    BY <2>1, WhatIsEvaluated
  <2>3. Eval(d, w, q.cond) \in 0 .. 2 /\ Eval(d, w, q.expr) \in 0 .. 2
    BY <2>2, EvalTyped
  <2>4. Eval(d, w, <<"and", q.expr, q.cond>>) = Least(Eval(d, w, q.expr), Eval(d, w, q.cond))
    BY <2>2 DEF ExprLaws, Known
  <2>5. DefaultValue(d, w, s) = Least(Eval(d, w, q.expr), Eval(d, w, q.cond))
    BY <1>2, <2>4 DEF DefaultValue, ValueBy
  <2>6. QED
    BY <2>1, <2>3, <2>5 DEF Least
<1>3. QED
  BY <1>1, <1>2

LEMMA ComputedTyped ==
  ASSUME ExprLaws, NEW d, Regular(d), NEW w, Typed(d, w), NEW s \in Names(d), IsTri(d, s)
  PROVE  Computed(d, w, s) \in 0 .. 2
<1>1. /\ w.vis[s] \in 0 .. 2 /\ w.dir[s] \in 0 .. 2 /\ w.rev[s] \in 0 .. 2 /\ w.imp[s] \in 0 .. 2
      /\ w.val[s] # None => w.val[s] \in 0 .. 2
  BY DEF Typed, Cached, Settable
<1>2. CASE IsMember(d, s)
  BY <1>2, Cases DEF MemberValue
<1>3. CASE ~IsMember(d, s)
  <2>1. DefaultValue(d, w, s) \in 0 .. 2
    BY DefaultTyped DEF Typed
  <2>2. \A x \in 0 .. 2 : OrImplied(w, s, x) \in 0 .. 2
    BY <1>1 DEF OrImplied, Least, Most
  <2> DEFINE x == IF w.vis[s] # 0 /\ HasValue(w, s) THEN Least(w.val[s], w.vis[s])
                  ELSE OrImplied(w, s, IF IsChoice(d, s) THEN 0 ELSE DefaultValue(d, w, s))
  <2>3. x \in 0 .. 2
    BY <1>1, <2>1, <2>2 DEF HasValue, Least
  <2>4. PlainTri(d, w, s) = Promote(d, w, s, Most(w.rev[s], x))
    BY DEF PlainTri
  <2> HIDE DEF x
  <2>5. Most(w.rev[s], x) \in 0 .. 2
    BY <1>1, <2>3 DEF Most
  <2>6. QED
    BY <1>3, <2>4, <2>5, Cases, PromoteTyped
<1>4. QED
  BY <1>2, <1>3

-----------------------------------------------------------------------------
(* One step of the computation *)

\* What it sets: the looks of the group of s, then the value of s.
LEMMA Looked ==
  ASSUME ExprLaws, NEW d, Regular(d), NEW w, Typed(d, w), NEW s \in Names(d), NEW x, x = LookedAll(d, w, s)
  PROVE  /\ Typed(d, x) /\ x.val = w.val /\ x.prio = w.prio /\ x.curr = w.curr
         /\ \A t \in Names(d) : LooksIn(x, t) = IF t \in Group(d, s) THEN LooksOf(d, w, t) ELSE LooksIn(w, t)
<1> DEFINE G   == Group(d, s)
           vis == [t \in Names(d) |-> IF t \in G THEN Shown(d, w, t) ELSE w.vis[t]]
           dir == [t \in Names(d) |-> IF t \in G THEN Promote(d, w, t, Eval(d, w, d.dir[t])) ELSE w.dir[t]]
           rev == [t \in Names(d) |-> IF t \in G THEN Weak(d, w, t, d.rev[t]) ELSE w.rev[t]]
           imp == [t \in Names(d) |-> IF t \in G THEN Weak(d, w, t, d.imp[t]) ELSE w.imp[t]]
<1>1. /\ w = [val |-> w.val, prio |-> w.prio, curr |-> w.curr, vis |-> w.vis, dir |-> w.dir,
              rev |-> w.rev, imp |-> w.imp]
      /\ DOMAIN w.vis = Names(d) /\ DOMAIN w.dir = Names(d) /\ DOMAIN w.rev = Names(d) /\ DOMAIN w.imp = Names(d)
  BY DEF Typed, Cached
<1>2. x = [val |-> w.val, prio |-> w.prio, curr |-> w.curr, vis |-> vis, dir |-> dir, rev |-> rev, imp |-> imp]
  BY <1>1 DEF LookedAll
<1>3. /\ vis \in [Names(d) -> 0 .. 2] /\ dir \in [Names(d) -> 0 .. 2]
      /\ rev \in [Names(d) -> 0 .. 2] /\ imp \in [Names(d) -> 0 .. 2]
  BY LooksTyped DEF Typed, Cached
<1>4. \A t \in Names(d) :
        /\ vis[t] = IF t \in G THEN Shown(d, w, t) ELSE w.vis[t]
        /\ dir[t] = IF t \in G THEN Promote(d, w, t, Eval(d, w, d.dir[t])) ELSE w.dir[t]
        /\ rev[t] = IF t \in G THEN Weak(d, w, t, d.rev[t]) ELSE w.rev[t]
        /\ imp[t] = IF t \in G THEN Weak(d, w, t, d.imp[t]) ELSE w.imp[t]
  OBVIOUS
<1> HIDE DEF vis, dir, rev, imp
<1>5. /\ x.val = w.val /\ x.prio = w.prio /\ x.curr = w.curr /\ x.vis = vis /\ x.dir = dir
      /\ x.rev = rev /\ x.imp = imp
      /\ x = [val |-> x.val, prio |-> x.prio, curr |-> x.curr, vis |-> x.vis, dir |-> x.dir,
              rev |-> x.rev, imp |-> x.imp]
  BY <1>2
<1>6. Typed(d, x)
  BY <1>3, <1>5 DEF Typed, Cached, Settable
<1>7. ASSUME NEW t \in Names(d)
      PROVE  LooksIn(x, t) = IF t \in G THEN LooksOf(d, w, t) ELSE LooksIn(w, t)
  BY <1>4, <1>5 DEF LooksIn, LooksOf
<1>8. QED
  BY <1>5, <1>6, <1>7

Step(d, w, s) == Evaluated(d, LookedAll(d, w, s), s)
LEMMA Stepped ==
  ASSUME ExprLaws, NEW d, Regular(d), NEW w, Typed(d, w), NEW s \in Names(d),
         NEW x, x = LookedAll(d, w, s), NEW y, y = Step(d, w, s)
  PROVE  /\ Typed(d, y) /\ y.val = w.val /\ y.prio = w.prio /\ y.curr[s] = Computed(d, x, s)
         /\ \A t \in Names(d) \ {s} : y.curr[t] = w.curr[t]
         /\ \A t \in Names(d) : LooksIn(y, t) = IF t \in Group(d, s) THEN LooksOf(d, w, t) ELSE LooksIn(w, t)
<1> DEFINE curr == [x.curr EXCEPT ![s] = Computed(d, x, s)]
<1>1. /\ Typed(d, x) /\ x.val = w.val /\ x.prio = w.prio /\ x.curr = w.curr
      /\ \A t \in Names(d) : LooksIn(x, t) = IF t \in Group(d, s) THEN LooksOf(d, w, t) ELSE LooksIn(w, t)
  BY Looked
<1>2. /\ x = [val |-> x.val, prio |-> x.prio, curr |-> x.curr, vis |-> x.vis, dir |-> x.dir,
              rev |-> x.rev, imp |-> x.imp]
      /\ DOMAIN x.curr = Names(d) /\ x.curr = [t \in DOMAIN x.curr |-> x.curr[t]]
      /\ \A t \in Names(d) : IsTri(d, t) => x.curr[t] \in 0 .. 2
  BY <1>1 DEF Typed, Cached
<1>3. y = [val |-> x.val, prio |-> x.prio, curr |-> curr, vis |-> x.vis, dir |-> x.dir,
           rev |-> x.rev, imp |-> x.imp]
  BY <1>2 DEF Step, Evaluated
<1>4. /\ DOMAIN curr = Names(d) /\ curr = [t \in DOMAIN curr |-> curr[t]]
      /\ curr[s] = Computed(d, x, s) /\ \A t \in Names(d) \ {s} : curr[t] = w.curr[t]
  BY <1>1, <1>2
<1> HIDE DEF curr
<1>5. /\ y.val = x.val /\ y.prio = x.prio /\ y.curr = curr /\ y.vis = x.vis /\ y.dir = x.dir
      /\ y.rev = x.rev /\ y.imp = x.imp
      /\ y = [val |-> y.val, prio |-> y.prio, curr |-> y.curr, vis |-> y.vis, dir |-> y.dir,
              rev |-> y.rev, imp |-> y.imp]
  BY <1>3
<1>6. \A t \in Names(d) : IsTri(d, t) => curr[t] \in 0 .. 2
  <2>1. IsTri(d, s) => Computed(d, x, s) \in 0 .. 2
    BY <1>1, ComputedTyped
  <2>2. QED
    BY <1>1, <1>2, <1>4, <2>1
<1>7. Typed(d, y)
  BY <1>1, <1>4, <1>5, <1>6 DEF Typed, Cached, Settable
<1>8. \A t \in Names(d) : LooksIn(y, t) = LooksIn(x, t)
  BY <1>5 DEF LooksIn
<1>9. QED
  BY <1>1, <1>4, <1>5, <1>7, <1>8

\* The states between the steps, from w to what is computed.
Stages(d, w, at) ==
  /\ at[0] = w /\ at[Len(d.order)] = Recomputed(d, w)
  /\ \A i \in 1 .. Len(d.order) : at[i] = Step(d, at[i - 1], d.order[i])

\* The first n of them, as Recomputed() defines them.
Staged(d, w, n, g) ==
  g = [i \in 0 .. n |-> IF i = 0 THEN w
                        ELSE Evaluated(d, LookedAll(d, g[i - 1], d.order[i]), d.order[i])]

LEMMA StagesExist ==
  ASSUME NEW d, Len(d.order) \in Nat, NEW w
  PROVE  \E at : Stages(d, w, at)
<1> DEFINE T == {n \in Nat : \E g : Staged(d, w, n, g)}
<1>1. 0 \in T
  <2>1. Staged(d, w, 0, [i \in 0 .. 0 |-> w])
    BY DEF Staged
  <2>2. QED
    BY <2>1
<1>2. ASSUME NEW n \in T PROVE n + 1 \in T
  <2>1. n \in Nat
    OBVIOUS
  <2>2. PICK g : Staged(d, w, n, g)
    OBVIOUS
  <2> DEFINE h == [i \in 0 .. n + 1 |-> IF i = n + 1 THEN Step(d, g[n], d.order[n + 1]) ELSE g[i]]
  <2>3. \A i \in 0 .. n : h[i] = g[i]
    BY <2>1
  <2>4. h[n + 1] = Step(d, g[n], d.order[n + 1]) /\ n \in 0 .. n /\ (n + 1) - 1 = n
    BY <2>1
  <2>5. \A i \in 0 .. n : g[i] = IF i = 0 THEN w ELSE Step(d, g[i - 1], d.order[i])
    BY <2>2 DEF Staged, Step
  <2>6. \A i \in 0 .. n : i # 0 => i - 1 \in 0 .. n
    BY <2>1
  <2>7. \A i \in 0 .. n + 1 : i \in 0 .. n \/ i = n + 1
    BY <2>1
  <2>8. DOMAIN h = 0 .. n + 1 /\ h = [i \in 0 .. n + 1 |-> h[i]]
    OBVIOUS
  <2> HIDE DEF h
  <2>9. \A i \in 0 .. n + 1 : h[i] = IF i = 0 THEN w ELSE Step(d, h[i - 1], d.order[i])
    <3>1. \A i \in 0 .. n : h[i] = IF i = 0 THEN w ELSE Step(d, h[i - 1], d.order[i])
      BY <2>3, <2>5, <2>6
    <3>2. h[n + 1] = Step(d, h[(n + 1) - 1], d.order[n + 1]) /\ n + 1 # 0
      BY <2>1, <2>3, <2>4
    <3>3. QED
      BY <2>7, <3>1, <3>2
  <2>10. Staged(d, w, n + 1, h)
    BY <2>8, <2>9 DEF Staged, Step
  <2>11. QED
    BY <2>1, <2>10
<1>3. T = Nat
  <2> HIDE DEF T
  <2>1. T \subseteq Nat
    BY DEF T
  <2>2. QED
    BY <1>1, <1>2, <2>1, NatSet
<1>4. \E g : Staged(d, w, Len(d.order), g)
  BY <1>3
<1> DEFINE n  == Len(d.order)
           at == CHOOSE g : Staged(d, w, n, g)
<1>5. Staged(d, w, n, at)
  BY <1>4
<1>6. Recomputed(d, w) = at[n]
  BY DEF Recomputed, Staged
<1> HIDE DEF at
<1>7. \A i \in 0 .. n : at[i] = IF i = 0 THEN w ELSE Step(d, at[i - 1], d.order[i])
  BY <1>5 DEF Staged, Step
<1>8. Stages(d, w, at)
  BY <1>6, <1>7 DEF Stages
<1>9. QED
  BY <1>8

-----------------------------------------------------------------------------
(* All steps *)

\* Every state on the way is of the same kind, with the same user values.
LEMMA StagesTyped ==
  ASSUME ExprLaws, NEW d, Regular(d), NEW w, Typed(d, w), NEW at, Stages(d, w, at)
  PROVE  \A i \in 0 .. Len(d.order) : Typed(d, at[i]) /\ at[i].val = w.val /\ at[i].prio = w.prio
<1> DEFINE n == Len(d.order)
           P(i) == Typed(d, at[i]) /\ at[i].val = w.val /\ at[i].prio = w.prio
           T == {i \in Nat : P(i)}
<1>1. n \in Nat /\ \A i \in 1 .. n : d.order[i] \in Names(d)
  BY DEF Regular, InOrderOfReading, ToSet
<1>2. 0 \in T
  BY DEF Stages
<1>3. ASSUME NEW i \in T, i < n PROVE i + 1 \in T
  <2>1. i \in Nat /\ i + 1 \in 1 .. n /\ (i + 1) - 1 = i /\ P(i)
    BY <1>1, <1>3
  <2>2. at[i + 1] = Step(d, at[i], d.order[i + 1]) /\ d.order[i + 1] \in Names(d)
    BY <1>1, <2>1 DEF Stages
  <2>3. P(i + 1)
    BY <2>1, <2>2, Stepped
  <2>4. QED
    BY <2>1, <2>3
<1>4. 0 .. n \subseteq T
  <2> HIDE DEF T
  <2>1. QED
    BY <1>1, <1>2, <1>3, UpToSet
<1>5. QED
  BY <1>4

\* The value computed in a step stays.
LEMMA StagesKeep ==
  ASSUME ExprLaws, NEW d, Regular(d), NEW w, Typed(d, w), NEW at, Stages(d, w, at), NEW j \in 1 .. Len(d.order)
  PROVE  \A i \in j .. Len(d.order) : at[i].curr[d.order[j]] = at[j].curr[d.order[j]]
<1> DEFINE n == Len(d.order)
           P(i) == at[i].curr[d.order[j]] = at[j].curr[d.order[j]]
           T == {i \in Nat : j <= i => P(i)}
<1>1. /\ n \in Nat /\ j \in 1 .. n /\ \A i \in 1 .. n : d.order[i] \in Names(d)
      /\ \A i \in 1 .. n : d.order[i] = d.order[j] => i = j
  BY DEF Regular, InOrderOfReading, ToSet
<1>2. 0 \in T
  BY <1>1
<1>3. ASSUME NEW i \in T, i < n PROVE i + 1 \in T
  <2>1. i \in Nat /\ i + 1 \in 1 .. n /\ (i + 1) - 1 = i /\ i \in 0 .. n
    BY <1>1, <1>3
  <2>2. SUFFICES ASSUME j <= i + 1 PROVE P(i + 1)
    BY <2>1
  <2>3. CASE j = i + 1
    BY <2>3
  <2>4. CASE j # i + 1
    <3>1. P(i)
      BY <1>1, <2>1, <2>2, <2>4
    <3>2. at[i + 1] = Step(d, at[i], d.order[i + 1]) /\ d.order[i + 1] \in Names(d) /\ Typed(d, at[i])
      BY <1>1, <2>1, StagesTyped DEF Stages
    <3>3. d.order[j] \in Names(d) \ {d.order[i + 1]}
      BY <1>1, <2>1, <2>4
    <3>4. at[i + 1].curr[d.order[j]] = at[i].curr[d.order[j]]
      BY <3>2, <3>3, Stepped
    <3>5. QED
      BY <3>1, <3>4
  <2>5. QED
    BY <2>3, <2>4
<1>4. 0 .. n \subseteq T
  <2> HIDE DEF T
  <2>1. QED
    BY <1>1, <1>2, <1>3, UpToSet
<1>5. QED
  BY <1>1, <1>4

\* What a step reads is what is there in the end.
LEMMA StagesAgree ==
  ASSUME ExprLaws, NEW d, Regular(d), NEW w, Typed(d, w), NEW at, Stages(d, w, at), NEW i \in 1 .. Len(d.order)
  PROVE  Agree(d, at[i - 1], Recomputed(d, w), d.order[i])
<1> DEFINE n == Len(d.order)
           s == d.order[i]
           z == Recomputed(d, w)
<1>1. /\ n \in Nat /\ i - 1 \in 0 .. n /\ z = at[n] /\ n \in 0 .. n /\ s \in Names(d)
      /\ Reads(d, s) \cap Names(d) \subseteq {d.order[j] : j \in 1 .. (i - 1)}
  <2>1. InOrderOfReading(d) /\ z = at[n]
    BY DEF Regular, Stages
  <2>2. n \in Nat /\ i \in DOMAIN d.order
    BY <2>1 DEF InOrderOfReading
  <2>3. s \in Names(d) /\ Reads(d, s) \cap Names(d) \subseteq {d.order[j] : j \in 1 .. (i - 1)}
    BY <2>1, <2>2 DEF InOrderOfReading, ToSet
  <2>4. QED
    BY <2>1, <2>2, <2>3
<1>2. DOMAIN at[i - 1].curr = Names(d) /\ DOMAIN z.curr = Names(d)
  <2>1. Typed(d, at[i - 1]) /\ Typed(d, at[n])
    BY <1>1, StagesTyped
  <2>2. QED
    BY <1>1, <2>1 DEF Typed, Cached
<1>3. ASSUME NEW x \in Reads(d, s) PROVE SymValue(d, at[i - 1], x) = SymValue(d, z, x)
  <2>1. CASE x \in Names(d)
    <3>1. PICK j \in 1 .. (i - 1) : x = d.order[j]
      BY <1>1, <1>3, <2>1
    <3>2. j \in 1 .. n /\ n \in j .. n /\ i - 1 \in j .. n
      BY <1>1
    <3>3. at[i - 1].curr[x] = at[j].curr[x] /\ z.curr[x] = at[j].curr[x]
      BY <1>1, <3>1, <3>2, StagesKeep
    <3>4. QED
      BY <1>2, <2>1, <3>3 DEF SymValue
  <2>2. CASE x \notin Names(d)
    BY <1>2, <2>2 DEF SymValue
  <2>3. QED
    BY <2>1, <2>2
<1>4. QED
  BY <1>3 DEF Agree

\* The looks computed in a step stay.
LEMMA StagesLook ==
  ASSUME ExprLaws, NEW d, Regular(d), NEW w, Typed(d, w), NEW at, Stages(d, w, at)
  PROVE  \A i \in 0 .. Len(d.order) : \A k \in 1 .. i : \A t \in Group(d, d.order[k]) :
           LooksIn(at[i], t) = LooksOf(d, Recomputed(d, w), t)
<1> DEFINE n == Len(d.order)
           z == Recomputed(d, w)
           P(i) == \A k \in 1 .. i : \A t \in Group(d, d.order[k]) : LooksIn(at[i], t) = LooksOf(d, z, t)
           T == {i \in Nat : P(i)}
<1>1. n \in Nat /\ \A i \in 1 .. n : d.order[i] \in Names(d)
  BY DEF Regular, InOrderOfReading, ToSet
<1>2. 0 \in T
  OBVIOUS
<1>3. ASSUME NEW i \in T, i < n PROVE i + 1 \in T
  <2>1. i \in Nat /\ i + 1 \in 1 .. n /\ (i + 1) - 1 = i /\ i \in 0 .. n /\ P(i)
    BY <1>1, <1>3
  <2> DEFINE s == d.order[i + 1]
  <2>2. at[i + 1] = Step(d, at[i], s) /\ s \in Names(d) /\ Typed(d, at[i])
    BY <1>1, <2>1, StagesTyped DEF Stages
  <2>3. Agree(d, at[i], z, s)
    BY <2>1, StagesAgree
  <2>4. \A t \in Names(d) :
          LooksIn(at[i + 1], t) = IF t \in Group(d, s) THEN LooksOf(d, at[i], t) ELSE LooksIn(at[i], t)
    BY <2>2, Stepped
  <2>5. \A t \in Group(d, s) : t \in Names(d) /\ LooksOf(d, at[i], t) = LooksOf(d, z, t)
    BY <2>2, <2>3, GroupOf, LooksAgree
  <2>6. ASSUME NEW k \in 1 .. i + 1, NEW t \in Group(d, d.order[k])
        PROVE  LooksIn(at[i + 1], t) = LooksOf(d, z, t)
    <3>1. k \in 1 .. n
      BY <1>1, <2>1
    <3>2. t \in Names(d)
      BY <1>1, <3>1, GroupOf
    <3>3. CASE t \in Group(d, s)
      BY <2>4, <2>5, <3>3
    <3>4. CASE t \notin Group(d, s)
      <4>1. k \in 1 .. i
        BY <2>1, <3>4
      <4>2. LooksIn(at[i], t) = LooksOf(d, z, t)
        BY <2>1, <4>1
      <4>3. QED
        BY <2>4, <3>2, <3>4, <4>2
    <3>5. QED
      BY <3>3, <3>4
  <2>7. QED
    BY <2>1, <2>6
<1>4. 0 .. n \subseteq T
  <2> HIDE DEF T
  <2>1. QED
    BY <1>1, <1>2, <1>3, UpToSet
<1>5. QED
  BY <1>4

\* Whatever was cached, what is computed from the user's values is true to them.
LEMMA RecomputedStable ==
  ASSUME ExprLaws, NEW d, Regular(d), NEW w, Typed(d, w), NEW z, z = Recomputed(d, w)
  PROVE  Typed(d, z) /\ Stable(d, z) /\ z.val = w.val /\ z.prio = w.prio
<1> DEFINE n == Len(d.order)
<1>1. /\ n \in Nat /\ \A i \in 1 .. n : d.order[i] \in Names(d)
      /\ \A s \in Names(d) : \E i \in 1 .. n : d.order[i] = s
  BY DEF Regular, InOrderOfReading, ToSet
<1>2. PICK at : Stages(d, w, at)
  BY <1>1, StagesExist
<1>3. z = at[n] /\ n \in 0 .. n
  BY <1>1, <1>2 DEF Stages
<1>4. Typed(d, z) /\ z.val = w.val /\ z.prio = w.prio
  BY <1>2, <1>3, StagesTyped
<1>5. \A k \in 1 .. n : \A t \in Group(d, d.order[k]) : LooksIn(z, t) = LooksOf(d, z, t)
  <2>1. \A i \in 0 .. n : \A k \in 1 .. i : \A t \in Group(d, d.order[k]) :
          LooksIn(at[i], t) = LooksOf(d, Recomputed(d, w), t)
    BY <1>2, StagesLook
  <2>2. QED
    BY <1>3, <2>1
<1>6. ASSUME NEW i \in 1 .. n PROVE z.curr[d.order[i]] = Computed(d, z, d.order[i])
  <2> DEFINE s == d.order[i]
             x == LookedAll(d, at[i - 1], s)
  <2>1. i - 1 \in 0 .. n /\ n \in i .. n /\ s \in Names(d) /\ at[i] = Step(d, at[i - 1], s)
    BY <1>1, <1>2 DEF Stages
  <2>2. Typed(d, at[i - 1]) /\ at[i - 1].val = w.val /\ at[i - 1].prio = w.prio
    BY <1>2, <2>1, StagesTyped
  <2>3. z.curr[s] = at[i].curr[s]
    BY <1>2, <1>3, <2>1, StagesKeep
  <2>4. at[i].curr[s] = Computed(d, x, s)
    BY <2>1, <2>2, Stepped
  <2>5. Agree(d, at[i - 1], z, s)
    BY <1>2, StagesAgree
  <2>6. /\ Typed(d, x) /\ x.val = at[i - 1].val /\ x.prio = at[i - 1].prio /\ x.curr = at[i - 1].curr
        /\ \A t \in Names(d) :
             LooksIn(x, t) = IF t \in Group(d, s) THEN LooksOf(d, at[i - 1], t) ELSE LooksIn(at[i - 1], t)
    BY <2>1, <2>2, Looked
  <2> HIDE DEF x
  <2>7. \A t \in Group(d, s) : LooksIn(x, t) = LooksIn(z, t)
    <3>1. \A t \in Group(d, s) : t \in Names(d) /\ t \in Around(d, s)
      BY <2>1, GroupOf
    <3>2. \A t \in Group(d, s) : LooksOf(d, at[i - 1], t) = LooksOf(d, z, t)
      BY <2>1, <2>5, <3>1, LooksAgree
    <3>3. QED
      BY <1>5, <2>6, <3>1, <3>2
  <2>8. Agree(d, x, z, s)
    BY <2>5, <2>6 DEF Agree, SymValue
  <2>9. AlikeAround(d, x, z, s)
    BY <1>4, <2>2, <2>6, <2>7 DEF AlikeAround
  <2>10. Computed(d, x, s) = Computed(d, z, s)
    BY <1>4, <2>1, <2>6, <2>8, <2>9, ComputedAgrees DEF Typed
  <2>11. QED
    BY <2>3, <2>4, <2>10
<1>7. ASSUME NEW s \in Names(d) PROVE LooksIn(z, s) = LooksOf(d, z, s) /\ z.curr[s] = Computed(d, z, s)
  <2>1. PICK i \in 1 .. n : d.order[i] = s
    BY <1>1
  <2>2. s \in Group(d, s)
    BY GroupOf
  <2>3. QED
    BY <1>5, <1>6, <2>1, <2>2
<1>8. QED
  BY <1>4, <1>7 DEF Stable

\* Values that are true to the user's are computed again as they are.
LEMMA StableRecomputed ==
  ASSUME ExprLaws, NEW d, Regular(d), NEW w, Typed(d, w), Stable(d, w)
  PROVE  Recomputed(d, w) = w
<1> DEFINE n == Len(d.order)
<1>1. n \in Nat /\ \A i \in 1 .. n : d.order[i] \in Names(d)
  BY DEF Regular, InOrderOfReading, ToSet
<1>2. PICK at : Stages(d, w, at)
  BY <1>1, StagesExist
<1>3. /\ w = [val |-> w.val, prio |-> w.prio, curr |-> w.curr, vis |-> w.vis, dir |-> w.dir,
              rev |-> w.rev, imp |-> w.imp]
      /\ DOMAIN w.curr = Names(d) /\ w.curr = [s \in DOMAIN w.curr |-> w.curr[s]]
      /\ w.vis \in [Names(d) -> 0 .. 2] /\ w.dir \in [Names(d) -> 0 .. 2]
      /\ w.rev \in [Names(d) -> 0 .. 2] /\ w.imp \in [Names(d) -> 0 .. 2]
  BY DEF Typed, Cached
<1>4. ASSUME NEW s \in Names(d) PROVE Step(d, w, s) = w
  <2>1. \A t \in Names(d) :
          /\ w.vis[t] = Shown(d, w, t) /\ w.dir[t] = Promote(d, w, t, Eval(d, w, d.dir[t]))
          /\ w.rev[t] = Weak(d, w, t, d.rev[t]) /\ w.imp[t] = Weak(d, w, t, d.imp[t])
    BY DEF Stable, LooksIn, LooksOf
  <2>2. LookedAll(d, w, s).vis = w.vis
    BY <1>3, <2>1 DEF LookedAll
  <2>3. LookedAll(d, w, s).dir = w.dir
    BY <1>3, <2>1 DEF LookedAll
  <2>4. LookedAll(d, w, s).rev = w.rev
    BY <1>3, <2>1 DEF LookedAll
  <2>5. LookedAll(d, w, s).imp = w.imp
    BY <1>3, <2>1 DEF LookedAll
  <2> DEFINE x == LookedAll(d, w, s)
  <2>6. /\ x.val = w.val /\ x.prio = w.prio /\ x.curr = w.curr
        /\ x = [val |-> x.val, prio |-> x.prio, curr |-> x.curr, vis |-> x.vis, dir |-> x.dir,
              rev |-> x.rev, imp |-> x.imp]
    <3>1. Typed(d, x) /\ x.val = w.val /\ x.prio = w.prio /\ x.curr = w.curr
      BY Looked
    <3> HIDE DEF x
    <3>2. QED
      BY <3>1 DEF Typed, Cached
  <2>7. x = w
    BY <1>3, <2>2, <2>3, <2>4, <2>5, <2>6
  <2> HIDE DEF x
  <2>8. Computed(d, x, s) = w.curr[s]
    BY <2>7 DEF Stable
  <2>9. [x.curr EXCEPT ![s] = Computed(d, x, s)] = w.curr
    BY <1>3, <2>7, <2>8
  <2>10. Evaluated(d, x, s) = w
    BY <1>3, <2>7, <2>9 DEF Evaluated
  <2>11. QED
    BY <2>10 DEF Step, x
<1> DEFINE T == {i \in Nat : at[i] = w}
<1>5. 0 \in T
  BY <1>2 DEF Stages
<1>6. ASSUME NEW i \in T, i < n PROVE i + 1 \in T
  <2>1. i \in Nat /\ i + 1 \in 1 .. n /\ (i + 1) - 1 = i /\ at[i] = w
    BY <1>1, <1>6
  <2>2. at[i + 1] = Step(d, at[i], d.order[i + 1])
    BY <1>2, <2>1 DEF Stages
  <2>3. QED
    BY <1>1, <1>4, <2>1, <2>2
<1>7. 0 .. n \subseteq T
  <2> HIDE DEF T
  <2>1. QED
    BY <1>1, <1>5, <1>6, UpToSet
<1>8. QED
  BY <1>1, <1>2, <1>7 DEF Stages

-----------------------------------------------------------------------------
(* Setting a value without computing the others anew *)

\* The same is cached.
SameCaches(y, z) ==
  y = [val |-> y.val, prio |-> y.prio, curr |-> z.curr, vis |-> z.vis, dir |-> z.dir,
       rev |-> z.rev, imp |-> z.imp]

\* Values stay true when the symbols whose user's values have changed compute to the same.
LEMMA StableMoves ==
  ASSUME ExprLaws, NEW d, Regular(d), NEW z, Typed(d, z), Stable(d, z),
         NEW y, Settable(d, y), SameCaches(y, z),
         \A s \in Names(d) : AlikeAround(d, y, z, s) \/ Computed(d, y, s) = z.curr[s]
  PROVE  Typed(d, y) /\ Stable(d, y)
<1>1. /\ y = [val |-> y.val, prio |-> y.prio, curr |-> y.curr, vis |-> y.vis, dir |-> y.dir,
              rev |-> y.rev, imp |-> y.imp]
      /\ y.curr = z.curr /\ y.vis = z.vis /\ y.dir = z.dir /\ y.rev = z.rev /\ y.imp = z.imp
  BY DEF Typed, Cached, SameCaches
<1>2. Typed(d, y)
  BY <1>1 DEF Typed, Cached
<1>3. ASSUME NEW s \in Names(d) PROVE LooksIn(y, s) = LooksOf(d, y, s) /\ y.curr[s] = Computed(d, y, s)
  <2>1. Agree(d, y, z, s)
    BY <1>1 DEF Agree, SymValue
  <2>2. LooksOf(d, y, s) = LooksOf(d, z, s)
    BY <2>1, GroupOf, LooksAgree
  <2>3. LooksIn(y, s) = LooksIn(z, s)
    BY <1>1 DEF LooksIn
  <2>4. LooksIn(z, s) = LooksOf(d, z, s) /\ z.curr[s] = Computed(d, z, s)
    BY DEF Stable
  <2>5. Computed(d, y, s) = Computed(d, z, s)
    BY <2>1, <2>4, ComputedAgrees DEF Typed
  <2>6. QED
    BY <1>1, <2>2, <2>3, <2>4, <2>5
<1>4. QED
  BY <1>2, <1>3 DEF Stable

\* Nothing but the user's values of symbols outside choices.
LEMMA AlikeElsewhere ==
  ASSUME NEW d, Regular(d), NEW z, NEW y, SameCaches(y, z), Cached(d, z), y.prio = z.prio, NEW s \in Names(d),
         \A t \in Names(d) : y.val[t] = z.val[t] \/ (~IsMember(d, t) /\ t # s)
  PROVE  AlikeAround(d, y, z, s)
<1>1. y.vis = z.vis /\ y.dir = z.dir /\ y.rev = z.rev /\ y.imp = z.imp
  BY DEF SameCaches, Cached
<1>2. \A t \in Group(d, s) : t \in Names(d) /\ (IsMember(d, t) \/ t = s)
  <2>1. \A t \in Group(d, s) : t \in Names(d)
    BY GroupOf
  <2>2. CASE IsMember(d, s)
    <3>1. d.around[s] \in ChoiceEntries(d) /\ ToSet(d.members[Choice(d, d.around[s])]) = MembersOf(d, d.around[s])
      BY <2>2 DEF Regular, ChoicesHaveMembers
    <3>2. Group(d, s) = MembersOf(d, d.around[s])
      BY <2>2, <3>1 DEF Group
    <3>3. QED
      BY <2>1, <2>2, <3>2 DEF MembersOf, IsMember
  <2>3. CASE ~IsMember(d, s)
    BY <2>1, <2>3 DEF Group
  <2>4. QED
    BY <2>2, <2>3
<1>3. QED
  BY <1>1, <1>2 DEF AlikeAround, LooksIn

\* What is promoted is not promoted again, and is no less.
LEMMA Promoted ==
  ASSUME NEW d, NEW w, NEW s, NEW x \in 0 .. 2, NEW y, y = Promote(d, w, s, x)
  PROVE  y >= x /\ Promote(d, w, s, y) = y /\ (y = 1 => TypeOf(d, w, s) # "bool")
BY DEF Promote

\* sym_set_tristate_value() to the value the symbol has.
LEMMA SetSameStable ==
  ASSUME ExprLaws, NEW d, Regular(d), NEW z, Typed(d, z), Stable(d, z),
         NEW s \in Names(d), NEW v \in 0 .. 2, ~IsMember(d, s), WithinRange(d, z, s, v), z.curr[s] = v,
         NEW y, y = SetVal(z, s, v)
  PROVE  Typed(d, y) /\ Stable(d, y)
<1> DEFINE val == [z.val EXCEPT ![s] = v]
<1>1. /\ z = [val |-> z.val, prio |-> z.prio, curr |-> z.curr, vis |-> z.vis, dir |-> z.dir,
              rev |-> z.rev, imp |-> z.imp]
      /\ DOMAIN z.val = DOMAIN d.type /\ s \in DOMAIN d.type
  BY DEF Typed, Cached, Settable, Names
<1>2. y = [val |-> val, prio |-> z.prio, curr |-> z.curr, vis |-> z.vis, dir |-> z.dir,
           rev |-> z.rev, imp |-> z.imp]
  BY <1>1 DEF SetVal
<1>3. val[s] = v /\ DOMAIN val = DOMAIN z.val /\ \A t \in DOMAIN d.type \ {s} : val[t] = z.val[t]
  BY <1>1
<1> HIDE DEF val
<1>4. y.val = val /\ y.prio = z.prio /\ y.vis = z.vis /\ y.rev = z.rev /\ y.curr = z.curr
  BY <1>2
<1>5. SameCaches(y, z)
  BY <1>1, <1>2, <1>4 DEF SameCaches
<1>6. Settable(d, y)
  <2>1. \A t \in Names(d) : t \in DOMAIN d.type
    BY DEF Names
  <2>2. \A t \in Names(d) : IsTri(d, t) => y.val[t] \in {None} \cup 0 .. 2
    BY <1>3, <1>4, <2>1 DEF Typed, Settable
  <2>3. QED
    BY <1>3, <1>4, <2>2 DEF Typed, Settable
<1>7. ASSUME NEW t \in Names(d), t # s PROVE AlikeAround(d, y, z, t)
  <2>1. \A x \in Names(d) : y.val[x] = z.val[x] \/ (~IsMember(d, x) /\ x # t)
    BY <1>3, <1>4, <1>7 DEF Names
  <2>2. QED
    BY <1>4, <1>5, <2>1, AlikeElsewhere DEF Typed
<1>8. Computed(d, y, s) = v
  <2>1. /\ IsTri(d, s) /\ z.vis[s] > z.rev[s] /\ v \in z.rev[s] .. z.vis[s]
        /\ ~(TypeOf(d, z, s) = "bool" /\ v = 1)
    BY DEF WithinRange
  <2>2. z.vis[s] \in 0 .. 2 /\ z.rev[s] \in 0 .. 2
    BY DEF Typed, Cached
  <2>3. TypeOf(d, y, s) = TypeOf(d, z, s)
    BY <1>4 DEF TypeOf, SymValue
  <2>4. y.vis[s] # 0 /\ HasValue(y, s) /\ y.val[s] = v /\ y.vis[s] = z.vis[s] /\ y.rev[s] = z.rev[s]
    BY <1>3, <1>4, <2>1, <2>2, NoneAssumption DEF HasValue
  <2>5. Most(y.rev[s], Least(y.val[s], y.vis[s])) = v
    BY <2>1, <2>2, <2>4 DEF Most, Least
  <2>6. PlainTri(d, y, s) = Promote(d, y, s, v)
    BY <2>4, <2>5 DEF PlainTri
  <2>7. Promote(d, y, s, v) = v
    BY <2>1, <2>3 DEF Promote
  <2>8. QED
    BY <2>1, <2>6, <2>7, Cases
<1>9. QED
  BY <1>5, <1>6, <1>7, <1>8, StableMoves

\* choice_set_value() to the member that is set.
LEMMA ChooseSameStable ==
  ASSUME ExprLaws, NEW d, Regular(d), NEW z, Typed(d, z), Stable(d, z),
         NEW c \in ChoiceEntries(d), NEW s \in MembersIn(d, z, c),
         \A t \in MembersIn(d, z, c) : z.curr[t] = (IF t = s THEN 2 ELSE 0),
         NEW y, y = ChooseMember(d, z, c, s), Settable(d, y)
  PROVE  Typed(d, y) /\ Stable(d, y)
<1> DEFINE M    == MembersIn(d, z, c)
           v    == [t \in M |-> IF t = s THEN 2 ELSE 0]
           val  == [t \in DOMAIN z.val |-> IF t \in M THEN v[t] ELSE z.val[t]]
           list == FoldLeft(Fronted, z.prio[Choice(d, c)], ShownOf(d, z, c))
           prio == [z.prio EXCEPT ![Choice(d, c)] = list]
<1>1. /\ z = [val |-> z.val, prio |-> z.prio, curr |-> z.curr, vis |-> z.vis, dir |-> z.dir,
              rev |-> z.rev, imp |-> z.imp]
      /\ DOMAIN z.val = DOMAIN d.type
  BY DEF Typed, Cached, Settable
<1>2. y = Chosen(d, z, c, v)
  BY DEF ChooseMember
<1>3. y = [val |-> val, prio |-> prio, curr |-> z.curr, vis |-> z.vis, dir |-> z.dir,
           rev |-> z.rev, imp |-> z.imp]
  BY <1>1, <1>2 DEF Chosen
<1>4. \A t \in DOMAIN d.type : val[t] = IF t \in M THEN (IF t = s THEN 2 ELSE 0) ELSE z.val[t]
  BY <1>1
<1>5. \A b \in DOMAIN z.prio \ {Choice(d, c)} : prio[b] = z.prio[b]
  OBVIOUS
<1> HIDE DEF val, prio
<1>6. /\ y.val = val /\ y.prio = prio /\ y.curr = z.curr /\ y.vis = z.vis /\ y.dir = z.dir
      /\ y.rev = z.rev /\ y.imp = z.imp
  BY <1>3
<1>7. SameCaches(y, z)
  BY <1>3, <1>6 DEF SameCaches
<1>8. M \subseteq MembersOf(d, c)
  BY DEF MembersIn, Seen, Regular, ChoicesHaveMembers
<1>9. ASSUME NEW t \in Names(d), d.around[t] # c PROVE AlikeAround(d, y, z, t)
  <2>1. \A x \in Group(d, t) : x \in Names(d) /\ x \in DOMAIN d.type /\ x \notin M
    <3>1. CASE IsMember(d, t)
      <4>1. Group(d, t) = MembersOf(d, d.around[t])
        BY <3>1 DEF Group, Regular, ChoicesHaveMembers
      <4>2. QED
        BY <1>8, <1>9, <4>1 DEF MembersOf, Names
    <3>2. CASE ~IsMember(d, t)
      BY <1>8, <1>9, <3>2 DEF Group, MembersOf, Names
    <3>3. QED
      BY <3>1, <3>2
  <2>2. \A x \in Group(d, t) : y.val[x] = z.val[x] /\ LooksIn(y, x) = LooksIn(z, x)
    BY <1>4, <1>6, <2>1 DEF LooksIn
  <2>3. ASSUME IsMember(d, t)
        PROVE  y.prio[Choice(d, d.around[t])] = z.prio[Choice(d, d.around[t])]
    <3>1. d.around[t] \in ChoiceEntries(d)
      BY <2>3 DEF Regular, ChoicesHaveMembers
    <3>2. Choice(d, d.around[t]) # Choice(d, c)
      BY <1>9, <3>1 DEF Regular, ChoicesHaveMembers
    <3>3. Choice(d, d.around[t]) \in DOMAIN z.prio
      BY <3>1 DEF Typed, Settable, Regular, ChoicesHaveMembers
    <3>4. QED
      BY <1>5, <1>6, <3>2, <3>3
  <2>4. QED
    BY <2>2, <2>3 DEF AlikeAround
<1>10. ASSUME NEW t \in Names(d), d.around[t] = c PROVE Computed(d, y, t) = z.curr[t]
  <2>1. c # 0
    BY DEF ChoiceEntries, Entries
  <2>2. IsMember(d, t) /\ d.type[t] = "bool" /\ IsTri(d, t)
    BY <1>10, <2>1 DEF IsMember, IsTri, Regular, ChoicesHaveMembers
  <2>3. /\ Seen(y, y.prio[Choice(d, c)]) = VisibleAround(d, y, t)
        /\ ToSet(y.prio[Choice(d, c)]) = Group(d, t) /\ DOMAIN y.prio[Choice(d, c)] \subseteq Nat
    BY <1>10, <2>2, ChoiceOf
  <2>4. M = VisibleAround(d, z, t) /\ t \in Group(d, t)
    BY <1>10, <2>2, ChoiceOf, GroupOf DEF Typed
  <2>5. VisibleAround(d, y, t) = M
    BY <1>6, <2>4 DEF VisibleAround
  <2>6. {x \in M : y.val[x] = 2} = {s}
    <3>1. \A x \in M : x \in DOMAIN d.type
      BY <1>8 DEF MembersOf, Names
    <3>2. QED
      BY <1>4, <1>6, <3>1
  <2>7. FirstOf(y.prio[Choice(d, c)], {s}, Unchosen(d, y, c, ChoiceDefault(d, y, c))) = s
    <3>1. s \in ToSet(y.prio[Choice(d, c)])
      BY <2>3, <2>4 DEF VisibleAround
    <3>2. QED
      BY <2>3, <3>1, FirstIsIn
  <2>8. ChoiceValue(d, y, c) = s
    BY <2>3, <2>5, <2>6, <2>7 DEF ChoiceValue
  <2>9. Computed(d, y, t) = IF y.vis[t] # 0 /\ s = t THEN 2 ELSE 0
    BY <1>10, <2>2, <2>8, Cases DEF MemberValue
  <2>10. CASE t \in M
    BY <1>6, <2>4, <2>9, <2>10 DEF VisibleAround
  <2>11. CASE t \notin M
    <3>1. z.vis[t] = 0
      BY <2>4, <2>11 DEF VisibleAround
    <3>2. Computed(d, z, t) = 0
      BY <2>2, <3>1, Cases DEF MemberValue
    <3>3. QED
      BY <1>6, <2>9, <3>1, <3>2 DEF Stable
  <2>12. QED
    BY <2>10, <2>11
<1>11. QED
  BY <1>7, <1>9, <1>10, StableMoves

\* A tristate that takes over the value of a transitional one keeps its own.
LEMMA TakenTristate ==
  ASSUME ExprLaws, NEW d, Regular(d), NEW z, Typed(d, z), Stable(d, z),
         NEW y, SameCaches(y, z), NEW s \in Names(d), s \in Takers(d), IsTri(d, s), ~IsMember(d, s),
         y.val[s] = z.curr[s]
  PROVE  Computed(d, y, s) = z.curr[s]
<1>1. /\ z.vis[s] \in 0 .. 2 /\ z.rev[s] \in 0 .. 2 /\ z.imp[s] \in 0 .. 2 /\ z.dir[s] \in 0 .. 2
      /\ z.curr[s] \in 0 .. 2
      /\ y.curr = z.curr /\ y.vis = z.vis /\ y.rev = z.rev
  BY DEF Typed, Cached, SameCaches
<1>2. z.vis[s] = 2
  <2>1. z.vis[s] = Shown(d, z, s)
    BY DEF Stable, LooksIn, LooksOf
  <2>2. CASE s \in d.trans
    BY <2>1, <2>2 DEF Shown
  <2>3. CASE s \notin d.trans
    <3>1. PICK i \in Own(d, s, {"prompt", "menu"}) : d.prop[i].cond = Null
      BY DEF Regular, TakersAreShown
    <3>2. Eval(d, z, d.prop[i].cond) = 2
      BY <3>1 DEF ExprLaws
    <3>3. 2 \in Prompts(d, z, s)
      BY <3>2 DEF Prompts
    <3>4. Max({0} \cup Prompts(d, z, s)) \in 0 .. 2 /\ 2 <= Max({0} \cup Prompts(d, z, s))
      BY <3>3, PromptsTyped DEF Typed
    <3>5. QED
      BY <2>1, <2>3, <3>4 DEF Shown, Upgraded
  <2>4. QED
    BY <2>2, <2>3
<1>3. PICK x \in 0 .. 2 : z.curr[s] = Promote(d, z, s, x) /\ x >= z.rev[s]
  <2> DEFINE a == IF z.vis[s] # 0 /\ HasValue(z, s) THEN Least(z.val[s], z.vis[s])
                  ELSE OrImplied(z, s, IF IsChoice(d, s) THEN 0 ELSE DefaultValue(d, z, s))
  <2>1. z.curr[s] = Promote(d, z, s, Most(z.rev[s], a))
    BY Cases DEF Stable, PlainTri
  <2>2. a \in 0 .. 2
    <3>1. DefaultValue(d, z, s) \in 0 .. 2
      BY DefaultTyped DEF Typed
    <3>2. z.val[s] # None => z.val[s] \in 0 .. 2
      BY DEF Typed, Settable
    <3>3. \A b \in 0 .. 2 : OrImplied(z, s, b) \in 0 .. 2
      BY <1>1 DEF OrImplied, Least, Most
    <3>4. QED
      BY <1>1, <3>1, <3>2, <3>3 DEF HasValue, Least
  <2> HIDE DEF a
  <2>3. Most(z.rev[s], a) \in 0 .. 2 /\ Most(z.rev[s], a) >= z.rev[s]
    BY <1>1, <2>2 DEF Most
  <2>4. QED
    BY <2>1, <2>3
<1>4. z.curr[s] >= z.rev[s] /\ Promote(d, z, s, z.curr[s]) = z.curr[s]
  BY <1>1, <1>3, Promoted
<1>5. y.vis[s] # 0 /\ HasValue(y, s) /\ y.val[s] = z.curr[s] /\ y.vis[s] = 2 /\ y.rev[s] = z.rev[s]
  BY <1>1, <1>2, NoneAssumption DEF HasValue
<1>6. Most(y.rev[s], Least(y.val[s], y.vis[s])) = z.curr[s]
  BY <1>1, <1>4, <1>5 DEF Most, Least
<1>7. PlainTri(d, y, s) = Promote(d, y, s, z.curr[s])
  BY <1>5, <1>6 DEF PlainTri
<1>8. TypeOf(d, y, s) = TypeOf(d, z, s)
  BY <1>1 DEF TypeOf, SymValue
<1>9. Promote(d, y, s, z.curr[s]) = Promote(d, z, s, z.curr[s])
  BY <1>8 DEF Promote
<1>10. QED
  BY <1>4, <1>7, <1>9, Cases

\* An int takes over what its default gives it anyway.
LEMMA TakenInt ==
  ASSUME ExprLaws, NEW d, Regular(d), NEW z, Typed(d, z), Stable(d, z),
         NEW y, SameCaches(y, z), NEW s \in Names(d), d.type[s] = "int", ~IsChoice(d, s), ~HasValue(z, s),
         y.val[s] = DefaultValue(d, z, s)
  PROVE  Computed(d, y, s) = z.curr[s]
<1>1. y.curr = z.curr
  BY DEF Typed, Cached, SameCaches
<1>2. Agree(d, y, z, s)
  BY <1>1 DEF Agree, SymValue
<1>3. DefaultValue(d, y, s) = DefaultValue(d, z, s) /\ RangeOf(d, y, s) = RangeOf(d, z, s)
  BY <1>2, DefaultAgrees, RangeAgrees
<1>4. IntValue(d, y, s) = IntValue(d, z, s)
  BY <1>3 DEF IntValue
<1>5. Computed(d, y, s) = Computed(d, z, s)
  BY <1>3, <1>4, Cases
<1>6. QED
  BY <1>5 DEF Stable

LEMMA AdoptStable ==
  ASSUME ExprLaws, NEW d, Regular(d), NEW z, Typed(d, z), Stable(d, z), NEW y, y = Adopt(d, z)
  PROVE  Typed(d, y) /\ Stable(d, y)
<1> DEFINE new(t)  == IF IsTri(d, t) THEN SymValue(d, z, t) ELSE DefaultValue(d, z, t)
           gets(t) == t \in ToSet(d.order) /\ Adopts(d, z, t)
           val     == [t \in DOMAIN z.val |-> IF gets(t) THEN new(t) ELSE z.val[t]]
<1>1. /\ z = [val |-> z.val, prio |-> z.prio, curr |-> z.curr, vis |-> z.vis, dir |-> z.dir,
              rev |-> z.rev, imp |-> z.imp]
      /\ DOMAIN z.val = DOMAIN d.type /\ DOMAIN z.curr = Names(d)
  BY DEF Typed, Cached, Settable
<1>2. y = [val |-> val, prio |-> z.prio, curr |-> z.curr, vis |-> z.vis, dir |-> z.dir,
           rev |-> z.rev, imp |-> z.imp]
  BY <1>1 DEF Adopt
<1>3. DOMAIN val = DOMAIN z.val /\ \A t \in Names(d) : val[t] = IF gets(t) THEN new(t) ELSE z.val[t]
  BY <1>1 DEF Names
<1>4. ASSUME NEW t \in Names(d), gets(t)
      PROVE  ~IsMember(d, t) /\ ~IsChoice(d, t) /\ ~HasValue(z, t) /\ t \in Takers(d)
  <2> DEFINE is == Active(d, z, t, "default")
  <2>1. ~IsMember(d, t) /\ ~IsChoice(d, t) /\ ~HasValue(z, t) /\ Replaces(d, z, is)
    BY <1>4 DEF Adopts
  <2>2. is # {} /\ OfTransitional(d, d.prop[Min(is)])
    BY <2>1 DEF Replaces
  <2>3. Min(is) \in Own(d, t, {"default"})
    BY <2>2, FirstActive
  <2>4. QED
    BY <2>1, <2>2, <2>3 DEF Takers
<1> HIDE DEF val, gets
<1>5. y.val = val /\ y.prio = z.prio /\ y.curr = z.curr
  BY <1>2
<1>6. SameCaches(y, z)
  BY <1>2, <1>5 DEF SameCaches
<1>7. \A t \in Names(d) : IsTri(d, t) /\ gets(t) => y.val[t] = z.curr[t] /\ y.val[t] \in 0 .. 2
  BY <1>1, <1>3, <1>5 DEF SymValue, Typed, Cached
<1>8. Settable(d, y)
  <2>1. \A t \in Names(d) : IsTri(d, t) => y.val[t] \in {None} \cup 0 .. 2
    BY <1>3, <1>5, <1>7 DEF Typed, Settable
  <2>2. QED
    BY <1>1, <1>3, <1>5, <2>1 DEF Typed, Settable
<1>9. ASSUME NEW t \in Names(d) PROVE AlikeAround(d, y, z, t) \/ Computed(d, y, t) = z.curr[t]
  <2>1. CASE gets(t) /\ IsTri(d, t)
    BY <1>4, <1>6, <1>7, <2>1, TakenTristate
  <2>2. CASE gets(t) /\ ~IsTri(d, t)
    <3>1. d.type[t] = "int"
      BY <2>2 DEF Regular, IsTri
    <3>2. y.val[t] = DefaultValue(d, z, t)
      BY <1>3, <1>5, <2>2
    <3>3. QED
      BY <1>4, <1>6, <2>2, <3>1, <3>2, TakenInt
  <2>3. CASE ~gets(t)
    <3>1. \A x \in Names(d) : y.val[x] = z.val[x] \/ (~IsMember(d, x) /\ x # t)
      BY <1>3, <1>4, <1>5, <2>3
    <3>2. QED
      BY <1>5, <1>6, <3>1, AlikeElsewhere DEF Typed
  <2>4. QED
    BY <2>1, <2>2, <2>3
<1>10. QED
  BY <1>6, <1>8, <1>9, StableMoves

LEMMA UntouchedStable ==
  ASSUME ExprLaws, NEW d, Regular(d)
  PROVE  Typed(d, Untouched(d)) /\ Stable(d, Untouched(d))
<1> DEFINE none == [s \in Names(d) |-> 0]
           w    == [val  |-> [s \in DOMAIN d.type |-> None], prio |-> d.members,
                    curr |-> none, vis |-> none, dir |-> none, rev |-> none, imp |-> none]
<1>1. Untouched(d) = Recomputed(d, w)
  BY DEF Untouched
<1>2. none \in [Names(d) -> 0 .. 2] /\ DOMAIN none = Names(d) /\ none = [s \in DOMAIN none |-> none[s]]
  OBVIOUS
<1> HIDE DEF none
<1>3. Cached(d, w)
  BY <1>2 DEF Cached
<1>4. Settable(d, w)
  <2>1. \A s \in Names(d) : w.val[s] = None
    BY DEF Names
  <2>2. \A c \in ChoiceEntries(d) : /\ w.prio[Choice(d, c)] \in Seq(Names(d))
                                    /\ ToSet(w.prio[Choice(d, c)]) = MembersOf(d, c)
    BY DEF Regular, ChoicesHaveMembers
  <2>3. QED
    BY <2>1, <2>2 DEF Settable
<1> HIDE DEF w
<1>5. QED
  BY <1>1, <1>3, <1>4, RecomputedStable DEF Typed

\* The user's values and lists of v beside what is cached in w.
LEMMA GivenTyped ==
  ASSUME NEW d, NEW w, Typed(d, w), NEW v, Settable(d, v), NEW taken
  PROVE  Typed(d, Given(w, v, taken))
<1> DEFINE val == [s \in DOMAIN v.val |-> IF s \in taken THEN None ELSE v.val[s]]
           x   == [val |-> val, prio |-> v.prio, curr |-> w.curr, vis |-> w.vis, dir |-> w.dir,
                   rev |-> w.rev, imp |-> w.imp]
<1>1. Given(w, v, taken) = x
  BY DEF Given
<1>2. DOMAIN val = DOMAIN v.val /\ \A s \in DOMAIN v.val : val[s] = IF s \in taken THEN None ELSE v.val[s]
  OBVIOUS
<1> HIDE DEF val
<1>3. /\ x.val = val /\ x.prio = v.prio /\ x.curr = w.curr /\ x.vis = w.vis /\ x.dir = w.dir
      /\ x.rev = w.rev /\ x.imp = w.imp
      /\ x = [val |-> x.val, prio |-> x.prio, curr |-> x.curr, vis |-> x.vis, dir |-> x.dir,
              rev |-> x.rev, imp |-> x.imp]
  OBVIOUS
<1> HIDE DEF x
<1>4. Cached(d, x)
  BY <1>3 DEF Typed, Cached
<1>5. Settable(d, x)
  BY <1>2, <1>3 DEF Settable, Names
<1>6. Typed(d, x)
  BY <1>4, <1>5 DEF Typed
<1>7. QED
  BY <1>1, <1>6

-----------------------------------------------------------------------------
(* The session *)

\* SessionInv is inductive: every setter leaves cached values that are true to what is set.
LEMMA SessionInvariant == ExprLaws => (SessionSpec => []SessionInv)
<1> SUFFICES ASSUME ExprLaws PROVE SessionSpec => []SessionInv
  OBVIOUS
<1>1. SessionInit => SessionInv
  BY DEF SessionInit, SessionInv, Parsing
<1>2. SessionInv /\ [SessionNext]_sessionVars => SessionInv'
  <2> SUFFICES ASSUME SessionInv, [SessionNext]_sessionVars PROVE SessionInv'
    OBVIOUS
  <2>1. CASE UNCHANGED sessionVars
    BY <2>1 DEF sessionVars, SessionInv
  <2>2. CASE KeepParsing
    BY <2>2 DEF KeepParsing, SessionInv
  <2>3. CASE /\ phase' \notin Parsing /\ db' = db /\ HandedDown(db, u')
             /\ StartOver \/ ComputeAnew \/ SetSame \/ ChooseSame \/ SetNothing
    <3>1. phase \notin Parsing => Regular(db) /\ Typed(db, u) /\ Stable(db, u)
      BY DEF SessionInv
    <3>2. SUFFICES Regular(db) /\ Typed(db, u') /\ Stable(db, u')
      BY <2>3 DEF SessionInv
    <3>3. CASE StartOver
      BY <3>1, <3>3, UntouchedStable DEF StartOver
    <3>4. CASE ComputeAnew
      <4>1. Regular(db) /\ Typed(db, u) /\ Settable(db, u')
        BY <3>1, <3>4 DEF ComputeAnew
      <4>2. ASSUME NEW taken PROVE Typed(db, Given(u, u', taken))
        BY <4>1, GivenTyped
      <4>3. CASE u' = Recomputed(db, Given(u, u', {}))
        BY <4>1, <4>2, <4>3, RecomputedStable
      <4>4. CASE \E taken \in SUBSET Takers(db) : u' = Fresh(db, Given(u, u', taken))
        <5>1. PICK taken \in SUBSET Takers(db) : u' = Fresh(db, Given(u, u', taken))
          BY <4>4
        <5>2. Typed(db, Recomputed(db, Given(u, u', taken))) /\ Stable(db, Recomputed(db, Given(u, u', taken)))
          BY <4>1, <4>2, RecomputedStable
        <5>3. QED
          BY <4>1, <5>1, <5>2, AdoptStable DEF Fresh
      <4>5. QED
        BY <3>4, <4>3, <4>4 DEF ComputeAnew
    <3>5. CASE SetSame
      BY <3>1, <3>5, SetSameStable DEF SetSame
    <3>6. CASE ChooseSame
      BY <3>1, <3>6, ChooseSameStable DEF ChooseSame
    <3>7. CASE SetNothing
      BY <3>1, <3>7 DEF SetNothing
    <3>8. QED
      BY <2>3, <3>3, <3>4, <3>5, <3>6, <3>7
  <2>4. QED
    BY <2>1, <2>2, <2>3 DEF SessionNext
<1>3. QED
  BY <1>1, <1>2, PTL DEF SessionSpec

\* ValuesCurrent: the cached values are those that computing them all anew would give,
\* although setting a symbol to the value it has leaves the caches alone
\* (sym_set_tristate_value(), sym_clear_all_valid()).
THEOREM ValuesAreCurrent == ExprLaws => (SessionSpec => []ValuesCurrent)
<1> SUFFICES ASSUME ExprLaws PROVE SessionSpec => []ValuesCurrent
  OBVIOUS
<1>1. SessionInv => ValuesCurrent
  BY StableRecomputed DEF SessionInv, ValuesCurrent, Live
<1>2. QED
  BY <1>1, SessionInvariant, PTL

\* sym_calc_choice() sets one member of a choice with a visible member, a visible one.
LEMMA OneMember ==
  ASSUME NEW d, Regular(d), NEW w, Typed(d, w), Stable(d, w),
         NEW c \in ChoiceEntries(d), MembersIn(d, w, c) # {}
  PROVE  \E one \in MembersIn(d, w, c) :
           {s \in ToSet(d.members[Choice(d, c)]) : SymValue(d, w, s) = 2} = {one}
<1> DEFINE all  == MembersIn(d, w, c)
           prio == w.prio[Choice(d, c)]
           def  == ChoiceDefault(d, w, c)
           free == {s \in all : ~HasValue(w, s)}
           last == FirstOf(Reverse(prio), Seen(w, prio), "")
           one  == ChoiceValue(d, w, c)
<1>1. /\ ToSet(d.members[Choice(d, c)]) = MembersOf(d, c) /\ ToSet(MenuOrder(d, c)) \ {""} = MembersOf(d, c)
      /\ DOMAIN EntriesBelow(d, c) \subseteq Nat /\ "" \notin MembersOf(d, c) /\ c # 0
  BY DEF Regular, ChoicesHaveMembers, MembersOf, ChoiceEntries, Entries
<1>2. DOMAIN MenuOrder(d, c) \subseteq Nat
  BY <1>1 DEF MenuOrder
<1>3. /\ prio \in Seq(Names(d)) /\ ToSet(prio) = MembersOf(d, c)
  BY DEF Typed, Settable
<1>4. all = {s \in MembersOf(d, c) : w.vis[s] # 0} /\ Seen(w, prio) = all
  BY <1>1, <1>3 DEF MembersIn, Seen
<1>5. def \in all /\ def # ""
  BY <1>1, <1>4, DefaultIsSeen
<1>6. DOMAIN prio \subseteq Nat /\ DOMAIN Reverse(prio) \subseteq Nat /\ ToSet(Reverse(prio)) = ToSet(prio)
  BY <1>3, ReverseValues
<1>7. last \in all
  <2>1. ToSet(Reverse(prio)) \cap Seen(w, prio) = all
    BY <1>3, <1>4, <1>6
  <2>2. QED
    BY <1>4, <1>6, <2>1, FirstIsIn
<1>8. Unchosen(d, w, c, def) \in all
  <2>1. FirstOf(MenuOrder(d, c), free, last) \in all
    <3>1. \/ FirstOf(MenuOrder(d, c), free, last) = last
          \/ FirstOf(MenuOrder(d, c), free, last) \in free
      BY <1>2, FirstIsIn
    <3>2. QED
      BY <1>7, <3>1
  <2>2. Unchosen(d, w, c, def) = IF def # "" /\ w.val[def] # 0 THEN def
                                 ELSE FirstOf(MenuOrder(d, c), free, last)
    BY DEF Unchosen
  <2>3. QED
    BY <1>5, <2>1, <2>2
<1>9. one \in all
  <2> DEFINE set == {s \in all : w.val[s] = 2}
  <2>1. one = FirstOf(prio, set, Unchosen(d, w, c, def))
    BY <1>4 DEF ChoiceValue
  <2>2. one = Unchosen(d, w, c, def) \/ one \in set
    BY <1>6, <2>1, FirstIsIn
  <2>3. QED
    BY <1>8, <2>2
<1> HIDE DEF one
<1>10. ASSUME NEW s \in MembersOf(d, c)
       PROVE  SymValue(d, w, s) = IF w.vis[s] # 0 /\ one = s THEN 2 ELSE 0
  <2>1. s \in Names(d) /\ d.around[s] = c /\ IsMember(d, s) /\ s \in DOMAIN w.curr
    BY <1>1 DEF MembersOf, IsMember, Typed, Cached
  <2>2. IsTri(d, s)
    BY <2>1 DEF Regular, ChoicesHaveMembers, IsTri
  <2>3. Computed(d, w, s) = IF w.vis[s] # 0 /\ one = s THEN 2 ELSE 0
    BY <2>1, <2>2, Cases DEF MemberValue, one
  <2>4. QED
    BY <2>1, <2>3 DEF Stable, SymValue
<1>11. {s \in MembersOf(d, c) : SymValue(d, w, s) = 2} = {one}
  BY <1>4, <1>9, <1>10
<1>12. QED
  BY <1>1, <1>9, <1>11

\* ChoiceOne: a choice of which a member is visible has exactly one that is set, whatever
\* was set, loaded or unset before (sym_calc_choice(), choice_set_value()).
THEOREM OneIsChosen == ExprLaws => (SessionSpec => []ChoiceOne)
<1> SUFFICES ASSUME ExprLaws PROVE SessionSpec => []ChoiceOne
  OBVIOUS
<1>1. SessionInv => ChoiceOne
  <2> SUFFICES ASSUME SessionInv, Live, NEW c \in ChoiceEntries(db), MembersIn(db, u, c) # {}
               PROVE  Cardinality({s \in ToSet(db.members[Choice(db, c)]) : SymValue(db, u, s) = 2}) = 1
    BY DEF ChoiceOne
  <2>1. Regular(db) /\ Typed(db, u) /\ Stable(db, u)
    BY DEF SessionInv, Live
  <2>2. PICK one : {s \in ToSet(db.members[Choice(db, c)]) : SymValue(db, u, s) = 2} = {one}
    BY <2>1, OneMember
  <2>3. QED
    BY <2>2, FS_Singleton
<1>2. QED
  BY <1>1, SessionInvariant, PTL

-----------------------------------------------------------------------------
(* Dependencies *)

\* A symbol is shown, and its default is on, no further than its dependencies allow.
LEMMA LimitsHold ==
  ASSUME ExprLaws, NEW d, Regular(d), NEW w, Typed(d, w), Stable(d, w), HandedDown(d, w),
         NEW s \in Names(d), IsTri(d, s), ~IsMember(d, s), ~IsChoice(d, s)
  PROVE  w.vis[s] <= w.dir[s] /\ DefaultValue(d, w, s) <= w.dir[s]
<1> DEFINE dep  == Eval(d, w, d.dir[s])
           most == Max({0} \cup Prompts(d, w, s))
<1>1. /\ w.vis[s] = Shown(d, w, s) /\ w.dir[s] = Promote(d, w, s, dep)
      /\ dep \in 0 .. 2 /\ w.dir[s] \in 0 .. 2 /\ TypeOf(d, w, s) \in {"bool", "tristate"}
  <2>1. w.vis[s] = Shown(d, w, s) /\ w.dir[s] = Promote(d, w, s, dep)
    BY DEF Stable, LooksIn, LooksOf
  <2>2. dep \in 0 .. 2 /\ w.dir[s] \in 0 .. 2
    BY EvalTyped, WhatIsEvaluated DEF Typed, Cached
  <2>3. QED
    BY <2>1, <2>2 DEF TypeOf, IsTri
<1>2. \A i \in Own(d, s, {"prompt", "menu", "default"}) : Eval(d, w, d.prop[i].cond) <= dep
  BY DEF HandedDown
<1>3. most \in 0 .. 2 /\ most <= dep
  <2>1. \A x \in {0} \cup Prompts(d, w, s) : x <= dep
    <3>1. Own(d, s, {"prompt", "menu"}) \subseteq Own(d, s, {"prompt", "menu", "default"})
      BY OwnMore
    <3>2. \A x \in Prompts(d, w, s) : x <= dep
      BY <1>2, <3>1 DEF Prompts
    <3>3. QED
      BY <1>1, <3>2
  <2>2. most \in {0} \cup Prompts(d, w, s) /\ Prompts(d, w, s) \subseteq 0 .. 2
    BY PromptsTyped DEF Typed
  <2>3. QED
    BY <2>1, <2>2
<1>4. w.vis[s] <= w.dir[s]
  <2>1. CASE s \in d.trans
    <3>1. dep = 2
      BY <2>1 DEF HandedDown
    <3>2. QED
      BY <1>1, <2>1, <3>1 DEF Shown, Promote
  <2>2. CASE s \notin d.trans
    <3>1. w.vis[s] = Upgraded(d, w, s, most)
      BY <1>1, <2>2 DEF Shown
    <3> HIDE DEF dep, most
    <3>2. CASE TypeOf(d, w, s) = "bool"
      <4>1. w.vis[s] = IF most = 1 THEN 2 ELSE most
        BY <3>1, <3>2 DEF Upgraded
      <4>2. w.dir[s] = IF dep = 1 THEN 2 ELSE dep
        BY <1>1, <3>2 DEF Promote
      <4>3. dep \in 0 .. 2
        BY <1>1
      <4>4. QED
        BY <1>3, <4>1, <4>2, <4>3
    <3>3. CASE TypeOf(d, w, s) = "tristate"
      BY <1>1, <1>3, <3>1, <3>3 DEF Upgraded, Promote
    <3>4. QED
      BY <1>1, <3>2, <3>3
  <2>3. QED
    BY <2>1, <2>2
<1>5. DefaultValue(d, w, s) <= dep
  <2>1. CASE DefaultValue(d, w, s) = 0
    BY <1>1, <2>1
  <2>2. CASE DefaultValue(d, w, s) # 0
    <3>1. PICK i \in Own(d, s, {"default"}) : DefaultValue(d, w, s) <= Eval(d, w, d.prop[i].cond)
      BY <2>2, DefaultTyped DEF Typed
    <3>2. i \in Own(d, s, {"prompt", "menu", "default"})
      BY OwnMore
    <3>3. DefaultValue(d, w, s) \in 0 .. 2 /\ Eval(d, w, d.prop[i].cond) \in 0 .. 2
      BY DefaultTyped, EvalTyped, WhatIsEvaluated DEF Typed
    <3>4. QED
      BY <1>1, <1>2, <3>1, <3>2, <3>3
  <2>3. QED
    BY <2>1, <2>2
<1>6. DefaultValue(d, w, s) \in 0 .. 2
  BY DefaultTyped DEF Typed
<1> HIDE DEF dep
<1>7. DefaultValue(d, w, s) <= w.dir[s]
  BY <1>1, <1>5, <1>6 DEF Promote
<1>8. QED
  BY <1>4, <1>7

LEMMA ValueIsWithin ==
  ASSUME ExprLaws, NEW d, Regular(d), NEW w, Typed(d, w), Stable(d, w), HandedDown(d, w),
         NEW s \in Names(d), IsTri(d, s), ~IsMember(d, s), ~IsChoice(d, s)
  PROVE  w.curr[s] <= Most(w.dir[s], w.rev[s])
<1> DEFINE dir == w.dir[s]
           rev == w.rev[s]
           bool == TypeOf(d, w, s) = "bool"
           a   == IF w.vis[s] # 0 /\ HasValue(w, s) THEN Least(w.val[s], w.vis[s])
                  ELSE OrImplied(w, s, IF IsChoice(d, s) THEN 0 ELSE DefaultValue(d, w, s))
<1>1. /\ w.vis[s] \in 0 .. 2 /\ dir \in 0 .. 2 /\ rev \in 0 .. 2 /\ w.imp[s] \in 0 .. 2
      /\ w.val[s] # None => w.val[s] \in 0 .. 2
      /\ DefaultValue(d, w, s) \in 0 .. 2
  BY DefaultTyped DEF Typed, Cached, Settable
<1>2. w.vis[s] <= dir /\ DefaultValue(d, w, s) <= dir
  BY LimitsHold
<1>3. a \in 0 .. 2 /\ a <= dir
  BY <1>1, <1>2 DEF HasValue, OrImplied, Least, Most
<1>4. w.curr[s] = Promote(d, w, s, Most(rev, a))
  BY Cases DEF Stable, PlainTri
<1>5. bool => dir # 1 /\ rev # 1
  <2>1. dir = Promote(d, w, s, Eval(d, w, d.dir[s])) /\ rev = Weak(d, w, s, d.rev[s])
    BY DEF Stable, LooksIn, LooksOf
  <2>2. QED
    BY <2>1 DEF Promote, Weak
<1> HIDE DEF a, dir, rev
<1>6. Promote(d, w, s, Most(rev, a)) <= Most(dir, rev)
  <2>1. CASE bool /\ Most(rev, a) = 1
    <3>1. Most(dir, rev) = 2
      BY <1>1, <1>3, <1>5, <2>1 DEF Most
    <3>2. QED
      BY <2>1, <3>1 DEF Promote
  <2>2. CASE ~(bool /\ Most(rev, a) = 1)
    <3>1. Promote(d, w, s, Most(rev, a)) = Most(rev, a)
      BY <2>2 DEF Promote
    <3>2. QED
      BY <1>1, <1>3, <3>1 DEF Most
  <2>3. QED
    BY <2>1, <2>2
<1>7. QED
  BY <1>4, <1>6 DEF dir, rev

\* WithinDeps: no symbol outside choices is on further than its dependencies, or what
\* selects it, allow (sym_calc_value()).
THEOREM ValuesWithinDeps == ExprLaws => (SessionSpec => []WithinDeps)
<1> SUFFICES ASSUME ExprLaws PROVE SessionSpec => []WithinDeps
  OBVIOUS
<1>1. SessionInv => WithinDeps
  <2> SUFFICES ASSUME SessionInv, Live, NEW s \in Names(db), IsTri(db, s), ~IsMember(db, s), ~IsChoice(db, s)
               PROVE  SymValue(db, u, s) <= Most(u.dir[s], u.rev[s])
    BY DEF WithinDeps
  <2>1. Regular(db) /\ Typed(db, u) /\ Stable(db, u) /\ HandedDown(db, u)
    BY DEF SessionInv, Live
  <2>2. SymValue(db, u, s) = u.curr[s]
    BY <2>1 DEF SymValue, Typed, Cached
  <2>3. QED
    BY <2>1, <2>2, ValueIsWithin
<1>2. QED
  BY <1>1, SessionInvariant, PTL
=============================================================================
