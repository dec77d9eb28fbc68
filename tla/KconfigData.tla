---------------------------- MODULE KconfigData ----------------------------
(* What the user, a .config file or a mode of conf sets (the setters of      *)
(* parser/symbol.c, the readers and writers of parser/confdata.c, the modes  *)
(* of conf.c), as functions on what the user has set, u.                     *)
(* A configuration file is the sequence of its lines <<name, value>>.        *)
EXTENDS KconfigSymbol

\* A member that is set moves to the front of the list of its choice c, or to its end.
ToFront(u, c, s) == [u EXCEPT !.prio[c] = Fronted(@, s)]
ToTail(u, c, s)  == [u EXCEPT !.prio[c] = SelectSeq(@, LAMBDA t : t # s) \o <<s>>]

(* sym_toggle_tristate_value(): n, m, y, n from the value v, up to the first *)
(* one that is accepted.                                                     *)
Toggled(db, u, s, v) ==
  LET ok == SelectSeq(<<(v + 1) % 3, (v + 2) % 3, v>>, LAMBDA w : WithinRange(db, u, s, w))
  IN IF ok = <<>> THEN v ELSE Head(ok)

-----------------------------------------------------------------------------
(* conf_read_simple(): the values of the lines that name a symbol; a line    *)
(* with an unknown name, an invalid value or a name that has its value.      *)
ReadLine(db, r, l) ==
  LET s == l[1]
      c == db.around[s]
      set == SetVal(r.u, s, l[2])
  IN CASE s \notin DOMAIN db.type -> [r EXCEPT !.odd = TRUE]
       [] s \in DOMAIN db.type /\ s \notin Names(db) -> r
       [] s \in Names(db) /\ db.type[s] = "bool" /\ l[2] \notin {0, 2} -> [r EXCEPT !.odd = TRUE]
       [] OTHER -> [u   |-> IF c = 0 THEN set ELSE ToFront(set, Choice(db, c), s),
                    odd |-> r.odd \/ HasValue(r.u, s)]
ReadLines(db, u, lines) ==
  FoldLeft(LAMBDA r, l : ReadLine(db, r, l),
           [u |-> [u EXCEPT !.val = [s \in DOMAIN @ |-> None]], odd |-> FALSE], lines)

(* conf_read(): does a value differ from the one in the file, or is one      *)
(* missing there?                                                            *)
DiffersSet(db, u, s) ==   \* values that the file lacks are not looked at
  ~IsChoice(db, s) /\ HasValue(u, s) /\ IsWritten(db, u, s) /\ SymValue(db, u, s) # u.val[s]
Differs(db, u, s) ==
  /\ ~IsChoice(db, s)
  /\ IF HasValue(u, s) /\ IsWritten(db, u, s) THEN SymValue(db, u, s) # u.val[s]
     ELSE HasValue(u, s) \/ IsWritten(db, u, s)
ReadChanged(db, odd, w) == odd \/ \E s \in Names(db) : Differs(db, w, s)

-----------------------------------------------------------------------------
(* conf_set_all_new_symbols(): v[s] is the value for a new symbol s. *)
NewSymbols(db, u) ==
  {s \in Names(db) : /\ IsTri(db, s) /\ ~HasValue(u, s) /\ ~IsMember(db, s)
                     /\ \E m \in MenusOf(db, s) : db.menu[m].prompt # 0}
SetNew(db, u, v) ==
  [u EXCEPT !.val = [s \in DOMAIN @ |->
     IF s \in NewSymbols(db, u) /\ ~IsChoice(db, s) THEN v[s] ELSE @[s]]]
NewChoices(db, u) == {c \in Entries(db) : /\ db.menu[c].kind = "choice"
                                          /\ Choice(db, c) \in NewSymbols(db, u)}
(* randomize_choice_values() with the given order of the members that have   *)
(* no value: each is set to y behind all others.                             *)
Shuffled(db, u, c, order) ==
  FoldLeft(LAMBDA w, s : ToTail(SetVal(w, s, 2), Choice(db, c), s), u, order)

(* conf_rewrite_tristates() *)
Rewritten(db, u, old, new) ==
  [u EXCEPT !.val = [s \in DOMAIN @ |->
     IF s \in Names(db) /\ TypeOf(db, u, s) = "tristate" /\ @[s] = old THEN new ELSE @[s]]]

-----------------------------------------------------------------------------
\* The symbols in the order of the menu, each once.
InOrder(db) ==
  FoldLeft(LAMBDA q, m : IF db.menu[m].sym \in {""} \cup ToSet(q) THEN q
                         ELSE Append(q, db.menu[m].sym), <<>>, SubEntries(db, 0))
WrittenNames(db, u) == {s \in ToSet(InOrder(db)) : IsWritten(db, u, s)}
LinesOf(db, u, names) ==
  LET kept == SelectSeq(InOrder(db), LAMBDA s : s \in names)
  IN [i \in DOMAIN kept |-> <<kept[i], SymValue(db, u, kept[i])>>]

(* conf_write() *)
FullLinesOn(db, u) ==   \* without "# CONFIG_... is not set"
  LinesOf(db, u, {s \in WrittenNames(db, u) : SymValue(db, u, s) # 0})
FullLines(db, u) == LinesOf(db, u, WrittenNames(db, u))

(* print_symbol_for_autoconf(): n is left out. *)
AutoLines(db, u) ==
  LinesOf(db, u, {s \in WrittenNames(db, u) : IsTri(db, s) => SymValue(db, u, s) # 0})

(* conf_write_defconfig(): what the defaults do not give. *)
IsRedundantSelected(db, u, s) ==   \* takes whatever is selected for fixed
  u.rev[s] # 0 \/ ~Changeable(db, u, s) \/ SymValue(db, u, s) = StringDefault(db, u, s)
IsRedundant(db, u, s) ==
  LET c == db.around[s]
  IN \/ ~Changeable(db, u, s)
     \/ SymValue(db, u, s) = StringDefault(db, u, s)
     \/ c # 0 /\ ChoiceDefault(db, u, c) = s /\ SymValue(db, u, s) = 2
MinimalLines(db, u) ==
  LinesOf(db, u, {s \in WrittenNames(db, u) : ~IsRedundant(db, u, s)})
=============================================================================
