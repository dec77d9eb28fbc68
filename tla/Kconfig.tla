------------------------------ MODULE Kconfig ------------------------------
(* The configuration programs conf (conf.c) and mconf (mconf.c): they parse  *)
(* the Kconfig text, read a configuration, change it in the way their mode   *)
(* says or the user asks for, and save it; then the next program starts on   *)
(* the files that are there.                                                 *)
(*                                                                           *)
(* sym_clear_all_valid() makes the next look at a symbol compute its value   *)
(* again; here all of them are computed at once.                             *)
(* A project is a record: text (the statements of its Kconfig files), types  *)
(* (its names), files (what .config may be at first), tools (the programs    *)
(* started), ints (the numbers a user may enter), others (what else is on    *)
(* disk), edits, runs, kills (how many key presses, programs, failures).     *)
EXTENDS KconfigData, KconfigFiles, KconfigSession

CONSTANT Projects   \* a sequence of projects

VARIABLES project,  \* the number of the project
          rest,     \* the statements not yet parsed
          raw,      \* the menu database as parsed
          tool,     \* which program and mode it is
          changed,  \* conf_changed
          filename, \* where mconf saves
          missed,   \* the last Load named no file
          short,    \* the files the program saved last by a write that fell short
          at,       \* how far oldaskconfig has asked
          back,     \* the phase a save returns to
          left      \* edits, runs and kills left
vars == <<project, rest, raw, db, phase, tool, u, changed, filename, missed, short,
          at, back, left, fileVars>>
treeVars == <<project, rest, raw, db>>
dataVars == <<u, changed>>
uiVars   == <<filename, missed, short, at, back, left>>

P == Projects[project]

Init ==
  /\ project \in DOMAIN Projects
  /\ rest = P.text /\ db = EmptyDb(P.types) /\ raw = db
  /\ phase = "parse" /\ tool = "" /\ changed = FALSE /\ missed = FALSE /\ short = {}
  /\ u = [val |-> <<>>, prio |-> <<>>, curr |-> <<>>]
  /\ filename = Config /\ at = 1 /\ back = ""
  /\ left = [edits |-> P.edits, runs |-> P.runs, kills |-> P.kills]
  /\ \E f \in P.files :
       disk = [n \in Files |-> IF n = Config THEN f
                               ELSE IF n \in DOMAIN P.others THEN P.others[n] ELSE NoFile]
  /\ FilesInit

Go(p)    == phase' = p
Spend(k) == left[k] > 0 /\ left' = [left EXCEPT ![k] = @ - 1]

(* Taking over w: with sym_clear_all_valid() and what follows from it, and   *)
(* without it.                                                               *)
Cleared(w)   == u' = Fresh(db, w) /\ changed' = TRUE
Uncleared(w) == u' = w /\ UNCHANGED changed

-----------------------------------------------------------------------------
(* conf_parse() *)

ParseStatement ==
  /\ phase = "parse" /\ rest # <<>>
  /\ db' = Statement(db, Head(rest)) /\ rest' = Tail(rest)
  /\ UNCHANGED <<project, raw, phase, tool, dataVars, uiVars, fileVars>>

\* menu_finalize() on the tree below the prompt "Main menu".
Rooted == AddPrompt([db EXCEPT !.cur = 0], "menu", Null)
Finish ==
  /\ phase = "parse" /\ rest = <<>> /\ ~db.bad /\ db.top = 0
  /\ raw' = db /\ db' = Indexed(Finalize(Rooted, 0, FALSE))
  /\ Go("check")
  /\ UNCHANGED <<project, rest, tool, dataVars, uiVars, fileVars>>

Reject ==
  /\ \/ phase = "parse" /\ rest = <<>> /\ (db.bad \/ db.top # 0)
     \/ phase = "check" /\ (Insane(db) \/ Recursive(db))
  /\ Go("failed")
  /\ UNCHANGED <<treeVars, tool, dataVars, uiVars, fileVars>>

Accept ==
  /\ phase = "check" /\ ~Insane(db) /\ ~Recursive(db)
  /\ u' = Untouched(db) /\ changed' = TRUE /\ Go("start")
  /\ UNCHANGED <<treeVars, tool, uiVars, fileVars>>

-----------------------------------------------------------------------------
(* The programs start and read. *)

Ask      == {"oldconfig", "syncconfig"}
AllNew   == {"allnoconfig", "allyesconfig", "allmodconfig", "alldefconfig", "randconfig"}
Rewrites == [yes2modconfig |-> <<2, 1>>, mod2yesconfig |-> <<1, 2>>, mod2noconfig |-> <<1, 0>>]
AfterRead(t) == CASE t = "menuconfig" -> "menu"
                  [] t \in Ask -> "ask"
                  [] t = "oldaskconfig" -> "askall"
                  [] t = "listnewconfig" -> "exit"
                  [] t \in {"olddefconfig", "savedefconfig"} -> "write"
                  [] OTHER -> "mode"
Starting(t) == phase = "start" /\ t \in P.tools /\ tool' = t

\* conf_read() of a file that exists.
ReadFrom(n) ==
  LET r == ReadLines(db, u, disk[n])
  IN u' = Fresh(db, r.u) /\ changed' = ReadChanged(db, r.odd, u')

\* conf_read(NULL)
ReadConfig(t) ==
  /\ Starting(t) /\ t \notin AllNew \cup {"defconfig", "silentsync"}
  /\ IF disk[Config] # NoFile THEN ReadFrom(Config)
     ELSE changed' = TRUE /\ UNCHANGED u
  /\ Go(AfterRead(t))
  /\ UNCHANGED <<treeVars, uiVars, fileVars>>

\* --defconfig <file>: without the file the program ends.
ReadDefconfig ==
  /\ Starting("defconfig")
  /\ IF disk["defconfig"] # NoFile THEN ReadFrom("defconfig") /\ Go("mode")
     ELSE changed' = FALSE /\ UNCHANGED u /\ Go("exit")
  /\ UNCHANGED <<treeVars, uiVars, fileVars>>

\* The all*config modes start from nothing, or from the seed that
\* KCONFIG_ALLCONFIG names (the file "alt" here).
ReadSeed(t) ==
  /\ Starting(t) /\ t \in AllNew
  /\ \/ UNCHANGED dataVars
     \/ disk["alt"] # NoFile /\ u' = Recomputed(db, ReadLines(db, u, disk["alt"]).u) /\ UNCHANGED changed
  /\ Go("mode")
  /\ UNCHANGED <<treeVars, uiVars, fileVars>>

\* --syncconfig with KCONFIG_NOSILENTUPDATE: an error when .config would change,
\* else .config is left alone.
SilentSync ==
  /\ Starting("silentsync")
  /\ IF disk[Config] # NoFile THEN ReadFrom(Config)
     ELSE changed' = TRUE /\ UNCHANGED u
  /\ Go(IF changed' THEN "exit" ELSE "ask")
  /\ UNCHANGED <<treeVars, uiVars, fileVars>>

-----------------------------------------------------------------------------
(* The modes of conf that ask nothing. *)

Limit == [allnoconfig |-> 0, allmodconfig |-> 1, allyesconfig |-> 2]
SetAll ==
  /\ phase = "mode" /\ tool \in DOMAIN Limit \cup {"alldefconfig", "defconfig"}
  /\ Cleared(IF tool \in DOMAIN Limit THEN SetNew(db, u, [s \in Names(db) |-> Limit[tool]])
             ELSE u)
  /\ Go("write")
  /\ UNCHANGED <<treeVars, tool, uiVars, fileVars>>

SetRandom ==
  /\ phase = "mode" /\ tool = "randconfig"
  /\ \E v \in [{s \in NewSymbols(db, u) : ~IsChoice(db, s)} -> 0..2],
        order \in [NewChoices(db, u) -> UNION {SetToSeqs({s \in Names(db) :
                      IsMember(db, s) /\ ~HasValue(u, s)})}] :
       /\ \A s \in DOMAIN v : db.type[s] = "bool" => v[s] # 1
       /\ Cleared(FoldLeft(LAMBDA w, c : Shuffled(db, w, c,
                             SelectSeq(order[c], LAMBDA s : db.around[s] = c)),
                           SetNew(db, u, v), SetToSeq(NewChoices(db, u))))
  /\ Go("write")
  /\ UNCHANGED <<treeVars, tool, uiVars, fileVars>>

RewriteTristates ==
  /\ phase = "mode" /\ tool \in DOMAIN Rewrites
  /\ Cleared(Rewritten(db, u, Rewrites[tool][1], Rewrites[tool][2]))
  /\ Go("write")
  /\ UNCHANGED <<treeVars, tool, uiVars, fileVars>>

-----------------------------------------------------------------------------
(* Questions and answers. *)

\* sym_set_tristate_value(), sym_set_string_value(), choice_set_value()
SetQuietly(s, v) ==   \* without sym_clear_all_valid()
  WithinRange(db, u, s, v) /\ u' = SetVal(u, s, v) /\ changed' = TRUE
SetTristate(s, v) ==
  /\ WithinRange(db, u, s, v)
  /\ LET w == SetVal(u, s, v) IN IF u.curr[s] # v THEN Cleared(w) ELSE Uncleared(w)
SetInt(s, v) ==
  /\ IntAccepted(db, u, s, v)
  /\ LET w == SetVal(u, s, v) IN IF u.val[s] # v THEN Cleared(w) ELSE Uncleared(w)
SetValue(s, v) == IF IsTri(db, s) THEN SetTristate(s, v) ELSE SetInt(s, v)
SetChoice(c, s) ==
  LET w == ChooseMember(db, u, c, s)
      moved == \E t \in MembersIn(db, u, c) : u.curr[t] # (IF t = s THEN 2 ELSE 0)
  IN IF moved THEN Cleared(w) ELSE Uncleared(w)

\* The menus above an entry are gone through only while they are visible.
Reached(m) == \A a \in {m} \cup ToSet(Ancestors(db, m)) : MenuVisible(db, u, a)
Asked(m)   == LET s == db.menu[m].sym
              IN s # "" /\ ~IsChoice(db, s) /\ Reached(m) /\ Changeable(db, u, s)
NewEntries == {m \in Entries(db) : Asked(m) /\ ~HasValue(u, db.menu[m].sym)}
Offered(c) == {db.menu[k].sym : k \in {j \in ToSet(db.kids[c]) :
                                  db.menu[j].sym # "" /\ MenuVisible(db, u, j)}}

\* conf_sym(), conf_string() and conf_choice() ask until an answer is accepted;
\* <Enter> is the value shown.
Answers(m) ==
  LET s == db.menu[m].sym
  IN IF db.around[s] # 0 THEN Offered(db.around[s])
     ELSE IF IsTri(db, s) THEN {v \in 0..2 : WithinRange(db, u, s, v)}
     ELSE {v \in P.ints \cup {u.curr[s]} : IntAccepted(db, u, s, v)}
Answer(m, a) == LET s == db.menu[m].sym
                IN IF db.around[s] = 0 THEN SetValue(s, a) ELSE SetChoice(db.around[s], a)

(* check_conf() and conf() in oldconfig and syncconfig: a symbol that is new *)
(* and changeable is asked for.  (The code goes through the menu in passes,  *)
(* until one pass asks nothing; here the order is left open.)                *)
AskNew ==
  /\ phase = "ask"
  /\ \E m \in NewEntries : \E a \in Answers(m) : Answer(m, a)
  /\ UNCHANGED <<treeVars, phase, tool, uiVars, fileVars>>

\* A choice without news that conf() comes past is set to its current member.
KeepChoice ==
  /\ phase = "ask" /\ NewEntries # {}
  /\ \E c \in Entries(db) :
       /\ db.menu[c].kind = "choice" /\ Reached(c)
       /\ \A s \in Offered(c) : HasValue(u, s)
       /\ \E s \in Offered(c) : s = ChoiceValue(db, u, c) /\ SetChoice(c, s)
  /\ UNCHANGED <<treeVars, phase, tool, uiVars, fileVars>>

AskEnd ==
  /\ phase = "ask" /\ NewEntries = {}
  /\ Go("write")
  /\ UNCHANGED <<treeVars, tool, dataVars, uiVars, fileVars>>

\* conf() in oldaskconfig: every entry in its order, then as oldconfig.
AskAll ==
  LET order == SubEntries(db, 0)
      m     == order[at]
      s     == db.menu[m].sym
      pick  == \E t \in Offered(m) : SetChoice(m, t)
  IN /\ phase = "askall"
     /\ IF at > Len(order) THEN Go("ask") /\ UNCHANGED <<dataVars, at>>
        ELSE /\ at' = at + 1 /\ UNCHANGED phase
             /\ IF s # "" /\ IsChoice(db, s) /\ Reached(m) THEN pick
                ELSE IF Asked(m) /\ ~IsMember(db, s) THEN \E a \in Answers(m) : Answer(m, a)
                ELSE UNCHANGED dataVars
     /\ UNCHANGED <<treeVars, tool, filename, missed, short, back, left, fileVars>>

-----------------------------------------------------------------------------
(* mconf: the keys in its menus. *)

\* With show_all_options every entry with a prompt is shown; the members of a
\* choice are in a list of their own.
Prompted == {m \in Entries(db) : /\ db.menu[m].prompt # 0 /\ db.menu[m].sym # ""
                                 /\ ~IsMember(db, db.menu[m].sym)}
InMenu   == phase = "menu" /\ Spend("edits")
Edited   == UNCHANGED <<treeVars, phase, tool, filename, missed, short, at, back, fileVars>>

\* What a key sets symbol s to: <Y> y, or m where it can only be a module; <Space>
\* the next value that is accepted.
Pressed(s, key) ==
  CASE key = "y" -> IF WithinRange(db, u, s, 2) THEN 2 ELSE 1
    [] key = "m" -> 1
    [] key = "n" -> 0
    [] key = " " -> Toggled(db, u, s, u.curr[s])
PressKey ==
  /\ InMenu
  /\ \E m \in Prompted, key \in {"y", "m", "n", " "} :
       LET s == db.menu[m].sym IN SetTristate(s, Pressed(s, key))
  /\ Edited
EnterInt == /\ InMenu
            /\ \E m \in Prompted, v \in P.ints :
                 db.type[db.menu[m].sym] = "int" /\ SetInt(db.menu[m].sym, v)
            /\ Edited
ChooseEntry == /\ InMenu
               /\ \E m \in Prompted : /\ db.menu[m].kind = "choice" /\ MenuVisible(db, u, m)
                                      /\ \E s \in Offered(m) : SetChoice(m, s)
               /\ Edited

\* conf_load(): a file that does not exist is reported, and asked for again.
Load ==
  /\ InMenu
  /\ \E n \in {Config, "alt"} :
       /\ disk[n] # NoFile
       /\ Cleared(ReadLines(db, u, disk[n]).u) /\ filename' = n
  /\ missed' = FALSE
  /\ UNCHANGED <<treeVars, phase, tool, short, at, back, fileVars>>
LoadMissing ==
  /\ InMenu
  /\ \E n \in {Config, "alt"} : disk[n] = NoFile
  /\ changed' = FALSE /\ missed' = TRUE
  /\ UNCHANGED <<treeVars, phase, tool, u, filename, short, at, back, fileVars>>

-----------------------------------------------------------------------------
(* Saving. *)

\* conf_write(); conf_write_autoconf() without sync writes only a missing auto.conf.
Saves(n, sync, p) ==
  /\ BeginSave(n, FullLines(db, u), AutoLines(db, u), sync \/ (p = "exit" /\ disk[AutoConf] = NoFile))
  /\ back' = p /\ Go("save")

\* conf_save()
Save ==
  /\ InMenu
  /\ \E n \in {Config, "alt"} : Saves(n, FALSE, "menu")
  /\ UNCHANGED <<treeVars, tool, dataVars, filename, missed, short, at>>

\* handle_exit(): the question whether to save is asked if there are changes.
ExitSave ==
  /\ phase = "menu" /\ changed
  /\ Saves(filename, FALSE, "exit")
  /\ UNCHANGED <<treeVars, tool, dataVars, filename, missed, short, at, left>>
ExitNoSave ==
  /\ phase = "menu"
  /\ Go("exit")
  /\ UNCHANGED <<treeVars, tool, dataVars, uiVars, fileVars>>

\* The end of conf's main().
Write ==
  /\ phase = "write" /\ tool # "savedefconfig"
  /\ IF tool = "silentsync" THEN BeginSync(AutoLines(db, u)) /\ back' = "exit" /\ Go("save")
     ELSE Saves(Config, tool = "syncconfig", "exit")
  /\ UNCHANGED <<treeVars, tool, dataVars, filename, missed, short, at, left>>
WriteDefconfigHere ==   \* over .config instead of to a file of its own
  /\ phase = "write" /\ tool = "savedefconfig"
  /\ step = "none" /\ disk' = [disk EXCEPT ![Config] = MinimalLines(db, u)]
  /\ changed' = TRUE /\ Go("exit")
  /\ UNCHANGED <<treeVars, tool, u, uiVars, step, saveVars, outcome, makeVars>>
WriteDefconfig ==
  /\ phase = "write" /\ tool = "savedefconfig"
  /\ LET lines == MinimalLines(db, u)
     IN \E t \in {lines} \cup Parts(lines) : PutDefconfig(t)
  /\ changed' = TRUE /\ Go("exit")
  /\ UNCHANGED <<treeVars, tool, u, uiVars>>

\* One call of the save; the change flag falls with the last one of conf_write().
InWrite(st) == st \in {"tmp", "old", "new"}
SaveStep ==
  /\ phase = "save"
  /\ \/ FileStep /\ UNCHANGED left
     \/ (\E t \in Parts(text) : FallShort(t)) /\ Spend("kills")
  /\ changed' = (changed /\ (InWrite(step) => InWrite(step')))
  /\ UNCHANGED <<treeVars, phase, tool, u, filename, missed, short, at, back>>

\* The last call is done: mconf goes on with the file it saved to.
SaveEnd ==
  /\ phase = "save" /\ EndOk
  /\ Go(back)
  /\ filename' = IF back = "menu" THEN name ELSE filename
  /\ short' = IF temp = text THEN short \ {name} ELSE short \cup {name}
  /\ UNCHANGED <<treeVars, tool, dataVars, missed, at, left, back>>

SaveFails ==
  /\ phase = "save" /\ EndFailed /\ Spend("kills")
  /\ Go(back)
  /\ changed' = (changed \/ step = "new")
  /\ UNCHANGED <<treeVars, tool, u, filename, missed, short, at, back>>

Kill ==
  /\ phase = "save" /\ EndKilled /\ Spend("kills")
  /\ Go("exit")
  /\ UNCHANGED <<treeVars, tool, dataVars, filename, missed, short, at, back>>

\* make starts the next program; it parses the same text to the same database.
Restart ==
  /\ phase = "exit" /\ Spend("runs")
  /\ u' = Untouched(db) /\ changed' = TRUE
  /\ filename' = Config /\ missed' = FALSE /\ short' = {} /\ at' = 1 /\ tool' = "" /\ Go("start")
  /\ UNCHANGED <<treeVars, back, fileVars>>

Make == /\ phase = "exit" /\ Build
        /\ UNCHANGED <<treeVars, phase, tool, dataVars, uiVars>>

Parse   == ParseStatement \/ Finish \/ Reject \/ Accept
Read    == (\E t \in P.tools : ReadConfig(t) \/ ReadSeed(t)) \/ ReadDefconfig \/ SilentSync
Mode    == SetAll \/ SetRandom \/ RewriteTristates
AskStep    == AskNew \/ KeepChoice \/ AskEnd \/ AskAll
Session == \/ PressKey \/ EnterInt \/ ChooseEntry
           \/ Load \/ LoadMissing \/ Save \/ ExitSave \/ ExitNoSave
Saving  == Write \/ WriteDefconfig \/ SaveStep \/ SaveEnd
Next    == Parse \/ Read \/ Mode \/ AskStep \/ Session \/ Saving
           \/ SaveFails \/ Kill \/ Restart \/ Make
Spec    == Init /\ [][Next]_vars

\* Weak fairness of the steps of a running program: it goes on with its work, and
\* who is asked gives an answer that is accepted in the end, where there is one.
\* Nobody has to press a key in mconf, to start a program or make.  Working says
\* when such a step is enabled; it is a step of Next, as every step of Spec.
Working  == \/ phase \in {"mode", "write", "save"}
            \/ phase = "ask" /\ (NewEntries = {} \/ \E m \in NewEntries : Answers(m) # {})
FairSpec == Spec /\ ([]<>~Working \/ []<><<Working>>_vars)

-----------------------------------------------------------------------------
(* Properties *)

Value(e) == ExprValue(db, u, e)
Tool     == {"oldconfig", "syncconfig", "silentsync", "oldaskconfig", "olddefconfig",
             "savedefconfig", "listnewconfig", "defconfig", "menuconfig"}
            \cup AllNew \cup DOMAIN Rewrites
Phase    == {"parse", "check", "failed", "start", "mode", "menu", "ask", "askall", "write", "save", "exit"}

\* The kinds of the variables, and the shape of the tree: every entry is in the
\* list of its parent, and in no other.
TypeOK ==
  /\ phase \in Phase /\ tool \in Tool \cup {""} /\ changed \in BOOLEAN /\ missed \in BOOLEAN
  /\ filename \in {Config, "alt"} /\ DOMAIN disk = Files
  /\ \A m \in Entries(db) : \E p \in DOMAIN db.kids :
       m \in ToSet(db.kids[p]) /\ db.menu[m].parent = p
  /\ \A p, q \in DOMAIN db.kids : p # q => ToSet(db.kids[p]) \cap ToSet(db.kids[q]) = {}
  /\ Live => \A s \in Names(db) : u.curr[s] \in Int /\ (IsTri(db, s) => u.curr[s] \in 0..2)

\* menu_finalize(), expr_transform(), expr_eliminate_dups(): whatever is simplified,
\* an entry depends on what was written for it and for the blocks around it.
Written(m) ==
  FoldLeft(LAMBDA e, a : AndExpr(e, RewriteM(db.modules, raw.menu[a].dep)), Null,
           <<m>> \o Ancestors(raw, m))
DependencyKept == Live => \A m \in Entries(db) : Value(db.menu[m].dep) = Value(Written(m))

\* sym_check_deps(): a text without other errors is refused exactly if the value
\* of a symbol needs itself.
OneOf(s) == IF db.around[s] = 0 THEN s ELSE Choice(db, db.around[s])
Uses     == {<<OneOf(s), OneOf(t)>> : <<s, t>> \in
              {x \in Names(db) \X Names(db) : /\ x[2] \in CheckedNames(db, x[1])
                                              /\ IsMember(db, x[1]) => x[2] # OneOf(x[1])}}
RECURSIVE Paths(_, _)
Paths(R, n) == IF n = 0 THEN R
               ELSE LET Q == Paths(R, n - 1)
                    IN Q \cup {<<x[1], y[2]>> : <<x, y>> \in {z \in Q \X Q : z[1][2] = z[2][1]}}
RecursionIsCycle ==
  phase = "check" /\ ~Insane(db) =>
    (Recursive(db) <=> \E x \in Paths(Uses, 3) : x[1] = x[2])

\* menu_finalize() and menu_is_visible(): what can be changed can be reached from
\* the root, so conf asks for it and mconf shows it.
ChangeableIsReached ==
  Live => \A m \in Entries(db) :
    LET s == db.menu[m].sym
    IN s # "" /\ db.menu[m].prompt # 0 /\ Changeable(db, u, s)
       /\ ExprValue(db, u, db.prop[db.menu[m].prompt].cond) # 0 => Reached(m)

\* conf_write() and conf_read(): the next program reads back the values of this
\* one, and finds nothing to change.
Reread(lines) == ReadLines(db, Untouched(db), lines)
SameValues(w) == \A s \in Names(db) : IsWritten(db, u, s) => SymValue(db, w, s) = SymValue(db, u, s)
ReadBack ==
  phase = "write" => LET r == Reread(FullLines(db, u))
                         w == Fresh(db, r.u)
                     IN SameValues(w) /\ ~ReadChanged(db, r.odd, w)

\* conf_write_defconfig(): the minimal configuration stands for the whole one -
\* unless a value has just been taken over from a transitional symbol, which the
\* minimal one leaves out together with the value.
MinimalBack ==
  phase = "write" /\ (\A s \in db.trans : ~HasValue(u, s)) =>
    SameValues(Fresh(db, Reread(MinimalLines(db, u)).u))

\* Whatever a configuration means, its programs save it as KconfigProgram says, from
\* which the theorems of KconfigProofs follow.
WrittenText(v) == FullLines(v[1], v[2])
Program == INSTANCE KconfigProgram WITH values <- <<db, u>>, Text <- WrittenText
ProgramImplemented == Program!Spec

\* Whatever is read and answered, the values of the symbols are set and computed as
\* KconfigSession says, from which the theorems of KconfigValueProofs follow.
SessionImplemented == SessionSpec

\* conf_get_changed() in mconf: if it asks no question at the end, the file holds
\* the values on the screen - unless a Load has named a file that does not exist, or
\* a write of its last save fell short.
Unsaved      == Program!Unsaved
UnsavedKnown == Program!UnsavedKnown

\* handle_exit(): mconf offers to save whenever something is not saved.
SaveIsOffered == ~Unsaved

\* main() and check_conf() in conf: a program that has read its configuration comes
\* to its end, though an answer can bring up new symbols and a call can fail.
ProgramEnds == phase \in {"mode", "ask", "write", "save"} ~> phase \in {"menu", "exit"}
=============================================================================
