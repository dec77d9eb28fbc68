----------------------------- MODULE MCKconfig -----------------------------
(* Small Kconfig projects for Kconfig.tla.                                   *)
EXTENDS Kconfig

MCNumbers == ("1" :> 1) @@ ("2" :> 2) @@ ("3" :> 3)
Fixed == [s \in {"y", "m", "n"} |-> "tristate"] @@ [s \in {"1", "2", "3"} |-> "unknown"]
TypesOf(names) == [s \in names |-> "unknown"] @@ Fixed

Tri    == <<"type", "tristate">>
Bool   == <<"type", "bool">>
Int_   == <<"type", "int">>
Prompt == <<"prompt", Null>>
Depends(e) == <<"depends", e>>
Default(e) == <<"default", e, Null>>
Config_(s, opts) == <<"config", s, opts>>
Modules == Config_("MODULES", <<Bool, Prompt, <<"modules">>>>)
And(e, f) == <<"and", e, f>>
Or(e, f)  == <<"or", e, f>>
A == Sym("A")
B == Sym("B")

NoOthers == [n \in {} |-> <<>>]
Project(stmts, names, files, tools) ==
  [text |-> stmts, types |-> TypesOf(names), files |-> files, tools |-> tools,
   ints |-> {}, others |-> NoOthers, edits |-> 0, runs |-> 0, kills |-> 0]

(* One dependency e below "if f", for all values of a bool A and a tristate B. *)
Conditions == <<A, B, Not(A), Comp("!=", "B", "n"), And(Mod, B),
                Or(Not(A), Comp("=", "B", "m")), Comp("!=", "B", "y"),
                Not(And(Comp("=", "A", "n"), Or(B, Comp("!=", "B", "m"))))>>
Depending(e, f) ==
  Project(<<Modules, Config_("A", <<Bool, Prompt>>), Config_("B", <<Tri, Prompt>>),
            <<"if", f>>, Config_("E", <<Bool, Depends(e), Default(Yes)>>), <<"end", "if">>>>,
          {"MODULES", "A", "B", "E"}, {NoFile}, {"randconfig"})
Dependings == [i \in 1..64 |-> Depending(Conditions[1 + ((i - 1) \div 8)],
                                         Conditions[1 + ((i - 1) % 8)])]

(* Tristates: an automatic submenu, select and imply, a number with a range. *)
TriText ==
  <<Modules,
    Config_("A", <<Tri, Prompt, Default(Mod)>>),
    Config_("B", <<Tri, Prompt, Depends(A), <<"select", Sym("D"), Null>>,
                   <<"imply", Sym("E"), Null>>>>),
    <<"comment", <<Depends(B)>>>>,
    Config_("N", <<Int_, Prompt, Depends(B), <<"range", Comp("=", "1", "3"), Null>>,
                   Default(Sym("2"))>>),
    <<"menu", <<Depends(Or(B, Sym("MODULES"))), <<"visible", Sym("MODULES")>>>>>>,
    Config_("D", <<Tri, Prompt>>),
    <<"menuconfig", "E", <<Bool, Prompt, Depends(Comp("=", "A", "y"))>>>>,
    <<"end", "menu">>>>
TriNames == {"MODULES", "A", "B", "D", "E", "N"}
TriFile  == <<<<"MODULES", 2>>, <<"A", 2>>, <<"B", 1>>, <<"D", 1>>, <<"E", 0>>, <<"N", 2>>>>
OddFile  == <<<<"A", 2>>, <<"E", 1>>, <<"GONE", 2>>, <<"N", 9>>, <<"A", 1>>>>
TriProject(tools) ==
  [Project(TriText, TriNames, {NoFile, OddFile}, tools)
    EXCEPT !.ints = {1, 9}, !.others = [alt |-> TriFile, defconfig |-> <<<<"B", 2>>>>]]

(* A choice, a symbol that depends on a member, one that takes over the      *)
(* value of a transitional symbol.                                           *)
ChoiceText ==
  <<Config_("T", <<Bool, <<"transitional">>>>),
    Config_("S", <<Bool, Prompt, Default(Sym("T"))>>),
    <<"choice", "CH", <<Prompt, Depends(Sym("S")), Default(Sym("Y"))>>>>,
    Config_("X", <<Bool, Prompt>>), Config_("Y", <<Bool, Prompt>>), Config_("Z", <<Bool, Prompt>>),
    <<"end", "choice">>,
    Config_("Q", <<Bool, Prompt, Depends(Not(Sym("Y"))), Default(Sym("X"))>>)>>
ChoiceNames == {"T", "S", "CH", "X", "Y", "Z", "Q"}
ChoiceFile1 == <<<<"T", 2>>, <<"X", 2>>, <<"Z", 2>>>>
ChoiceFile2 == <<<<"S", 2>>, <<"Y", 0>>, <<"Z", 0>>>>
ChoiceFile3 == <<<<"S", 2>>, <<"Z", 0>>, <<"X", 0>>, <<"Y", 0>>>>
ChoiceProject(tools) ==
  [Project(ChoiceText, ChoiceNames, {NoFile, ChoiceFile1, ChoiceFile2}, tools)
    EXCEPT !.others = [alt |-> ChoiceFile3, defconfig |-> ChoiceFile1]]

AllTools == Tool \ {"menuconfig"}

(* Two programs after another on the same files, with edits, failures and a  *)
(* death in between, and make.                                               *)
FilesProject ==
  [Project(<<Config_("A", <<Bool, Prompt>>), Config_("B", <<Bool, Prompt, Depends(A)>>)>>,
           {"A", "B"}, {NoFile, <<<<"A", 2>>, <<"B", 2>>>>}, {"menuconfig", "syncconfig"})
    EXCEPT !.edits = 2, !.runs = 2, !.kills = 1]

(* One mconf with a saved configuration; there is no other file to load.     *)
LoadProjects ==
  <<[FilesProject EXCEPT !.files = {<<<<"A", 2>>, <<"B", 2>>>>}, !.tools = {"menuconfig"},
                         !.runs = 0, !.kills = 0]>>

(* Texts that are refused, and some that are nearly so. *)
Bad(stmts, names) == Project(stmts, names, {NoFile}, {"olddefconfig"})
BadProjects ==
  <<Bad(<<<<"menu", <<>>>>, Config_("A", <<Bool>>)>>, {"A"}),
    Bad(<<<<"menu", <<>>>>, <<"end", "if">>, <<"end", "menu">>>>, {"A"}),
    Bad(<<<<"menuconfig", "A", <<Bool>>>>>>, {"A"}),
    Bad(<<<<"choice", "CH", <<>>>>, <<"end", "choice">>>>, {"CH"}),
    Bad(<<<<"choice", "CH", <<Prompt>>>>, Config_("A", <<Tri, Prompt>>), <<"end", "choice">>>>,
        {"A", "CH"}),
    Bad(<<<<"choice", "CH", <<Prompt>>>>, Config_("A", <<Bool, Prompt, Default(Yes)>>),
          <<"end", "choice">>>>, {"A", "CH"}),
    Bad(<<<<"choice", "CH", <<Prompt>>>>, <<"menuconfig", "A", <<Bool, Prompt>>>>,
          <<"end", "choice">>>>, {"A", "CH"}),
    Bad(<<Config_("A", <<Bool, <<"transitional">>, Depends(B)>>), Config_("B", <<Bool>>)>>,
        {"A", "B"}),
    Bad(<<Modules, Config_("A", <<Bool, <<"modules">>>>)>>, {"MODULES", "A"}),
    Bad(<<Config_("A", <<Bool, Prompt, Depends(B)>>),
          Config_("B", <<Bool, <<"select", A, Null>>, Default(Sym("C"))>>),
          Config_("C", <<Bool, Prompt>>)>>, {"A", "B", "C"}),
    Bad(<<Config_("A", <<Bool, Default(Sym("C"))>>), Config_("B", <<Bool, <<"imply", A, Null>>>>),
          Config_("C", <<Bool, Prompt, Depends(B)>>)>>, {"A", "B", "C"}),
    Bad(<<<<"choice", "CH", <<Prompt, Depends(Sym("C"))>>>>, Config_("A", <<Bool, Prompt>>),
          Config_("B", <<Bool, Prompt>>), <<"end", "choice">>,
          Config_("C", <<Bool, Default(A)>>)>>, {"A", "B", "C", "CH"}),
    Bad(<<Config_("A", <<Bool, Prompt, <<"select", B, Sym("C")>>>>),
          Config_("B", <<Bool, Prompt, <<"select", Sym("C"), Null>>>>),
          Config_("C", <<Bool, Prompt>>)>>, {"A", "B", "C"})>>

MCProjects ==
  Dependings \o BadProjects \o
  <<TriProject(AllTools \ {"oldaskconfig"}), ChoiceProject(AllTools), FilesProject,
    [TriProject({"menuconfig"}) EXCEPT !.edits = 2],
    [ChoiceProject({"menuconfig"}) EXCEPT !.edits = 2]>>

(* The laws that the theorems of KconfigValueProofs take from expressions    *)
(* (ExprLaws), for small expressions over a bool, a tristate and a number.   *)
LawDb     == [type |-> ("A" :> "bool") @@ ("B" :> "tristate") @@ ("I" :> "int") @@ Fixed]
LawValues == {[curr |-> ("A" :> i) @@ ("B" :> j) @@ ("I" :> k)] : i \in {0, 2}, j \in 0..2, k \in {0, 3}}
Leaves    == {Null, A, B, Sym("I"), Mod, Comp("=", "B", "m"), Comp("<", "I", "2")}
Joined(E, F) == {Not(e) : e \in E} \cup {And(e, f) : e \in E, f \in F} \cup {Or(e, f) : e \in E, f \in F}
LawExprs  == Leaves \cup Joined(Leaves, Leaves) \cup Joined(Joined(Leaves, Leaves), {A, Mod})
ASSUME ExprLawsHold ==
  /\ Eval(LawDb, CHOOSE v \in LawValues : TRUE, Null) = 2
  /\ \A e \in LawExprs : /\ IsExpr(e)
                         /\ \A v \in LawValues : Eval(LawDb, v, e) \in 0..2
  /\ \A e \in LawExprs, v, w \in LawValues :
       (\A s \in NamesIn(e) : SymValue(LawDb, v, s) = SymValue(LawDb, w, s)) =>
         Eval(LawDb, v, e) = Eval(LawDb, w, e)
  /\ \A e, f \in Leaves \cup Joined(Leaves, {B}), v \in LawValues :
       Eval(LawDb, v, And(e, f)) = Least(Eval(LawDb, v, e), Eval(LawDb, v, f))
=============================================================================
