------------------------------ MODULE BuildChain ------------------------------
(***************************************************************************)
(* From the #DEPS lines of the recipes to an ordered build.                *)
(* scripts/bin/gen_build_chain.py parses the lines, drops the dependencies *)
(* that no recipe provides (check_item), looks for circles                 *)
(* (check_circular_dep, with its debug_mode) and writes the Kconfig and    *)
(* auto.mk (gen_make).  The user selects packages, and GNU make runs the   *)
(* rules of auto.mk in parallel, into the sysroot of a package or the      *)
(* global one.  Kconfig and GNU make are external: a selection satisfies   *)
(* "depends on" and "select", and a rule runs after its prerequisites.     *)
(* Native variants and virtual packages are left out.                      *)
(***************************************************************************)
EXTENDS Integers, Sequences, FiniteSets, SequencesExt

CONSTANTS
    Packages,   \* the targets that recipes provide
    Recipes,    \* the #DEPS lines to be tried: functions from Packages to tokens
    Finals,     \* the packages with the attribute finally
    MaxJobs,    \* make -j
    Unknown,    \* names that no recipe provides
    Junk        \* a dependency that is the text of several alternatives

\* A token of a #DEPS line: x, ?x, x@cond, x|y and &&x|y.
Kinds == {"strong", "weak", "cond", "either", "selecteither"}
Words == Packages \cup Unknown \cup {Junk}
Token == [kind : Kinds, on : Seq(Packages \cup Unknown)]

ASSUME BuildChainAssumption ==
    /\ IsFiniteSet(Packages) /\ Junk \notin Packages
    /\ Packages \cap Unknown = {}
    /\ Finals \subseteq Packages
    /\ MaxJobs \in Nat \ {0}
    /\ Recipes \subseteq [Packages -> Seq(Token)]

VARIABLES
    recipe,   \* the #DEPS line of each package
    debug,    \* debug_mode
    private,  \* packages built against a sysroot of their own (psysroot)
    stage,    \* parse, check, order, circular, config, make, dropped or end
    asdeps, awdeps, ideps, wrule, select,   \* the lists of an item
    acount,   \* dependencies of an item that are not ordered yet
    temp,     \* items that are not ordered yet
    chain,    \* the rounds of items that are ordered
    finally_flag,
    enabled,  \* CONFIG_<package> = y
    deps,     \* <package>-deps of auto.mk, with the conditions of the selection
    job,      \* of each package: wait, psysroot, compile, built or failed
    sysroot,  \* packages installed into the sysroot of a package
    gsysroot  \* packages installed into the global sysroot

lists == <<asdeps, awdeps, ideps, wrule, select>>
order == <<acount, temp, chain, finally_flag>>
conf  == <<enabled, deps>>
build == <<job, sysroot, gsysroot>>
input == <<recipe, debug, private>>
vars  == <<input, stage, lists, order, conf, build>>

Stages == {"parse", "check", "order", "circular", "config", "make", "dropped", "end"}
Jobs   == {"wait", "psysroot", "compile", "built", "failed"}
Lists(S) == [Packages -> Seq(S)]

TypeOK ==
    /\ DOMAIN recipe = Packages /\ debug \in BOOLEAN /\ private \subseteq Packages
    /\ stage \in Stages
    /\ acount \in [Packages -> Nat]
    /\ temp \subseteq Packages /\ finally_flag \in BOOLEAN
    /\ enabled \subseteq Packages
    /\ deps \in [Packages -> SUBSET Packages]
    /\ job \in [Packages -> Jobs]
    /\ sysroot \in [Packages -> SUBSET Packages] /\ gsysroot \subseteq Packages

Empty == [p \in Packages |-> << >>]
None  == [p \in Packages |-> {}]

Init ==
    /\ recipe \in Recipes
    /\ debug \in BOOLEAN
    /\ private \in SUBSET Packages
    /\ stage = "parse"
    /\ asdeps = Empty /\ awdeps = Empty /\ ideps = Empty /\ wrule = Empty /\ select = Empty
    /\ acount = [p \in Packages |-> IF p \in Finals THEN 1 ELSE 0]
    /\ temp = Packages
    /\ chain = << >>
    /\ finally_flag = TRUE
    /\ enabled = {} /\ deps = None
    /\ job = [p \in Packages |-> "wait"]
    /\ sysroot = None /\ gsysroot = {}

-----------------------------------------------------------------------------
(* __set_item_deps *)

\* What a token adds to a list.  An x|y after & is added as it stands, once for
\* each alternative, to the weak dependencies.
Strong(t) == IF t.kind = "strong" THEN t.on ELSE << >>
Weak(t)   == CASE t.kind \in {"weak", "either"} -> t.on
               [] t.kind = "selecteither"       -> [i \in DOMAIN t.on |-> Junk]
               [] OTHER                         -> << >>
Cond(t)   == IF t.kind = "cond" THEN t.on ELSE << >>
Rule(t)   == IF t.kind = "either" THEN <<t.on>> ELSE << >>
\* The alternatives of a strong selection, until check_item takes one of them.
Choice(t) == IF t.kind = "selecteither" THEN <<t.on>> ELSE << >>

Collect(F(_)) ==
    [p \in Packages |-> FlattenSeq([i \in DOMAIN recipe[p] |-> F(recipe[p][i])])]

Parse ==
    /\ stage = "parse" /\ stage' = "check"
    /\ asdeps' = Collect(Strong)
    /\ awdeps' = Collect(Weak)
    /\ ideps'  = Collect(Cond)
    /\ wrule'  = Collect(Rule)
    /\ select' = Collect(Choice)
    /\ UNCHANGED <<input, order, conf, build>>

-----------------------------------------------------------------------------
(* check_item *)

InTargets(d) == d \in Packages
Found(s)     == FlattenSeq([i \in DOMAIN s |-> IF InTargets(s[i]) THEN <<s[i]>> ELSE << >>])
NonEmpty(s)  == s # << >>
AllFound(l)  == [p \in Packages |-> Found(l[p])]

\* A rule none of whose alternatives is provided ends the program.
RuleBroken(p) == \E i \in DOMAIN wrule[p] : Found(wrule[p][i]) = << >>

Count(as, aw, i) == Len(as) + Len(aw) + Len(i)

WeakRuleError ==
    /\ stage = "check" /\ stage' = "end"
    /\ \E p \in Packages : RuleBroken(p)
    /\ UNCHANGED <<input, lists, order, conf, build>>

\* Without debug_mode a strong dependency stays, provided or not.
CheckItem ==
    /\ stage = "check"
    /\ \A p \in Packages : ~RuleBroken(p)
    /\ stage' = IF debug THEN "order" ELSE "config"
    /\ asdeps' = IF debug THEN AllFound(asdeps) ELSE asdeps
    /\ awdeps' = AllFound(awdeps)
    /\ ideps'  = AllFound(ideps)
    /\ wrule'  = [p \in Packages |-> [i \in DOMAIN wrule[p] |-> Found(wrule[p][i])]]
    /\ select' = [p \in Packages |->
           LET some == SelectSeq([i \in DOMAIN select[p] |-> Found(select[p][i])], NonEmpty)
           IN  [i \in DOMAIN some |-> Head(some[i])]]
    /\ acount' = [p \in Packages |-> acount[p] + Count(asdeps'[p], awdeps'[p], ideps'[p])]
    /\ UNCHANGED <<input, temp, chain, finally_flag, conf, build>>

-----------------------------------------------------------------------------
(* check_circular_dep *)

Names(p) == Range(asdeps[p]) \cup Range(awdeps[p]) \cup Range(ideps[p])

\* Error variant: one dependency may be missing.
ListaEarly == {p \in temp : acount[p] <= 1}

Lista == {p \in temp : acount[p] = 0}

\* Error variant: an item is subtracted once, whatever number of lists has it.
HitsOnce(S, p) == Cardinality(S \cap Names(p))

\* What the items S of a round subtract: one for each list that has the item.
Hits(S, p) == Cardinality(S \cap Range(asdeps[p])) + Cardinality(S \cap Range(awdeps[p]))
              + Cardinality(S \cap Range(ideps[p]))

Round ==
    /\ stage = "order" /\ Lista # {}
    /\ acount' = [p \in Packages |-> IF p \in temp \ Lista
           THEN acount[p] - Hits(Lista, p)
           ELSE acount[p]]
    /\ chain' = Append(chain, Lista)
    /\ temp' = temp \ Lista
    /\ UNCHANGED <<input, stage, lists, finally_flag, conf, build>>

\* Error variant: not only the packages with finally may go.
FinallyRoundAll ==
    /\ stage = "order" /\ temp # {} /\ Lista = {} /\ finally_flag
    /\ finally_flag' = FALSE
    /\ acount' = [p \in Packages |-> IF p \in temp THEN acount[p] - 1 ELSE acount[p]]
    /\ UNCHANGED <<input, stage, lists, temp, chain, conf, build>>

\* Nothing else is left: the packages with finally may go.
FinallyRound ==
    /\ stage = "order" /\ temp # {} /\ Lista = {} /\ finally_flag
    /\ finally_flag' = FALSE
    /\ acount' = [p \in Packages |-> IF p \in temp \cap Finals THEN acount[p] - 1 ELSE acount[p]]
    /\ UNCHANGED <<input, stage, lists, temp, chain, conf, build>>

Circular ==
    /\ stage = "order" /\ temp # {} /\ Lista = {} /\ ~finally_flag
    /\ stage' = "circular"
    /\ UNCHANGED <<input, lists, order, conf, build>>

Ordered ==
    /\ stage = "order" /\ temp = {}
    /\ stage' = "config"
    /\ UNCHANGED <<input, lists, order, conf, build>>
-----------------------------------------------------------------------------
(* The selection, and what auto.mk makes of it *)

\* kconfig: "depends on" of the strong dependencies and the rules, and "select"
Selectable(E) == \A p \in E :
    /\ Range(asdeps[p]) \subseteq E
    /\ \A i \in DOMAIN wrule[p] : Range(wrule[p][i]) \cap E # {}
    /\ Range(select[p]) \subseteq E

\* The packages that p reaches over d.
Closure(d, p) == {q \in Packages : \A S \in SUBSET Packages :
    d[p] \subseteq S /\ (\A r \in S : d[r] \subseteq S) => q \in S}

\* finaldeps: every other package that is enabled
FinalDeps(E) == E \ Finals
MakeDeps(d, E) == [p \in Packages |-> IF p \in E
                     THEN d[p] \cup (IF p \in Finals THEN FinalDeps(E) ELSE {}) ELSE {}]
Circle(d, E) == LET m == MakeDeps(d, E) IN \E p \in E : p \in Closure(m, p)

\* Error variant: a package waits for its strong dependencies only.
StrongDepsOf(p, E, C) == Range(asdeps[p])

\* gen_make: weak dependencies as far as enabled, those with a condition as far
\* as the condition holds, and the strong ones
DepsOf(p, E, C) == ((Range(awdeps[p]) \cup (Range(ideps[p]) \cap C[p])) \cap E)
                   \cup Range(asdeps[p])

Configure ==
    /\ stage = "config"
    /\ \E E \in SUBSET Packages, C \in [Packages -> {{}, Packages}] :
        /\ Selectable(E)
        /\ \A p \in Packages : ideps[p] = << >> => C[p] = {}
        /\ enabled' = E
        /\ deps' = [p \in Packages |-> IF p \in E THEN DepsOf(p, E, C) ELSE {}]
        /\ stage' = IF Circle(deps', E) THEN "dropped" ELSE "make"
    /\ UNCHANGED <<input, lists, order, build>>

-----------------------------------------------------------------------------
(* make all_targets *)

Running == {p \in Packages : job[p] \in {"psysroot", "compile"}}
Failed  == \E p \in Packages : job[p] = "failed"
Goes(p) == /\ stage = "make" /\ p \in enabled
           /\ ~Failed /\ Cardinality(Running) < MaxJobs

Built(S)    == \A q \in S : job[q] = "built"
IsPrivate(p) == p \in private /\ deps[p] # {}

\* <package>: $(<package>-deps), or their _install for the global sysroot
Begin(p) ==
    /\ Goes(p) /\ job[p] = "wait"
    /\ IF IsPrivate(p) THEN Built(deps[p]) ELSE deps[p] \subseteq gsysroot
    /\ p \in Finals => Built(FinalDeps(enabled))
    /\ job' = [job EXCEPT ![p] = IF IsPrivate(p) THEN "psysroot" ELSE "compile"]
    /\ UNCHANGED <<input, stage, lists, order, conf, sysroot, gsysroot>>

\* Error variant: <package>_isysroot does not go on to the dependencies.
PopulateDirect(p) ==
    /\ job[p] = "psysroot"
    /\ sysroot' = [sysroot EXCEPT ![p] = deps[p]]
    /\ job' = [job EXCEPT ![p] = "compile"]
    /\ UNCHANGED <<input, stage, lists, order, conf, gsysroot>>

\* <package>_psysroot: the _isysroot of the dependencies and of theirs
Populate(p) ==
    /\ job[p] = "psysroot"
    /\ sysroot' = [sysroot EXCEPT ![p] = Closure(deps, p)]
    /\ job' = [job EXCEPT ![p] = "compile"]
    /\ UNCHANGED <<input, stage, lists, order, conf, gsysroot>>

Compile(p) ==
    /\ job[p] = "compile"
    /\ \E r \in {"built", "failed"} : job' = [job EXCEPT ![p] = r]
    /\ UNCHANGED <<input, stage, lists, order, conf, sysroot, gsysroot>>

\* Error variant: only packages with finally are installed.
WantedFinal(p) == p \in Finals

\* <package>_install is a prerequisite of a package on the global sysroot, or of
\* another _install, or it is the target that a package with finally stands for.
Wanted(p) == \/ p \in Finals
             \/ \E q \in enabled : ~IsPrivate(q) /\ p \in Closure(deps, q)
             \/ \E q \in Finals \cap enabled : p \in Closure(deps, q)

\* <package>_install, under flock of the global sysroot
Install(p) ==
    /\ Goes(p) /\ Wanted(p) /\ p \notin gsysroot
    /\ Built({p}) /\ deps[p] \subseteq gsysroot
    /\ gsysroot' = gsysroot \cup {p}
    /\ UNCHANGED <<input, stage, lists, order, conf, job, sysroot>>

AllDone == \A p \in enabled : Built({p}) /\ (Wanted(p) => p \in gsysroot)

EndMake ==
    /\ stage = "make" /\ Running = {} /\ (Failed \/ AllDone)
    /\ stage' = "end"
    /\ UNCHANGED <<input, lists, order, conf, build>>

-----------------------------------------------------------------------------
Work(p) == Begin(p) \/ Populate(p) \/ Compile(p) \/ Install(p)
Next ==
    \/ Parse \/ WeakRuleError \/ CheckItem
    \/ Round \/ FinallyRound \/ Circular \/ Ordered
    \/ Configure \/ EndMake
    \/ \E p \in Packages : Work(p)

Spec == Init /\ [][Next]_vars

\* The programs run to their end.
FairSpec == Spec /\ WF_vars(Next)

-----------------------------------------------------------------------------
(* Properties *)

\* What the line of a package promises: an enabled package that it names is built
\* first.  A condition is taken as it is in this run.
Alternatives(p) == UNION {Range(recipe[p][i].on) :
                            i \in {j \in DOMAIN recipe[p] : recipe[p][j].kind = "selecteither"}}
Plain(p) == UNION {Range(recipe[p][i].on) :
                     i \in {j \in DOMAIN recipe[p] : recipe[p][j].kind \in {"strong", "weak", "either"}}}
Visible(p) == IF IsPrivate(p) THEN sysroot[p] ELSE gsysroot

\* check_item, gen_make: an enabled package that a line names is in <package>-deps,
\* whether it is a strong, a weak or an alternative dependency.
PlainIsDep ==
    stage = "make" => \A p \in enabled : Plain(p) \cap enabled \subseteq deps[p]

\* gen_make and make: when a package is compiled, its dependencies and what those
\* depend on are built and are in the sysroot it sees, its own or the global one.
CompilesOnDeps ==
    \A p \in Packages : job[p] = "compile" =>
        \A q \in Closure(deps, p) : Built({q}) /\ q \in Visible(p)

\* Two tokens of a line that fill one list with the same name
Repeats(p) == LET rep(s) == Cardinality(Range(s)) < Len(s)
              IN rep(asdeps[p]) \/ rep(awdeps[p]) \/ rep(ideps[p])
Graph == [p \in Packages |-> Names(p) \cap Packages]

\* check_circular_dep: it reports a circle only where one is, as long as no line
\* names a package twice in the same manner.
CircularIsReal ==
    stage = "circular" /\ (\A p \in Packages : ~Repeats(p)) =>
        \E p \in Packages : p \in Closure(Graph, p)

\* check_circular_dep: after it, no selection gives auto.mk a circle, which make
\* would have to drop; unless a package depends on one that has finally.
CheckedIsAcyclic ==
    stage = "dropped" /\ debug => \E p \in Packages : Names(p) \cap Finals # {}

\* check_circular_dep: a package is in a later round than its dependencies.
ChainIsOrdered ==
    \A i \in DOMAIN chain : \A p \in chain[i] :
        Graph[p] \subseteq UNION {chain[j] : j \in 1 .. i - 1}

\* &&x|y of the README: one alternative is selected, and it is a weak dependency.
SelectedIsDep ==
    \A p \in enabled : job[p] = "compile" => Built(Alternatives(p) \cap enabled)

\* all_targets: the build ends, and if nothing failed, all enabled packages are built.
Completes ==
    (stage = "make") ~> (stage = "end" /\ (Failed \/ Built(enabled)))
=============================================================================
