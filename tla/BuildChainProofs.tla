--------------------------- MODULE BuildChainProofs ---------------------------
(***************************************************************************)
(* Two invariants.  MakeInv is about the build, for whatever Configure     *)
(* writes into deps.  OrderInv is about the lists, the rounds of           *)
(* check_circular_dep and what they promise of deps.                       *)
(***************************************************************************)
EXTENDS BuildChain, InductionLemmas

BuiltSet == {p \in Packages : job[p] = "built"}

\* The parts of the inductive invariant.  A package leaves "wait" after its dependencies are
\* built, so what is built or installed is closed under deps.
Typed ==
    /\ job \in [Packages -> Jobs]
    /\ deps \in [Packages -> SUBSET Packages]
    /\ sysroot \in [Packages -> SUBSET Packages]
    /\ gsysroot \subseteq Packages
    /\ enabled \subseteq Packages

NotYet == stage \notin {"make", "end"} =>
    /\ \A p \in Packages : job[p] = "wait"
    /\ gsysroot = {}

DepsFirst  == \A p \in Packages : job[p] # "wait" => deps[p] \subseteq BuiltSet
Installed  == \A p \in gsysroot : p \in BuiltSet /\ deps[p] \subseteq gsysroot
Populated  == \A p \in Packages : job[p] = "compile" =>
                 IF IsPrivate(p) THEN sysroot[p] = Closure(deps, p) ELSE deps[p] \subseteq gsysroot

OwnSysroot == \A p \in Packages : job[p] = "psysroot" => IsPrivate(p)

MakeInv == Typed /\ NotYet /\ OwnSysroot /\ DepsFirst /\ Installed /\ Populated

-----------------------------------------------------------------------------
\* The least closed set is inside every closed set.
LEMMA ClosureInside ==
    ASSUME NEW d, NEW p, NEW S \in SUBSET Packages,
           d[p] \subseteq S, \A r \in S : d[r] \subseteq S
    PROVE  Closure(d, p) \subseteq S
BY DEF Closure

\* While make has not started, nothing is built.
LEMMA InitInv == Init => MakeInv
BY DEF Init, None, MakeInv, Typed, NotYet, OwnSysroot, DepsFirst, Installed, Populated,
       Jobs, BuiltSet

\* The steps before the selection.
Prepare == Parse \/ WeakRuleError \/ CheckItem \/ Round \/ FinallyRound \/ Circular \/ Ordered

\* Parsing, checking and ordering leave the build alone.
LEMMA PrepareKeeps == MakeInv /\ Prepare => MakeInv'
<1> SUFFICES ASSUME MakeInv, Prepare PROVE MakeInv'
    OBVIOUS
<1>1. UNCHANGED <<private, job, deps, sysroot, gsysroot, enabled>>
    BY DEF Prepare, Parse, WeakRuleError, CheckItem, Round, FinallyRound, Circular, Ordered,
           conf, build, input
<1>2. stage \notin {"make", "end"}
    BY DEF Prepare, Parse, WeakRuleError, CheckItem, Round, FinallyRound, Circular, Ordered
<1>3. QED
    BY <1>1, <1>2 DEF MakeInv, Typed, NotYet, OwnSysroot, DepsFirst, Installed, Populated,
                      BuiltSet, IsPrivate, Closure

\* The selection writes deps while nothing is built.
LEMMA ConfigureKeeps == MakeInv /\ Configure => MakeInv'
<1> SUFFICES ASSUME MakeInv, Configure PROVE MakeInv'
    OBVIOUS
<1>1. PICK E \in SUBSET Packages, C \in [Packages -> {{}, Packages}] :
        /\ Selectable(E)
        /\ enabled' = E
        /\ deps' = [p \in Packages |-> IF p \in E THEN DepsOf(p, E, C) ELSE {}]
    BY DEF Configure
<1>2. UNCHANGED <<private, job, sysroot, gsysroot>> /\ stage \notin {"make", "end"}
    BY DEF Configure, build, input
<1>3. \A p \in E : DepsOf(p, E, C) \subseteq Packages
    BY <1>1 DEF Selectable, DepsOf
<1>4. deps' \in [Packages -> SUBSET Packages]
    BY <1>1, <1>3
<1>5. (\A p \in Packages : job[p] = "wait") /\ gsysroot = {}
    BY <1>2 DEF MakeInv, NotYet
<1>6. Typed'
    BY <1>1, <1>2, <1>4 DEF MakeInv, Typed
<1>7. QED
    BY <1>2, <1>5, <1>6
    DEF MakeInv, NotYet, OwnSysroot, DepsFirst, Installed, Populated

-----------------------------------------------------------------------------
(* The steps of make: BuiltSet only grows. *)

\* A package leaves wait when its dependencies are built, and installed if it needs that.
LEMMA BeginKeeps == ASSUME NEW p \in Packages, MakeInv, Begin(p) PROVE MakeInv'
<1>1. /\ UNCHANGED <<private, stage, deps, enabled, sysroot, gsysroot>>
      /\ stage = "make" /\ job[p] = "wait"
      /\ job' = [job EXCEPT ![p] = IF IsPrivate(p) THEN "psysroot" ELSE "compile"]
    BY DEF Begin, Goes, conf, input
<1>2. job \in [Packages -> Jobs]
    BY DEF MakeInv, Typed
<1>3. BuiltSet' = BuiltSet
    BY <1>1, <1>2 DEF BuiltSet
<1>4. gsysroot \subseteq BuiltSet
    BY DEF MakeInv, Installed
<1>5. deps[p] \subseteq BuiltSet /\ (~IsPrivate(p) => deps[p] \subseteq gsysroot)
    <2>1. CASE IsPrivate(p)
        <3>1. Built(deps[p])
            BY <2>1 DEF Begin
        <3>2. deps[p] \subseteq Packages
            BY DEF MakeInv, Typed
        <3>3. QED
            BY <2>1, <3>1, <3>2 DEF Built, BuiltSet
    <2>2. CASE ~IsPrivate(p)
        BY <1>4, <2>2 DEF Begin
    <2>3. QED
        BY <2>1, <2>2
<1>6. Typed' /\ NotYet'
    BY <1>1, <1>2 DEF MakeInv, Typed, NotYet, Jobs
<1>7. DepsFirst'
    BY <1>1, <1>2, <1>3, <1>5 DEF MakeInv, DepsFirst
<1>8. Installed'
    BY <1>1, <1>3 DEF MakeInv, Installed
<1>9. Populated'
    BY <1>1, <1>2, <1>5 DEF MakeInv, Populated, IsPrivate, Closure
<1>10. OwnSysroot'
    BY <1>1, <1>2 DEF MakeInv, OwnSysroot, IsPrivate
<1>11. QED
    BY <1>6, <1>7, <1>8, <1>9, <1>10 DEF MakeInv

\* The private sysroot gets all that the package reaches over deps.
LEMMA PopulateKeeps == ASSUME NEW p \in Packages, MakeInv, Populate(p) PROVE MakeInv'
<1>1. /\ UNCHANGED <<private, stage, deps, enabled, gsysroot>>
      /\ job[p] = "psysroot" /\ job' = [job EXCEPT ![p] = "compile"]
      /\ sysroot' = [sysroot EXCEPT ![p] = Closure(deps, p)]
    BY DEF Populate, conf, input
<1>2. job \in [Packages -> Jobs] /\ sysroot \in [Packages -> SUBSET Packages]
    BY DEF MakeInv, Typed
<1>3. BuiltSet' = BuiltSet
    BY <1>1, <1>2 DEF BuiltSet
<1>4. Closure(deps, p) \subseteq Packages
    BY DEF Closure
<1>5. IsPrivate(p) /\ deps[p] \subseteq BuiltSet
    BY <1>1 DEF MakeInv, OwnSysroot, DepsFirst
<1>6. Typed' /\ NotYet' /\ OwnSysroot'
    BY <1>1, <1>2, <1>4 DEF MakeInv, Typed, NotYet, OwnSysroot, Jobs, IsPrivate
<1>7. DepsFirst' /\ Installed'
    BY <1>1, <1>2, <1>3 DEF MakeInv, DepsFirst, Installed
<1>8. Populated'
    BY <1>1, <1>2, <1>5 DEF MakeInv, Populated, IsPrivate, Closure
<1>9. QED
    BY <1>6, <1>7, <1>8 DEF MakeInv

\* A compilation ends: BuiltSet grows, or stays.
LEMMA CompileKeeps == ASSUME NEW p \in Packages, MakeInv, Compile(p) PROVE MakeInv'
<1>1. PICK r \in {"built", "failed"} :
        /\ UNCHANGED <<private, stage, deps, enabled, sysroot, gsysroot>>
        /\ job[p] = "compile" /\ job' = [job EXCEPT ![p] = r]
    BY DEF Compile, conf, input
<1>2. job \in [Packages -> Jobs]
    BY DEF MakeInv, Typed
<1>3. BuiltSet \subseteq BuiltSet'
    BY <1>1, <1>2 DEF BuiltSet
<1>4. Typed' /\ NotYet' /\ OwnSysroot'
    BY <1>1, <1>2 DEF MakeInv, Typed, NotYet, OwnSysroot, Jobs, IsPrivate
<1>5. DepsFirst'
    BY <1>1, <1>2, <1>3 DEF MakeInv, DepsFirst
<1>6. Installed'
    BY <1>1, <1>3 DEF MakeInv, Installed
<1>7. Populated'
    BY <1>1, <1>2 DEF MakeInv, Populated, IsPrivate, Closure
<1>8. QED
    BY <1>4, <1>5, <1>6, <1>7 DEF MakeInv

\* An installed package brings its dependencies with it.
LEMMA InstallKeeps == ASSUME NEW p \in Packages, MakeInv, Install(p) PROVE MakeInv'
<1>1. /\ UNCHANGED <<private, stage, deps, enabled, job, sysroot>>
      /\ stage = "make" /\ Built({p}) /\ deps[p] \subseteq gsysroot
      /\ gsysroot' = gsysroot \cup {p}
    BY DEF Install, Goes, conf, input
<1>2. BuiltSet' = BuiltSet /\ p \in BuiltSet
    BY <1>1 DEF BuiltSet, Built
<1>3. Installed'
    BY <1>1, <1>2 DEF MakeInv, Installed
<1>4. Populated'
    BY <1>1 DEF MakeInv, Populated, IsPrivate, Closure
<1>5. QED
    BY <1>1, <1>2, <1>3, <1>4
    DEF MakeInv, Typed, NotYet, OwnSysroot, DepsFirst, IsPrivate

\* The end of make changes no job.
LEMMA EndMakeKeeps == MakeInv /\ (EndMake \/ UNCHANGED vars) => MakeInv'
<1> SUFFICES ASSUME MakeInv, EndMake \/ UNCHANGED vars PROVE MakeInv'
    OBVIOUS
<1>1. /\ UNCHANGED <<private, job, deps, sysroot, gsysroot, enabled>>
      /\ stage' \notin {"make", "end"} => stage \notin {"make", "end"}
    BY DEF EndMake, vars, conf, build, input
<1>2. QED
    BY <1>1 DEF MakeInv, Typed, NotYet, OwnSysroot, DepsFirst, Installed, Populated,
                BuiltSet, IsPrivate, Closure

\* Every step keeps the invariant.
LEMMA StepInv == MakeInv /\ [Next]_vars => MakeInv'
<1> SUFFICES ASSUME MakeInv, [Next]_vars PROVE MakeInv'
    OBVIOUS
<1>1. CASE Prepare
    BY <1>1, PrepareKeeps
<1>2. CASE Configure
    BY <1>2, ConfigureKeeps
<1>3. CASE EndMake \/ UNCHANGED vars
    BY <1>3, EndMakeKeeps
<1>4. ASSUME NEW p \in Packages, Work(p) PROVE MakeInv'
    BY <1>4, BeginKeeps, PopulateKeeps, CompileKeeps, InstallKeeps DEF Work
<1>5. QED
    BY <1>1, <1>2, <1>3, <1>4 DEF Next, Prepare

\* The invariant holds in every build.
LEMMA MakeInvariant == Spec => []MakeInv
BY InitInv, StepInv, PTL DEF Spec

-----------------------------------------------------------------------------
(* The theorems *)

\* A package is compiled when all it reaches is built, and in the sysroot it sees.
LEMMA InvGivesDeps == MakeInv => CompilesOnDeps
<1> SUFFICES ASSUME MakeInv, NEW p \in Packages, job[p] = "compile",
                    NEW q \in Closure(deps, p)
             PROVE  Built({q}) /\ q \in Visible(p)
    BY DEF CompilesOnDeps
<1>1. /\ deps[p] \subseteq BuiltSet
      /\ \A r \in BuiltSet : deps[r] \subseteq BuiltSet
      /\ BuiltSet \in SUBSET Packages
    BY DEF MakeInv, DepsFirst, BuiltSet
<1>2. q \in BuiltSet
    <2>1. Closure(deps, p) \subseteq BuiltSet
        BY <1>1, ClosureInside
    <2>2. QED
        BY <2>1
<1>3. CASE IsPrivate(p)
    BY <1>2, <1>3 DEF MakeInv, Populated, Built, BuiltSet, Visible
<1>4. CASE ~IsPrivate(p)
    <2>1. /\ deps[p] \subseteq gsysroot
          /\ \A r \in gsysroot : deps[r] \subseteq gsysroot
          /\ gsysroot \in SUBSET Packages
        BY <1>4 DEF MakeInv, Populated, Installed, Typed
    <2>2. Closure(deps, p) \subseteq gsysroot
        BY <2>1, ClosureInside
    <2>3. QED
        BY <1>2, <1>4, <2>2 DEF Built, BuiltSet, Visible
<1>5. QED
    BY <1>3, <1>4

\* gen_make: in every build, with any number of packages and jobs, a package is
\* compiled against a sysroot with all packages it reaches by dependencies, built.
THEOREM DepsAreBuilt == Spec => []CompilesOnDeps
BY MakeInvariant, InvGivesDeps, PTL

-----------------------------------------------------------------------------
(* The lists of an item *)

\* What a token adds to a list is a list of names.
LEMMA TokenLists ==
    ASSUME NEW t \in Token
    PROVE  /\ Strong(t) \in Seq(Words) /\ Weak(t) \in Seq(Words) /\ Cond(t) \in Seq(Words)
           /\ t.kind \in {"strong", "weak", "either"} =>
                Range(t.on) \subseteq Range(Strong(t)) \cup Range(Weak(t))
<1>1. t.on \in Seq(Packages \cup Unknown) /\ t.kind \in Kinds
    BY DEF Token
<1>2. t.on \in Seq(Words)
    BY <1>1 DEF Words
<1>3. [i \in DOMAIN t.on |-> Junk] \in Seq(Words)
    BY <1>1 DEF Words
<1>4. << >> \in Seq(Words)
    OBVIOUS
<1>5. Strong(t) \in Seq(Words) /\ Cond(t) \in Seq(Words)
    BY <1>2, <1>4 DEF Strong, Cond
<1>6. Weak(t) \in Seq(Words)
    BY <1>2, <1>3, <1>4 DEF Weak
<1>7. t.kind \in {"strong", "weak", "either"} => Range(t.on) \subseteq Range(Strong(t)) \cup Range(Weak(t))
    BY DEF Strong, Weak
<1>8. QED
    BY <1>5, <1>6, <1>7

\* Collect puts the lists of all tokens of a line after each other.
LEMMA CollectValues ==
    ASSUME recipe \in [Packages -> Seq(Token)]
    PROVE  /\ Collect(Strong) \in [Packages -> Seq(Words)]
           /\ Collect(Weak) \in [Packages -> Seq(Words)]
           /\ Collect(Cond) \in [Packages -> Seq(Words)]
           /\ \A p \in Packages : Plain(p) \subseteq Range(Collect(Strong)[p]) \cup Range(Collect(Weak)[p])
<1> SUFFICES ASSUME NEW p \in Packages
             PROVE  /\ Collect(Strong)[p] \in Seq(Words)
                    /\ Collect(Weak)[p] \in Seq(Words)
                    /\ Collect(Cond)[p] \in Seq(Words)
                    /\ Plain(p) \subseteq Range(Collect(Strong)[p]) \cup Range(Collect(Weak)[p])
    BY DEF Collect
<1> DEFINE r == recipe[p]
           as == [i \in DOMAIN r |-> Strong(r[i])]
           aw == [i \in DOMAIN r |-> Weak(r[i])]
           ic == [i \in DOMAIN r |-> Cond(r[i])]
<1>1. r \in Seq(Token)
    OBVIOUS
<1>2. \A i \in DOMAIN r : r[i] \in Token
    BY <1>1
<1>3. as \in Seq(Seq(Words)) /\ aw \in Seq(Seq(Words)) /\ ic \in Seq(Seq(Words))
    <2>1. DOMAIN r = 1 .. Len(r) /\ Len(r) \in Nat
        BY <1>1
    <2>2. \A i \in 1 .. Len(r) : r[i] \in Token
        BY <1>2, <2>1
    <2>3. /\ as \in [1 .. Len(r) -> Seq(Words)]
          /\ aw \in [1 .. Len(r) -> Seq(Words)]
          /\ ic \in [1 .. Len(r) -> Seq(Words)]
        BY <2>1, <2>2, TokenLists
    <2> HIDE DEF as, aw, ic
    <2>4. QED
        BY <2>1, <2>3, FunctionIsSeq
<1>4. /\ Collect(Strong)[p] = FlattenSeq(as)
      /\ Collect(Weak)[p] = FlattenSeq(aw)
      /\ Collect(Cond)[p] = FlattenSeq(ic)
    BY DEF Collect
<1>5. ASSUME NEW d \in Plain(p) PROVE d \in Range(FlattenSeq(as)) \cup Range(FlattenSeq(aw))
    <2>1. PICK i \in DOMAIN r : r[i].kind \in {"strong", "weak", "either"} /\ d \in Range(r[i].on)
        BY <1>5 DEF Plain
    <2>2. d \in Range(as[i]) \cup Range(aw[i])
        BY <1>2, <2>1, TokenLists
    <2>3. i \in DOMAIN as /\ i \in DOMAIN aw
        OBVIOUS
    <2> HIDE DEF as, aw
    <2>4. QED
        BY <1>3, <2>2, <2>3, FlattenValues
<1>6. QED
    <2> HIDE DEF as, aw, ic
    <2>1. QED
        BY <1>3, <1>4, <1>5, FlattenValues

\* check_item keeps the names that a recipe provides.
LEMMA FoundValues ==
    ASSUME NEW s \in Seq(Words)
    PROVE  Found(s) \in Seq(Packages) /\ Range(Found(s)) = Range(s) \cap Packages
<1> DEFINE ss == [i \in DOMAIN s |-> IF InTargets(s[i]) THEN <<s[i]>> ELSE << >>]
<1>1. \A i \in DOMAIN s : ss[i] \in Seq(Packages) /\ Range(ss[i]) = {s[i]} \cap Packages
    <2> TAKE i \in DOMAIN s
    <2>1. CASE s[i] \in Packages
        <3>1. ss[i] = <<s[i]>>
            BY <2>1 DEF InTargets
        <3>2. <<s[i]>> \in Seq(Packages) /\ Range(<<s[i]>>) = {s[i]}
            BY <2>1 DEF Range
        <3>3. QED
            BY <2>1, <3>1, <3>2, Zenon
    <2>2. CASE s[i] \notin Packages
        <3>1. ss[i] = << >>
            BY <2>2 DEF InTargets
        <3>2. << >> \in Seq(Packages) /\ Range(<< >>) = {}
            BY DEF Range
        <3>3. QED
            BY <2>2, <3>1, <3>2, Zenon
    <2>3. QED
        BY <2>1, <2>2
<1>2. ss \in Seq(Seq(Packages)) /\ DOMAIN ss = DOMAIN s
    <2>1. DOMAIN s = 1 .. Len(s) /\ Len(s) \in Nat
        OBVIOUS
    <2>2. DOMAIN ss = DOMAIN s /\ ss \in [1 .. Len(s) -> Seq(Packages)]
        BY <1>1, <2>1
    <2> HIDE DEF ss
    <2>3. QED
        BY <2>1, <2>2, FunctionIsSeq
<1>3. Found(s) = FlattenSeq(ss)
    BY DEF Found
<1> HIDE DEF ss
<1>4. Found(s) \in Seq(Packages) /\ Range(Found(s)) = UNION {Range(ss[i]) : i \in DOMAIN ss}
    BY <1>2, <1>3, FlattenValues
<1>5. QED
    <2>1. Range(s) = {s[i] : i \in DOMAIN s}
        BY DEF Range
    <2>2. UNION {Range(ss[i]) : i \in DOMAIN ss} = Range(s) \cap Packages
        BY <1>1, <1>2, <2>1
    <2>3. QED
        BY <1>4, <2>2

-----------------------------------------------------------------------------
(* The invariant of the checks and of the order *)

Placed   == UNION {chain[i] : i \in DOMAIN chain}
Total(p) == Len(asdeps[p]) + Len(awdeps[p]) + Len(ideps[p])
Due(p)   == IF p \in Finals /\ finally_flag THEN 1 ELSE 0
Early    == {"parse", "check"}

ListTypes ==
    /\ recipe \in [Packages -> Seq(Token)]
    /\ debug \in BOOLEAN /\ private \subseteq Packages
    /\ stage \in Stages /\ finally_flag \in BOOLEAN
    /\ asdeps \in [Packages -> Seq(Words)]
    /\ awdeps \in [Packages -> Seq(Words)]
    /\ ideps \in [Packages -> Seq(Words)]
    /\ acount \in [Packages -> Nat]

\* Before check_circular_dep, and without debug_mode, nothing is ordered.
Unordered == stage \in Early \/ ~debug =>
    /\ chain = << >> /\ temp = Packages /\ finally_flag
    /\ stage \in Early => acount = [p \in Packages |-> IF p \in Finals THEN 1 ELSE 0]

\* check_circular_dep sees lists of packages.
OnlyFound == stage = "order" =>
    /\ debug
    /\ asdeps \in [Packages -> Seq(Packages)]
    /\ awdeps \in [Packages -> Seq(Packages)]
    /\ ideps \in [Packages -> Seq(Packages)]

\* An item is in one round, or not ordered yet.
Rounds ==
    /\ chain \in Seq(SUBSET Packages)
    /\ temp = Packages \ Placed
    /\ \A i, j \in DOMAIN chain : i # j => chain[i] \cap chain[j] = {}

\* acount is what is left of the lists, and the place of finally.
Counted == stage = "order" =>
    \A p \in temp : acount[p] = Total(p) + Due(p) - Hits(Placed, p)

AllPlaced == stage = "config" /\ debug => temp = {}

\* What a line names stays in the lists, and comes into deps.
Named == stage # "parse" => \A p \in Packages :
    Plain(p) \cap Packages \subseteq Range(asdeps[p]) \cup Range(awdeps[p])
Written == stage = "make" => \A p \in enabled :
    (Range(awdeps[p]) \cap enabled) \cup Range(asdeps[p]) \subseteq deps[p]

OrderInv == /\ ListTypes /\ Unordered /\ OnlyFound /\ Rounds /\ Counted /\ AllPlaced
            /\ Named /\ Written /\ ChainIsOrdered /\ CircularIsReal /\ CheckedIsAcyclic

\* The initial state: one line of each package, nothing parsed.
LEMMA InitOrder == Init => OrderInv
<1> SUFFICES ASSUME Init PROVE OrderInv
    OBVIOUS
<1>1. Placed = {} /\ DOMAIN chain = {}
    BY DEF Init, Placed
<1>2. ListTypes
    BY BuildChainAssumption DEF Init, ListTypes, Empty, Stages
<1>3. Unordered /\ OnlyFound /\ Counted /\ AllPlaced /\ Named /\ Written
    BY DEF Init, Unordered, OnlyFound, Counted, AllPlaced, Named, Written, Early
<1>4. Rounds /\ ChainIsOrdered
    BY <1>1 DEF Init, Rounds, ChainIsOrdered
<1>5. CircularIsReal /\ CheckedIsAcyclic
    BY DEF Init, CircularIsReal, CheckedIsAcyclic
<1>6. QED
    BY <1>2, <1>3, <1>4, <1>5 DEF OrderInv

\* What one list of a package still waits for: none, when it is all placed.
LEMMA PlacedCount ==
    ASSUME NEW s \in Seq(Packages), NEW D \in SUBSET Packages
    PROVE  /\ Cardinality(D \cap Range(s)) \in Nat
           /\ Len(s) \in Nat /\ Cardinality(D \cap Range(s)) <= Len(s)
           /\ Cardinality(D \cap Range(s)) = Len(s) => Range(s) \subseteq D
           /\ Range(s) \subseteq D /\ ~(Cardinality(Range(s)) < Len(s)) =>
                Cardinality(D \cap Range(s)) = Len(s)
<1>1. /\ IsFiniteSet(Range(s)) /\ Cardinality(Range(s)) \in Nat
      /\ Len(s) \in Nat /\ Cardinality(Range(s)) <= Len(s)
    BY RangeSmall
<1>2. D \cap Range(s) \in SUBSET Range(s)
    OBVIOUS
<1>3. /\ IsFiniteSet(D \cap Range(s)) /\ Cardinality(D \cap Range(s)) \in Nat
      /\ Cardinality(D \cap Range(s)) <= Cardinality(Range(s))
      /\ Cardinality(D \cap Range(s)) = Cardinality(Range(s)) => D \cap Range(s) = Range(s)
    <2> DEFINE P == D \cap Range(s)
               R == Range(s)
    <2> HIDE DEF P, R
    <2>1. P \in SUBSET R /\ IsFiniteSet(R) /\ Cardinality(R) \in Nat
        BY <1>1, <1>2 DEF P, R
    <2>2. /\ IsFiniteSet(P) /\ Cardinality(P) \in Nat
          /\ Cardinality(P) <= Cardinality(R)
          /\ Cardinality(P) = Cardinality(R) => P = R
        BY <2>1, FS_Subset, FS_CardinalityType
    <2>3. QED
        BY <2>2 DEF P, R
<1>4. Range(s) \subseteq D => D \cap Range(s) = Range(s)
    OBVIOUS
<1>5. QED
    <2>1. Range(s) \subseteq D => Cardinality(D \cap Range(s)) = Cardinality(Range(s))
        BY <1>4
    <2>2. Cardinality(D \cap Range(s)) = Len(s) => Range(s) \subseteq D
        <3>1. D \cap Range(s) = Range(s) => Range(s) \subseteq D
            OBVIOUS
        <3>2. QED
            BY <1>1, <1>3, <3>1
    <2>3. QED
        BY <1>1, <1>3, <2>1, <2>2

\* A round adds its items to those that a list has seen.
LEMMA PlacedAdds ==
    ASSUME NEW s \in Seq(Packages), NEW D \in SUBSET Packages, NEW L \in SUBSET Packages,
           D \cap L = {}
    PROVE  Cardinality((D \cup L) \cap Range(s))
               = Cardinality(D \cap Range(s)) + Cardinality(L \cap Range(s))
<1> DEFINE A == D \cap Range(s)
           B == L \cap Range(s)
           C == (D \cup L) \cap Range(s)
<1>1. IsFiniteSet(Range(s)) /\ A \in SUBSET Range(s) /\ B \in SUBSET Range(s)
    BY RangeSmall
<1>2. C = A \cup B /\ A \cap B = {}
    OBVIOUS
<1> HIDE DEF A, B, C
<1>3. IsFiniteSet(A) /\ IsFiniteSet(B)
    <2>1. IsFiniteSet(Range(s))
        BY <1>1
    <2>2. \A T \in SUBSET Range(s) : IsFiniteSet(T)
        BY <2>1, FS_Subset
    <2>3. QED
        BY <1>1, <2>2
<1>4. Cardinality(A) \in Nat /\ Cardinality(B) \in Nat /\ Cardinality({}) = 0
    BY <1>3, FS_EmptySet, FS_CardinalityType
<1>5. Cardinality(A \cup B) = Cardinality(A) + Cardinality(B) - Cardinality(A \cap B)
    BY <1>3, FS_Union
<1>6. Cardinality(C) = Cardinality(A) + Cardinality(B)
    <2>1. Cardinality(C) = Cardinality(A \cup B) /\ Cardinality(A \cap B) = 0
        BY <1>2, <1>4, Zenon
    <2>2. QED
        BY <1>4, <1>5, <2>1
<1>7. QED
    BY <1>6 DEF A, B, C

\* The lists of a package in check_circular_dep: what they have left to wait for.
LEMMA LeftOf ==
    ASSUME ListTypes, OnlyFound, stage = "order", NEW p \in Packages, NEW D \in SUBSET Packages
    PROVE  /\ Total(p) \in Nat /\ Hits(D, p) \in Nat /\ Hits(D, p) <= Total(p)
           /\ Hits(D, p) = Total(p) => Names(p) \subseteq D
           /\ Names(p) \subseteq D /\ ~Repeats(p) => Hits(D, p) = Total(p)
           /\ \A L \in SUBSET Packages : D \cap L = {} => Hits(D \cup L, p) = Hits(D, p) + Hits(L, p)
           /\ Names(p) \subseteq Packages
<1> DEFINE a == asdeps[p]
           w == awdeps[p]
           c == ideps[p]
           K(S, s) == Cardinality(S \cap Range(s))
           Rep(s) == Cardinality(Range(s)) < Len(s)
<1>1. a \in Seq(Packages) /\ w \in Seq(Packages) /\ c \in Seq(Packages)
    BY DEF OnlyFound
<1>2. /\ Total(p) = Len(a) + Len(w) + Len(c)
      /\ Names(p) = Range(a) \cup Range(w) \cup Range(c)
      /\ \A S : Hits(S, p) = K(S, a) + K(S, w) + K(S, c)
      /\ Repeats(p) <=> Rep(a) \/ Rep(w) \/ Rep(c)
    BY DEF Total, Names, Hits, Repeats
<1>3. ASSUME NEW s \in Seq(Packages)
      PROVE  /\ Len(s) \in Nat /\ Range(s) \subseteq Packages
             /\ \A S \in SUBSET Packages :
                    /\ K(S, s) \in Nat /\ K(S, s) <= Len(s)
                    /\ K(S, s) = Len(s) => Range(s) \subseteq S
                    /\ Range(s) \subseteq S /\ ~Rep(s) => K(S, s) = Len(s)
             /\ \A L \in SUBSET Packages : D \cap L = {} => K(D \cup L, s) = K(D, s) + K(L, s)
    BY PlacedCount, PlacedAdds, RangeSmall
<1> HIDE DEF a, w, c, K, Rep
<1>4. /\ Len(a) \in Nat /\ Len(w) \in Nat /\ Len(c) \in Nat
      /\ K(D, a) \in Nat /\ K(D, w) \in Nat /\ K(D, c) \in Nat
      /\ K(D, a) <= Len(a) /\ K(D, w) <= Len(w) /\ K(D, c) <= Len(c)
    BY <1>1, <1>3
<1>5. Total(p) \in Nat /\ Hits(D, p) \in Nat /\ Hits(D, p) <= Total(p)
    BY <1>2, <1>4
<1>6. ASSUME Hits(D, p) = Total(p) PROVE Names(p) \subseteq D
    <2>1. K(D, a) = Len(a) /\ K(D, w) = Len(w) /\ K(D, c) = Len(c)
        BY <1>2, <1>4, <1>6
    <2>2. Range(a) \subseteq D /\ Range(w) \subseteq D /\ Range(c) \subseteq D
        BY <1>1, <1>3, <2>1
    <2>3. QED
        BY <1>2, <2>2
<1>7. ASSUME Names(p) \subseteq D, ~Repeats(p) PROVE Hits(D, p) = Total(p)
    <2>1. /\ Range(a) \subseteq D /\ Range(w) \subseteq D /\ Range(c) \subseteq D
          /\ ~Rep(a) /\ ~Rep(w) /\ ~Rep(c)
        BY <1>2, <1>7
    <2>2. K(D, a) = Len(a) /\ K(D, w) = Len(w) /\ K(D, c) = Len(c)
        BY <1>1, <1>3, <2>1
    <2>3. QED
        BY <1>2, <2>2
<1>8. ASSUME NEW L \in SUBSET Packages, D \cap L = {}
      PROVE  Hits(D \cup L, p) = Hits(D, p) + Hits(L, p)
    <2>1. /\ K(D \cup L, a) = K(D, a) + K(L, a)
          /\ K(D \cup L, w) = K(D, w) + K(L, w)
          /\ K(D \cup L, c) = K(D, c) + K(L, c)
        BY <1>1, <1>3, <1>8
    <2>2. K(L, a) \in Nat /\ K(L, w) \in Nat /\ K(L, c) \in Nat
        BY <1>1, <1>3
    <2>3. QED
        BY <1>2, <1>4, <2>1, <2>2
<1>9. Names(p) \subseteq Packages
    BY <1>1, <1>2, <1>3
<1>10. QED
    BY <1>5, <1>6, <1>7, <1>8, <1>9

-----------------------------------------------------------------------------
(* Every step keeps OrderInv. *)

\* The chain and the lists of an earlier state, at a stage where nothing looks at them.
LEMMA QuietKeeps ==
    ASSUME OrderInv, UNCHANGED <<input, lists, order, conf>>,
           stage' = stage \/ (stage # "parse" /\ stage' = "end")
    PROVE  OrderInv'
<1>1. UNCHANGED <<recipe, debug, private, asdeps, awdeps, ideps, acount, temp, chain, finally_flag,
                  enabled, deps>>
    BY DEF input, lists, order, conf
<1>2. ListTypes' /\ Unordered' /\ OnlyFound' /\ AllPlaced'
    BY <1>1 DEF OrderInv, ListTypes, Unordered, OnlyFound, AllPlaced, Early, Stages
<1>3. Rounds' /\ Counted'
    <2>1. Rounds'
        BY <1>1 DEF OrderInv, Rounds, Placed
    <2>2. stage' = "order" => stage = "order"
        OBVIOUS
    <2>3. \A p : Total(p)' = Total(p) /\ Due(p)' = Due(p) /\ Hits(Placed, p)' = Hits(Placed, p)
        BY <1>1 DEF Total, Due, Hits, Placed
    <2>4. Counted'
        BY <1>1, <2>2, <2>3 DEF OrderInv, Counted
    <2>5. QED
        BY <2>1, <2>4
<1>4. Named'
    BY <1>1 DEF OrderInv, Named, Plain
<1>5. Written'
    BY <1>1 DEF OrderInv, Written
<1>6. ChainIsOrdered'
    BY <1>1 DEF OrderInv, ChainIsOrdered, Graph, Names
<1>7. CircularIsReal' /\ CheckedIsAcyclic'
    BY <1>1 DEF OrderInv, CircularIsReal, CheckedIsAcyclic, Repeats, Closure, Graph, Names
<1>8. QED
    BY <1>2, <1>3, <1>4, <1>5, <1>6, <1>7 DEF OrderInv

\* __set_item_deps: the lists hold names, and every name of the line that is no
\* condition.
LEMMA ParseKeeps == ASSUME OrderInv, Parse PROVE OrderInv'
<1>1. /\ UNCHANGED <<recipe, debug, private, acount, temp, chain, finally_flag, enabled, deps>>
      /\ stage = "parse" /\ stage' = "check"
      /\ asdeps' = Collect(Strong) /\ awdeps' = Collect(Weak) /\ ideps' = Collect(Cond)
    BY DEF Parse, input, order, conf
<1>2. /\ Collect(Strong) \in [Packages -> Seq(Words)]
      /\ Collect(Weak) \in [Packages -> Seq(Words)]
      /\ Collect(Cond) \in [Packages -> Seq(Words)]
      /\ \A p \in Packages : Plain(p) \subseteq Range(Collect(Strong)[p]) \cup Range(Collect(Weak)[p])
    BY CollectValues DEF OrderInv, ListTypes
<1>3. chain = << >> /\ Unordered'
    BY <1>1 DEF OrderInv, Unordered, Early
<1>4. ListTypes'
    BY <1>1, <1>2 DEF OrderInv, ListTypes, Stages
<1>5. Rounds'
    BY <1>1 DEF OrderInv, Rounds, Placed
<1>6. Named'
    BY <1>1, <1>2 DEF Named, Plain
<1>7. OnlyFound' /\ Counted' /\ AllPlaced' /\ Written' /\ CircularIsReal' /\ CheckedIsAcyclic'
    BY <1>1 DEF OnlyFound, Counted, AllPlaced, Written, CircularIsReal, CheckedIsAcyclic
<1>8. ChainIsOrdered'
    BY <1>1, <1>3 DEF ChainIsOrdered
<1>9. QED
    BY <1>3, <1>4, <1>5, <1>6, <1>7, <1>8 DEF OrderInv

\* check_item: with debug_mode the lists are of packages, and acount is their length.
LEMMA CheckItemKeeps == ASSUME OrderInv, CheckItem PROVE OrderInv'
<1>1. /\ UNCHANGED <<recipe, debug, private, temp, chain, finally_flag, enabled, deps>>
      /\ stage = "check" /\ stage' = IF debug THEN "order" ELSE "config"
      /\ asdeps' = (IF debug THEN AllFound(asdeps) ELSE asdeps)
      /\ awdeps' = AllFound(awdeps) /\ ideps'  = AllFound(ideps)
      /\ acount' = [p \in Packages |-> acount[p] + Count(asdeps'[p], awdeps'[p], ideps'[p])]
    BY DEF CheckItem, input, conf
<1>2. ASSUME NEW l \in [Packages -> Seq(Words)]
      PROVE  /\ AllFound(l) \in [Packages -> Seq(Packages)]
             /\ AllFound(l) \in [Packages -> Seq(Words)]
             /\ \A p \in Packages : Range(AllFound(l)[p]) = Range(l[p]) \cap Packages
    <2>1. \A p \in Packages : l[p] \in Seq(Words)
        OBVIOUS
    <2>2. \A p \in Packages : /\ Found(l[p]) \in Seq(Packages)
                              /\ Range(Found(l[p])) = Range(l[p]) \cap Packages
        BY <2>1, FoundValues
    <2>3. Seq(Packages) \subseteq Seq(Words)
        BY DEF Words
    <2>4. QED
        BY <2>2, <2>3 DEF AllFound
<1>3. asdeps \in [Packages -> Seq(Words)] /\ awdeps \in [Packages -> Seq(Words)] /\ ideps \in [Packages -> Seq(Words)]
    BY DEF OrderInv, ListTypes
<1>4. /\ asdeps' \in [Packages -> Seq(Words)] /\ awdeps' \in [Packages -> Seq(Words)]
      /\ ideps' \in [Packages -> Seq(Words)]
      /\ debug => asdeps' \in [Packages -> Seq(Packages)]
      /\ awdeps' \in [Packages -> Seq(Packages)] /\ ideps' \in [Packages -> Seq(Packages)]
    BY <1>1, <1>2, <1>3
<1>5. /\ acount = [p \in Packages |-> IF p \in Finals THEN 1 ELSE 0]
      /\ chain = << >> /\ temp = Packages /\ finally_flag
    BY <1>1 DEF OrderInv, Unordered, Early
<1>6. ASSUME NEW p \in Packages
      PROVE  /\ acount'[p] = Total(p)' + Due(p)' /\ Total(p)' \in Nat /\ Due(p)' \in Nat
    <2>1. asdeps'[p] \in Seq(Words) /\ awdeps'[p] \in Seq(Words) /\ ideps'[p] \in Seq(Words)
        BY <1>4
    <2>2. acount[p] \in {0, 1} /\ Due(p)' = acount[p]
        BY <1>1, <1>5 DEF Due
    <2>3. Count(asdeps'[p], awdeps'[p], ideps'[p]) = Total(p)' /\ Total(p)' \in Nat
        <3>1. \A x, y, z \in Seq(Words) : Len(x) + Len(y) + Len(z) \in Nat
            OBVIOUS
        <3>2. /\ Total(p)' = Len(asdeps'[p]) + Len(awdeps'[p]) + Len(ideps'[p])
              /\ Total(p)' = Count(asdeps'[p], awdeps'[p], ideps'[p])
            BY DEF Total, Count
        <3>3. QED
            BY <2>1, <3>1, <3>2
    <2>4. acount'[p] = acount[p] + Count(asdeps'[p], awdeps'[p], ideps'[p])
        BY <1>1, Zenon
    <2>5. QED
        BY <2>2, <2>3, <2>4
<1>7. ListTypes'
    <2>1. acount' \in [Packages -> Nat]
        <3>1. \A p \in Packages : acount'[p] \in Nat
            BY <1>6
        <3>2. QED
            BY <1>1, <3>1
    <2>2. QED
        BY <1>1, <1>4, <2>1 DEF OrderInv, ListTypes, Stages
<1>8. Unordered' /\ OnlyFound' /\ AllPlaced'
    BY <1>1, <1>4, <1>5 DEF OrderInv, ListTypes, Unordered, OnlyFound, AllPlaced, Early
<1>9. Placed' = {}
    BY <1>1, <1>5 DEF Placed
<1>10. Rounds'
    BY <1>1 DEF OrderInv, Rounds, Placed
<1>11. Counted'
    <2>1. \A S : Cardinality({} \cap S) = 0
        <3>1. \A S : {} \cap S = {}
            OBVIOUS
        <3>2. QED
            BY <3>1, FS_EmptySet, Zenon
    <2>2. ASSUME NEW p \in Packages PROVE acount'[p] = Total(p)' + Due(p)' - Hits(Placed, p)'
        <3>1. Hits(Placed, p)' = 0
            BY <1>9, <2>1 DEF Hits
        <3>2. acount'[p] = Total(p)' + Due(p)' /\ Total(p)' \in Nat /\ Due(p)' \in Nat
            BY <1>6
        <3>3. QED
            BY <3>1, <3>2
    <2>3. QED
        BY <1>1, <1>5, <2>2 DEF Counted
<1>12. Named'
    <2>1. ASSUME NEW p \in Packages
          PROVE  Plain(p) \cap Packages \subseteq Range(asdeps'[p]) \cup Range(awdeps'[p])
        <3>1. Plain(p) \cap Packages \subseteq Range(asdeps[p]) \cup Range(awdeps[p])
            BY <1>1 DEF OrderInv, Named
        <3>2. /\ Range(awdeps'[p]) = Range(awdeps[p]) \cap Packages
              /\ Range(asdeps[p]) \cap Packages \subseteq Range(asdeps'[p])
            BY <1>1, <1>2, <1>3
        <3>3. QED
            BY <3>1, <3>2
    <2>2. QED
        BY <1>1, <2>1 DEF Named, Plain
<1>13. Written' /\ CircularIsReal' /\ CheckedIsAcyclic'
    BY <1>1 DEF Written, CircularIsReal, CheckedIsAcyclic
<1>14. ChainIsOrdered'
    BY <1>1, <1>5 DEF ChainIsOrdered
<1>15. QED
    BY <1>7, <1>8, <1>10, <1>11, <1>12, <1>13, <1>14 DEF OrderInv

\* A round: its items wait for nothing, so their names are in earlier rounds; the
\* others wait for that much less.
LEMMA RoundKeeps == ASSUME OrderInv, Round PROVE OrderInv'
<1> DEFINE L == Lista
           D == Placed
<1>1. /\ UNCHANGED <<recipe, debug, private, stage, asdeps, awdeps, ideps, finally_flag, enabled, deps>>
      /\ stage = "order" /\ chain' = Append(chain, L) /\ temp' = temp \ L
      /\ acount' = [p \in Packages |-> IF p \in temp \ L THEN acount[p] - Hits(L, p) ELSE acount[p]]
    BY DEF Round, input, lists, conf
<1>2. /\ ListTypes /\ OnlyFound /\ debug
      /\ chain \in Seq(SUBSET Packages) /\ temp = Packages \ D
      /\ \A i, j \in DOMAIN chain : i # j => chain[i] \cap chain[j] = {}
      /\ \A i \in DOMAIN chain : chain[i] \subseteq D
    BY <1>1 DEF OrderInv, OnlyFound, Rounds, Placed
<1>3. D \in SUBSET Packages
    <2>1. \A i \in DOMAIN chain : chain[i] \in SUBSET Packages
        BY <1>2
    <2>2. QED
        BY <2>1 DEF Placed
<1>4. L \in SUBSET Packages /\ D \cap L = {} /\ L \subseteq temp
    BY <1>2 DEF Lista
<1>5. \A p \in L : acount[p] = 0
    BY DEF Lista
<1>6. \A p \in temp : acount[p] = Total(p) + Due(p) - Hits(D, p)
    BY <1>1 DEF OrderInv, Counted
<1>7. \A p \in Packages : Due(p) \in Nat
    BY DEF Due
<1> HIDE DEF L, D
<1>8. \A p \in Packages :
        /\ Total(p) \in Nat /\ Hits(D, p) \in Nat /\ Hits(D, p) <= Total(p) /\ Hits(L, p) \in Nat
        /\ Hits(D, p) = Total(p) => Names(p) \subseteq D
        /\ Hits(D \cup L, p) = Hits(D, p) + Hits(L, p)
        /\ Hits(D \cup L, p) <= Total(p)
    <2> TAKE p \in Packages
    <2>1. D \cup L \in SUBSET Packages
        BY <1>3, <1>4
    <2>2. /\ Total(p) \in Nat /\ Hits(D, p) \in Nat /\ Hits(D, p) <= Total(p)
          /\ Hits(D, p) = Total(p) => Names(p) \subseteq D
          /\ Hits(D \cup L, p) = Hits(D, p) + Hits(L, p)
        BY <1>1, <1>2, <1>3, <1>4, LeftOf
    <2>3. Hits(L, p) \in Nat
        BY <1>1, <1>2, <1>4, LeftOf
    <2>4. Hits(D \cup L, p) <= Total(p)
        BY <1>1, <1>2, <2>1, LeftOf
    <2>5. QED
        BY <2>2, <2>3, <2>4
<1>9. \A p \in L : Names(p) \subseteq D
    <2> TAKE p \in L
    <2>1. p \in Packages /\ p \in temp /\ 0 = Total(p) + Due(p) - Hits(D, p)
        BY <1>4, <1>5, <1>6
    <2>2. QED
        BY <1>7, <1>8, <2>1
<1>10. \A p \in temp \ L : /\ acount[p] - Hits(L, p) = Total(p) + Due(p) - Hits(D \cup L, p)
                           /\ acount[p] - Hits(L, p) \in Nat
    <2> TAKE p \in temp \ L
    <2>1. p \in Packages /\ p \in temp
        BY <1>2
    <2>2. /\ acount[p] = Total(p) + Due(p) - Hits(D, p)
          /\ Total(p) \in Nat /\ Due(p) \in Nat /\ Hits(D, p) \in Nat /\ Hits(L, p) \in Nat
          /\ Hits(D \cup L, p) = Hits(D, p) + Hits(L, p) /\ Hits(D \cup L, p) <= Total(p)
        BY <1>6, <1>7, <1>8, <2>1, Zenon
    <2> DEFINE H == Hits(D \cup L, p)
    <2> HIDE DEF H
    <2>3. H = Hits(D, p) + Hits(L, p) /\ H <= Total(p)
        BY <2>2 DEF H
    <2>4. acount[p] - Hits(L, p) = Total(p) + Due(p) - H /\ acount[p] - Hits(L, p) \in Nat
        BY <2>2, <2>3
    <2>5. QED
        BY <2>4 DEF H
<1>11. /\ chain' \in Seq(SUBSET Packages) /\ Len(chain) \in Nat
       /\ DOMAIN chain = 1 .. Len(chain) /\ DOMAIN chain' = 1 .. Len(chain) + 1
       /\ \A i \in DOMAIN chain : chain'[i] = chain[i]
       /\ chain'[Len(chain) + 1] = L
    BY <1>1, <1>2, <1>4
<1>12. \A i \in DOMAIN chain' : i \in DOMAIN chain \/ i = Len(chain) + 1
    BY <1>11
<1>13. Placed' = D \cup L
    <2>1. Placed' = UNION {chain'[i] : i \in DOMAIN chain'} /\ D = UNION {chain[i] : i \in DOMAIN chain}
        BY DEF Placed, D
    <2>2. \A q \in Placed' : q \in D \cup L
        BY <1>11, <1>12, <2>1
    <2>3. DOMAIN chain \subseteq DOMAIN chain' /\ Len(chain) + 1 \in DOMAIN chain'
        BY <1>11
    <2>4. \A q \in D \cup L : q \in Placed'
        BY <1>11, <2>1, <2>3
    <2>5. QED
        BY <2>2, <2>4
<1>14. Rounds'
    <2>1. temp' = Packages \ Placed'
        BY <1>1, <1>2, <1>13
    <2>2. \A i, j \in DOMAIN chain' : i # j => chain'[i] \cap chain'[j] = {}
        BY <1>2, <1>4, <1>11, <1>12
    <2>3. QED
        BY <1>11, <2>1, <2>2 DEF Rounds
<1>15. Counted'
    <2>1. ASSUME NEW p \in temp' PROVE acount'[p] = Total(p)' + Due(p)' - Hits(Placed, p)'
        <3>1. p \in temp \ L /\ p \in Packages
            BY <1>1, <1>2, <2>1
        <3>2. acount'[p] = Total(p) + Due(p) - Hits(D \cup L, p)
            BY <1>1, <1>10, <3>1
        <3>3. Total(p)' = Total(p) /\ Due(p)' = Due(p) /\ Hits(Placed, p)' = Hits(D \cup L, p)
            BY <1>1, <1>13 DEF Total, Due, Hits
        <3>4. QED
            BY <3>2, <3>3
    <2>2. QED
        BY <2>1 DEF Counted
<1>16. ListTypes'
    <2>1. acount \in [Packages -> Nat]
        BY <1>2 DEF ListTypes
    <2>2. \A p \in Packages : acount'[p] \in Nat
        BY <1>1, <1>10, <2>1
    <2>3. acount' \in [Packages -> Nat]
        BY <1>1, <2>2
    <2>4. QED
        BY <1>1, <1>2, <2>3 DEF ListTypes
<1>17. ChainIsOrdered'
    <2>1. Graph' = Graph
        BY <1>1 DEF Graph, Names
    <2>2. \A i \in DOMAIN chain : \A p \in chain[i] : Graph[p] \subseteq UNION {chain[j] : j \in 1 .. i - 1}
        BY DEF OrderInv, ChainIsOrdered
    <2>3. \A i \in 1 .. Len(chain) + 1 :
            UNION {chain'[j] : j \in 1 .. i - 1} = UNION {chain[j] : j \in 1 .. i - 1}
        <3>1. \A i \in 1 .. Len(chain) + 1 : \A j \in 1 .. i - 1 : chain'[j] = chain[j]
            BY <1>11
        <3>2. QED
            BY <3>1
    <2>4. \A p \in L : Graph[p] \subseteq UNION {chain[j] : j \in 1 .. Len(chain)}
        BY <1>4, <1>9, <1>11 DEF Graph, D, Placed
    <2>5. ASSUME NEW i \in DOMAIN chain', NEW p \in chain'[i]
          PROVE  Graph[p] \subseteq UNION {chain'[j] : j \in 1 .. i - 1}
        <3>1. CASE i \in DOMAIN chain
            BY <1>11, <2>2, <2>3, <2>5, <3>1
        <3>2. CASE i = Len(chain) + 1
            <4>1. p \in L /\ i - 1 = Len(chain) /\ i \in 1 .. Len(chain) + 1
                BY <1>11, <2>5, <3>2
            <4>2. QED
                BY <2>3, <2>4, <4>1
        <3>3. QED
            BY <1>12, <3>1, <3>2
    <2>6. QED
        BY <2>1, <2>5 DEF ChainIsOrdered
<1>18. Unordered' /\ OnlyFound' /\ AllPlaced' /\ Written' /\ CircularIsReal' /\ CheckedIsAcyclic'
    BY <1>1, <1>2 DEF OnlyFound, Unordered, Early, AllPlaced, Written, CircularIsReal, CheckedIsAcyclic
<1>19. Named'
    BY <1>1 DEF OrderInv, Named, Plain
<1>20. QED
    BY <1>14, <1>15, <1>16, <1>17, <1>18, <1>19 DEF OrderInv

\* The round of finally: one less to wait for, and no longer due.
LEMMA FinallyRoundKeeps == ASSUME OrderInv, FinallyRound PROVE OrderInv'
<1>1. /\ UNCHANGED <<recipe, debug, private, stage, asdeps, awdeps, ideps, temp, chain, enabled, deps>>
      /\ stage = "order" /\ finally_flag /\ ~finally_flag' /\ finally_flag' \in BOOLEAN /\ Lista = {}
      /\ acount' = [p \in Packages |-> IF p \in temp \cap Finals THEN acount[p] - 1 ELSE acount[p]]
    BY DEF FinallyRound, input, lists, conf
<1>2. ListTypes /\ OnlyFound /\ debug /\ temp \subseteq Packages
    BY <1>1 DEF OrderInv, OnlyFound, Rounds
<1>3. \A p \in temp : acount[p] \in Nat \ {0}
    BY <1>1, <1>2 DEF ListTypes, Lista
<1>4. ListTypes'
    <2>1. acount \in [Packages -> Nat]
        BY <1>2 DEF ListTypes
    <2>2. \A p \in Packages : acount'[p] \in Nat
        BY <1>1, <1>3, <2>1
    <2>3. acount' \in [Packages -> Nat]
        BY <1>1, <2>2
    <2>4. QED
        BY <1>1, <1>2, <2>3 DEF ListTypes
<1>5. Counted'
    <2>1. ASSUME NEW p \in temp' PROVE acount'[p] = Total(p)' + Due(p)' - Hits(Placed, p)'
        <3>1. p \in temp /\ p \in Packages /\ acount[p] = Total(p) + Due(p) - Hits(Placed, p)
            BY <1>1, <1>2, <2>1 DEF OrderInv, Counted
        <3>2. Total(p)' = Total(p) /\ Due(p)' = 0 /\ Hits(Placed, p)' = Hits(Placed, p)
            BY <1>1 DEF Total, Due, Hits, Placed
        <3>3. Placed \in SUBSET Packages
            <4>1. \A i \in DOMAIN chain : chain[i] \in SUBSET Packages
                BY DEF OrderInv, Rounds
            <4>2. QED
                BY <4>1 DEF Placed
        <3>4. Total(p) \in Nat /\ Hits(Placed, p) \in Nat
            BY <1>1, <1>2, <3>1, <3>3, LeftOf
        <3>5. Due(p) = IF p \in Finals THEN 1 ELSE 0
            BY <1>1 DEF Due
        <3>6. acount'[p] = IF p \in Finals THEN acount[p] - 1 ELSE acount[p]
            BY <1>1, <3>1
        <3>7. QED
            BY <3>1, <3>2, <3>4, <3>5, <3>6
    <2>2. QED
        BY <2>1 DEF Counted
<1>6. Rounds' /\ Unordered' /\ OnlyFound' /\ AllPlaced' /\ Written' /\ CircularIsReal' /\ CheckedIsAcyclic'
    BY <1>1, <1>2 DEF OrderInv, Rounds, Placed, OnlyFound, Unordered, Early, AllPlaced, Written,
                      CircularIsReal, CheckedIsAcyclic
<1>7. Named' /\ ChainIsOrdered'
    BY <1>1 DEF OrderInv, Named, Plain, ChainIsOrdered, Graph, Names
<1>8. QED
    BY <1>4, <1>5, <1>6, <1>7 DEF OrderInv

\* What a step that changes neither the lists nor the chain keeps.
LEMMA SameChain ==
    ASSUME OrderInv, stage # "parse", UNCHANGED <<recipe, asdeps, awdeps, ideps, temp, chain>>
    PROVE  Rounds' /\ Named' /\ ChainIsOrdered'
<1>1. Rounds'
    BY DEF OrderInv, Rounds, Placed
<1>2. Named'
    BY DEF OrderInv, Named, Plain
<1>3. ChainIsOrdered'
    BY DEF OrderInv, ChainIsOrdered, Graph, Names
<1>4. QED
    BY <1>1, <1>2, <1>3

\* From now on nothing is ordered any more: the lists and the chain stay.
LEMMA OrderedKeeps == ASSUME OrderInv, Ordered PROVE OrderInv'
<1>1. /\ UNCHANGED <<recipe, debug, private, asdeps, awdeps, ideps, acount, temp, chain, finally_flag,
                     enabled, deps>>
      /\ stage = "order" /\ stage' = "config" /\ temp = {}
    BY DEF Ordered, input, lists, order, conf
<1>2. debug
    BY <1>1 DEF OrderInv, OnlyFound
<1>3. ListTypes' /\ Unordered' /\ OnlyFound' /\ Counted' /\ AllPlaced' /\ Written'
    BY <1>1, <1>2 DEF OrderInv, ListTypes, Stages, Unordered, Early, OnlyFound, Counted, AllPlaced, Written
<1>4. Rounds' /\ Named' /\ ChainIsOrdered'
    BY <1>1, SameChain
<1>5. CircularIsReal' /\ CheckedIsAcyclic'
    BY <1>1 DEF CircularIsReal, CheckedIsAcyclic
<1>6. QED
    BY <1>3, <1>4, <1>5 DEF OrderInv

\* In a graph where every node of a finite set has a successor in the set, a node
\* of the set reaches itself.
LEMMA CircleExists ==
    ASSUME NEW d \in [Packages -> SUBSET Packages], NEW T \in SUBSET Packages, T # {},
           \A p \in T : d[p] \cap T # {}
    PROVE  \E p \in T : p \in Closure(d, p)
<1> DEFINE R == {Closure(d, p) \cap T : p \in T}
<1>1. \A p \in T : Closure(d, p) \in SUBSET Packages
    BY DEF Closure
<1>2. PICK m \in R : \A n \in R : n \subseteq m => n = m
    <2>1. R \in SUBSET SUBSET Packages /\ R # {}
        BY <1>1
    <2>2. IsFiniteSet(Packages)
        BY BuildChainAssumption
    <2> HIDE DEF R
    <2>3. QED
        BY <2>1, <2>2, MinimalSubset
<1>3. PICK p \in T : m = Closure(d, p) \cap T
    OBVIOUS
<1>4. PICK q \in T : q \in d[p]
    OBVIOUS
<1>5. q \in Closure(d, p) /\ Closure(d, q) \subseteq Closure(d, p)
    BY <1>4 DEF Closure
<1>6. Closure(d, q) \cap T = m
    BY <1>2, <1>3, <1>5
<1>7. QED
    BY <1>3, <1>4, <1>5, <1>6

\* check_circular_dep gives up: every item left waits for one that is left.
LEMMA CircularKeeps == ASSUME OrderInv, Circular PROVE OrderInv'
<1>1. /\ UNCHANGED <<recipe, debug, private, asdeps, awdeps, ideps, acount, temp, chain, finally_flag,
                     enabled, deps>>
      /\ stage = "order" /\ stage' = "circular" /\ temp # {} /\ Lista = {} /\ ~finally_flag
    BY DEF Circular, input, lists, order, conf
<1>2. /\ ListTypes /\ OnlyFound /\ debug /\ temp = Packages \ Placed
      /\ \A p \in temp : acount[p] = Total(p) + Due(p) - Hits(Placed, p)
    BY <1>1 DEF OrderInv, OnlyFound, Rounds, Counted
<1>3. Placed \in SUBSET Packages
    <2>1. \A i \in DOMAIN chain : chain[i] \in SUBSET Packages
        BY DEF OrderInv, Rounds
    <2>2. QED
        BY <2>1 DEF Placed
<1>4. ASSUME \A p \in Packages : ~Repeats(p)
      PROVE  \E p \in Packages : p \in Closure(Graph, p)
    <2>1. ASSUME NEW p \in temp PROVE Graph[p] \cap temp # {}
        <3>1. p \in Packages /\ acount[p] # 0 /\ Due(p) = 0
            BY <1>1, <1>2 DEF Lista, Due
        <3>2. /\ Total(p) \in Nat /\ Hits(Placed, p) \in Nat /\ Names(p) \subseteq Packages
              /\ Names(p) \subseteq Placed => Hits(Placed, p) = Total(p)
            BY <1>1, <1>2, <1>3, <1>4, <3>1, LeftOf
        <3>3. ~(Names(p) \subseteq Placed)
            BY <1>2, <3>1, <3>2
        <3>4. QED
            BY <1>2, <3>1, <3>2, <3>3 DEF Graph
    <2>2. Graph \in [Packages -> SUBSET Packages] /\ temp \in SUBSET Packages
        BY <1>2 DEF Graph
    <2> DEFINE g == Graph
    <2> HIDE DEF g
    <2>3. \E p \in temp : p \in Closure(g, p)
        BY <1>1, <2>1, <2>2, CircleExists DEF g
    <2>4. QED
        BY <1>2, <2>3 DEF g
<1>5. CircularIsReal'
    <2>1. /\ \A p : Repeats(p)' <=> Repeats(p)
          /\ \A p : Closure(Graph, p)' = Closure(Graph, p)
        BY <1>1 DEF Repeats, Closure, Graph, Names
    <2>2. QED
        BY <1>4, <2>1 DEF CircularIsReal
<1>6. ListTypes' /\ Unordered' /\ OnlyFound' /\ Counted' /\ AllPlaced' /\ Written'
    BY <1>1, <1>2 DEF OrderInv, ListTypes, Stages, Unordered, Early, OnlyFound, Counted, AllPlaced, Written
<1>7. Rounds' /\ Named' /\ ChainIsOrdered'
    BY <1>1, SameChain
<1>8. CheckedIsAcyclic'
    BY <1>1 DEF CheckedIsAcyclic
<1>9. QED
    BY <1>5, <1>6, <1>7, <1>8 DEF OrderInv

\* gen_make: in the order of the rounds no dependency goes back, so auto.mk has a
\* circle only where a package with finally is named.
LEMMA OrderedGraph ==
    ASSUME OrderInv, stage = "config", debug, \A p \in Packages : Names(p) \cap Finals = {},
           NEW d \in [Packages -> SUBSET Packages], NEW E \in SUBSET Packages,
           \A p \in Packages : d[p] \subseteq Graph[p]
    PROVE  ~Circle(d, E)
<1> DEFINE m == MakeDeps(d, E)
           Upto(i) == (UNION {chain[j] : j \in 1 .. i - 1}) \ Finals
<1>1. /\ chain \in Seq(SUBSET Packages) /\ temp = {} /\ temp = Packages \ Placed
      /\ \A i, j \in DOMAIN chain : i # j => chain[i] \cap chain[j] = {}
      /\ \A i \in DOMAIN chain : \A p \in chain[i] : Graph[p] \subseteq UNION {chain[j] : j \in 1 .. i - 1}
    BY DEF OrderInv, Rounds, AllPlaced, ChainIsOrdered
<1>2. /\ \A p \in Packages : Graph[p] \cap Finals = {} /\ Graph[p] \subseteq Packages
      /\ \A p \in Packages : m[p] \subseteq Packages /\ m[p] \cap Finals = {}
      /\ \A p \in Packages \ Finals : m[p] \subseteq Graph[p]
    <2>1. \A p \in Packages : Graph[p] \cap Finals = {} /\ Graph[p] \subseteq Packages
        BY DEF Graph
    <2>2. \A p \in Packages : m[p] \subseteq d[p] \cup (E \ Finals) /\ (p \notin Finals => m[p] \subseteq d[p])
        BY DEF MakeDeps, FinalDeps
    <2>3. QED
        BY <2>1, <2>2
<1> HIDE DEF m
<1>3. \A p \in Packages : p \notin Closure(m, p)
    <2> TAKE p \in Packages
    <2>1. CASE p \in Finals
        <3>1. Closure(m, p) \subseteq Packages \ Finals
            BY <1>2, ClosureInside
        <3>2. QED
            BY <2>1, <3>1
    <2>2. CASE p \notin Finals
        <3>1. PICK i \in DOMAIN chain : p \in chain[i]
            BY <1>1 DEF Placed
        <3>2. /\ DOMAIN chain = 1 .. Len(chain) /\ Len(chain) \in Nat
              /\ \A j \in 1 .. i - 1 : j \in DOMAIN chain /\ j # i /\ \A k \in 1 .. j - 1 : k \in 1 .. i - 1
            BY <1>1, <3>1
        <3>3. Upto(i) \in SUBSET Packages
            <4>1. \A j \in DOMAIN chain : chain[j] \in SUBSET Packages
                BY <1>1
            <4>2. QED
                BY <3>2, <4>1
        <3>4. m[p] \subseteq Upto(i)
            <4>1. Graph[p] \subseteq UNION {chain[j] : j \in 1 .. i - 1}
                BY <1>1, <3>1
            <4>2. QED
                BY <1>2, <2>2, <4>1
        <3>5. \A r \in Upto(i) : m[r] \subseteq Upto(i)
            <4> TAKE r \in Upto(i)
            <4>1. PICK j \in 1 .. i - 1 : r \in chain[j]
                OBVIOUS
            <4>2. r \in Packages \ Finals
                BY <3>3
            <4>3. Graph[r] \subseteq UNION {chain[k] : k \in 1 .. j - 1}
                BY <1>1, <3>2, <4>1
            <4>4. UNION {chain[k] : k \in 1 .. j - 1} \subseteq UNION {chain[k] : k \in 1 .. i - 1}
                BY <3>2, <4>1
            <4>5. QED
                BY <1>2, <4>2, <4>3, <4>4
        <3>6. p \notin Upto(i)
            BY <1>1, <3>1, <3>2
        <3> HIDE DEF Upto
        <3>7. Closure(m, p) \subseteq Upto(i)
            BY <3>3, <3>4, <3>5, ClosureInside
        <3>8. QED
            BY <3>6, <3>7
    <2>3. QED
        BY <2>1, <2>2
<1>4. QED
    BY <1>3 DEF Circle, m

\* gen_make writes the lists of the enabled packages; a circle is dropped.
LEMMA ConfigKeeps == ASSUME OrderInv, Configure PROVE OrderInv'
<1>1. /\ UNCHANGED <<recipe, debug, private, asdeps, awdeps, ideps, acount, temp, chain, finally_flag>>
      /\ stage = "config"
    BY DEF Configure, input, lists, order
<1>2. PICK E \in SUBSET Packages, C \in [Packages -> {{}, Packages}] :
        /\ Selectable(E)
        /\ enabled' = E
        /\ deps' = [p \in Packages |-> IF p \in E THEN DepsOf(p, E, C) ELSE {}]
        /\ stage' = IF Circle(deps', E) THEN "dropped" ELSE "make"
    BY DEF Configure
<1>3. /\ deps' \in [Packages -> SUBSET Packages]
      /\ \A p \in Packages : deps'[p] \subseteq Graph[p]
    <2>1. \A p \in E : DepsOf(p, E, C) \subseteq Names(p) \cap Packages
        BY <1>2 DEF DepsOf, Selectable, Names
    <2>2. QED
        BY <1>2, <2>1 DEF Graph
<1>4. CheckedIsAcyclic'
    <2>1. ASSUME debug, \A p \in Packages : Names(p) \cap Finals = {} PROVE stage' = "make"
        <3> DEFINE d == deps'
        <3> HIDE DEF d
        <3>1. ~Circle(d, E)
            BY <1>1, <1>3, <2>1, OrderedGraph DEF d
        <3>2. QED
            BY <1>2, <3>1 DEF d
    <2>2. \A p : Names(p)' = Names(p)
        BY <1>1 DEF Names
    <2>3. QED
        BY <1>1, <2>1, <2>2 DEF CheckedIsAcyclic
<1>5. Written'
    BY <1>1, <1>2 DEF Written, DepsOf
<1>6. stage' \in {"dropped", "make"}
    BY <1>2
<1>7. ListTypes' /\ Unordered' /\ OnlyFound' /\ Counted' /\ AllPlaced' /\ CircularIsReal'
    BY <1>1, <1>6 DEF OrderInv, ListTypes, Stages, Unordered, Early, OnlyFound, Counted, AllPlaced,
                      CircularIsReal
<1>8. Rounds' /\ Named' /\ ChainIsOrdered'
    BY <1>1, SameChain
<1>9. QED
    BY <1>4, <1>5, <1>7, <1>8 DEF OrderInv

\* Every step keeps the invariant.
LEMMA StepOrder == OrderInv /\ [Next]_vars => OrderInv'
<1> SUFFICES ASSUME OrderInv, [Next]_vars PROVE OrderInv'
    OBVIOUS
<1>1. CASE WeakRuleError \/ EndMake \/ UNCHANGED vars
    <2>1. UNCHANGED <<input, lists, order, conf>> /\ (stage' = stage \/ (stage # "parse" /\ stage' = "end"))
        BY <1>1 DEF WeakRuleError, EndMake, vars
    <2>2. QED
        BY <2>1, QuietKeeps
<1>2. ASSUME NEW p \in Packages, Work(p) PROVE OrderInv'
    <2>1. UNCHANGED <<input, lists, order, conf>> /\ stage' = stage
        BY <1>2 DEF Work, Begin, Populate, Compile, Install
    <2>2. QED
        BY <2>1, QuietKeeps
<1>3. CASE Parse \/ CheckItem \/ Configure
    BY <1>3, ParseKeeps, CheckItemKeeps, ConfigKeeps
<1>4. CASE Round \/ FinallyRound \/ Ordered \/ Circular
    BY <1>4, RoundKeeps, FinallyRoundKeeps, OrderedKeeps, CircularKeeps
<1>5. QED
    BY <1>1, <1>2, <1>3, <1>4 DEF Next

\* The invariant of the checks and of the order holds in every run.
LEMMA OrderInvariant == Spec => []OrderInv
BY InitOrder, StepOrder, PTL DEF Spec

-----------------------------------------------------------------------------
(* The theorems about the lists and the rounds *)

\* Every variable has its type; above all, acount never becomes negative.
THEOREM TypeCorrect == Spec => []TypeOK
<1>1. OrderInv /\ MakeInv => TypeOK
    BY DEF OrderInv, ListTypes, Rounds, MakeInv, Typed, TypeOK
<1>2. QED
    BY <1>1, OrderInvariant, MakeInvariant, PTL

\* check_item, gen_make: the dependencies that the line of an enabled package names
\* are in <package>-deps, for lines of any length.
THEOREM LineIsWritten == Spec => []PlainIsDep
<1>1. OrderInv /\ MakeInv => PlainIsDep
    <2> SUFFICES ASSUME OrderInv, MakeInv, stage = "make", NEW p \in enabled,
                        NEW q \in Plain(p) \cap enabled
                 PROVE  q \in deps[p]
        BY DEF PlainIsDep
    <2>1. p \in Packages /\ q \in Packages
        BY DEF MakeInv, Typed
    <2>2. q \in Range(asdeps[p]) \cup Range(awdeps[p])
        BY <2>1 DEF OrderInv, Named
    <2>3. (Range(awdeps[p]) \cap enabled) \cup Range(asdeps[p]) \subseteq deps[p]
        BY DEF OrderInv, Written
    <2>4. QED
        BY <2>2, <2>3
<1>2. QED
    BY <1>1, OrderInvariant, MakeInvariant, PTL

\* check_circular_dep: every package is in a later round than what it names.
THEOREM RoundsAreOrdered == Spec => []ChainIsOrdered
<1>1. OrderInv => ChainIsOrdered
    BY DEF OrderInv
<1>2. QED
    BY <1>1, OrderInvariant, PTL

\* check_circular_dep: a circle is reported only where one is.
THEOREM ReportIsReal == Spec => []CircularIsReal
<1>1. OrderInv => CircularIsReal
    BY DEF OrderInv
<1>2. QED
    BY <1>1, OrderInvariant, PTL

\* check_circular_dep, gen_make: what it accepts gives no selection a circle in
\* auto.mk, unless a package depends on one that has finally.
THEOREM AcceptedIsAcyclic == Spec => []CheckedIsAcyclic
<1>1. OrderInv => CheckedIsAcyclic
    BY DEF OrderInv
<1>2. QED
    BY <1>1, OrderInvariant, PTL
=============================================================================
