------------------------------ MODULE CacheChain ------------------------------
(***************************************************************************)
(* The caches of packages that depend on each other: make all_targets of   *)
(* auto.mk, whose rules run checksum and cachebuild of inc.rule.mk, and    *)
(* get_depend_checksum of scripts/bin/process_cache.sh, which takes the    *)
(* keys of the dependencies from the names of their cache files.           *)
(* One builder, whose pushes and unpackings are whole here: force files,   *)
(* the mirror, several builders, full disks and kills are in BuildCache.   *)
(* A build may fail anywhere.  A checksum is what it is computed from.     *)
(***************************************************************************)
EXTENDS FiniteSets

CONSTANTS
    Packages,   \* the enabled packages
    Graphs,     \* their dependencies in Target: functions to sets of packages
    Versions,   \* contents of recipe, patches and source of a package
    Recipes,    \* how they use the cache: functions to Modes
    None        \* an absent install directory

\* CACHE_BUILD = y with CACHE_DEPENDS empty or set, or no CACHE_BUILD and then
\* with sources that are edited or with those of one release
Modes == {"auto", "set", "off", "fixed"}

ASSUME CacheChainAssumption ==
    /\ \A g \in Graphs : g \in [Packages -> SUBSET Packages]
    /\ \A r \in Recipes : r \in [Packages -> Modes]

VARIABLES
    deps,    \* the dependencies of each package
    mode,    \* how the recipe of each package uses the cache
    src,     \* the version of each package
    making,  \* a make runs
    pc,      \* what the rule of each package executes next
    checkf,  \* the key in <package>-checksum
    cache,   \* the cache files of each package: the key in the name, and the image
    ins,     \* the image in the install directory
    flag,    \* packages whose <insdir>-flag exists
    kept     \* history: packages of which a pull has kept a part of an install

recipe == <<deps, mode>>
vars   == <<recipe, src, making, pc, checkf, cache, ins, flag, kept>>

Stages == {"wait", "compile", "push", "pull", "done", "failed"}

TypeOK ==
    /\ deps \in [Packages -> SUBSET Packages] /\ mode \in [Packages -> Modes]
    /\ src \in [Packages -> Versions]
    /\ making \in BOOLEAN /\ pc \in [Packages -> Stages]
    /\ DOMAIN cache = Packages /\ DOMAIN ins = Packages /\ DOMAIN checkf = Packages
    /\ flag \subseteq Packages /\ kept \subseteq Packages

Nothing == [p \in Packages |-> None]

Init ==
    /\ deps \in Graphs /\ mode \in Recipes
    /\ src \in [Packages -> Versions]
    /\ making = FALSE /\ pc = [p \in Packages |-> "wait"]
    /\ cache = [p \in Packages |-> {}]
    /\ checkf = Nothing /\ ins = Nothing /\ flag = {} /\ kept = {}

-----------------------------------------------------------------------------
(* get_checksum *)

HasCache(p) == mode[p] \in {"auto", "set"}

\* Error variant: what has no cache file is passed over with its dependencies.
VisitedDirect(p) == deps[p]

\* get_depend_checksum_auto goes on to the dependencies of what has no cache file.
Visited(p) ==
    {q \in Packages : \A S \in SUBSET Packages :
        deps[p] \subseteq S /\ (\A r \in S : cache[r] # {} \/ deps[r] \subseteq S) => q \in S}

\* With CACHE_DEPENDS the loop runs over the word "depends", which is no package.
DependKeys(p) ==
    IF mode[p] = "auto" THEN {f.key : f \in UNION {cache[q] : q \in Visited(p)}} ELSE {}

\* A package with all it is made from: a key, or the content of an install directory.
Made(p, on) == [pkg |-> p, ver |-> src[p], on |-> on]
Key(p) == Made(p, DependKeys(p))

-----------------------------------------------------------------------------
(* make all_targets *)

Goto(p, from, to) == making /\ pc[p] = from /\ pc' = [pc EXCEPT ![p] = to]
Failed == \E p \in Packages : pc[p] = "failed"

Start ==
    /\ ~making /\ making' = TRUE
    /\ pc' = [p \in Packages |-> "wait"]
    /\ UNCHANGED <<recipe, src, checkf, cache, ins, flag, kept>>

\* Error variant: a package counts as built before its push.
ReadyCompiled(p) == \A d \in deps[p] : pc[d] \in {"push", "done"}

Ready(p) == \A d \in deps[p] : pc[d] = "done"

\* Error variant: a match takes an install directory as well.
MatchInstalled(p) == HasCache(p) /\ ins[p] # None /\ \E f \in cache[p] : f.key = Key(p)

Match(p) == HasCache(p) /\ \E f \in cache[p] : f.key = Key(p)

\* checksum
Check(p) ==
    /\ Ready(p) /\ ~Failed
    /\ Goto(p, "wait", IF Match(p) THEN "pull" ELSE "compile")
    /\ checkf' = [checkf EXCEPT ![p] = IF HasCache(p) THEN Key(p) ELSE @]
    /\ UNCHANGED <<recipe, src, making, cache, ins, flag, kept>>

\* What a build of p would install now.
Fresh(p) == Made(p, {ins[d] : d \in deps[p]})

\* build, against the install directories of the dependencies
Compile(p) ==
    /\ Goto(p, "compile", IF HasCache(p) THEN "push" ELSE "done")
    /\ ins' = [ins EXCEPT ![p] = Fresh(p)]
    /\ UNCHANGED <<recipe, src, making, checkf, cache, flag, kept>>

\* What an install that has failed halfway leaves.
Part(p) == [part |-> p]

\* build fails before it removes the install directory, before it installs, or while
\* it installs, replaces or appends.  The flag of an earlier install stays.
CompileFails(p) ==
    /\ Goto(p, "compile", "failed")
    /\ \E left \in {ins[p], None, Part(p)} : ins' = [ins EXCEPT ![p] = left]
    /\ UNCHANGED <<recipe, src, making, checkf, cache, flag, kept>>

File(key, image) == [key |-> key, image |-> image]

\* push_cache: of the cache files of a package one is left.
Push(p) ==
    /\ Goto(p, "push", "done")
    /\ cache' = [cache EXCEPT ![p] = {File(checkf[p], ins[p])}]
    /\ flag' = flag \cup {p}
    /\ UNCHANGED <<recipe, src, making, checkf, ins, kept>>

Installed(p) == ins[p] # None /\ p \in flag

\* pull_cache: an install directory with a flag is kept, whole or not.
Pull(p) ==
    /\ Goto(p, "pull", "done")
    /\ \E f \in cache[p] :
        /\ f.key = checkf[p]
        /\ ins' = [ins EXCEPT ![p] = IF Installed(p) THEN @ ELSE f.image]
    /\ flag' = flag \cup {p}
    /\ kept' = IF Installed(p) /\ ins[p] = Part(p) THEN kept \cup {p} ELSE kept
    /\ UNCHANGED <<recipe, src, making, checkf, cache>>

\* make ends with all packages, or waits for those at work after a failure. The
\* next checksum begins by removing the last one, which is forgotten here.
End ==
    /\ making /\ making' = FALSE
    /\ \A p \in Packages : pc[p] \in {"done", "failed"} \/ (Failed /\ pc[p] = "wait")
    /\ pc' = [p \in Packages |-> "wait"] /\ checkf' = Nothing
    /\ UNCHANGED <<recipe, src, cache, ins, flag, kept>>

Make == Start \/ End \/ \E p \in Packages : Check(p) \/ Compile(p) \/ CompileFails(p) \/ Push(p) \/ Pull(p)

-----------------------------------------------------------------------------
(* The developer, between two makes *)

Idle == ~making /\ UNCHANGED <<recipe, making, pc, kept>>

Edit(p) ==
    /\ Idle /\ mode[p] # "fixed"
    /\ \E v \in Versions \ {src[p]} : src' = [src EXCEPT ![p] = v]
    /\ UNCHANGED <<checkf, cache, ins, flag>>

\* distclean: WORKDIR with the install directory and its flag
DistClean(p) ==
    /\ Idle
    /\ ins' = [ins EXCEPT ![p] = None] /\ flag' = flag \ {p}
    /\ UNCHANGED <<src, checkf, cache>>

\* unsetforce, of a package that is not forced
UnsetForce(p) ==
    /\ Idle /\ HasCache(p)
    /\ cache' = [cache EXCEPT ![p] = {}]
    /\ ins' = [ins EXCEPT ![p] = None] /\ flag' = flag \ {p}
    /\ UNCHANGED <<src, checkf>>

Develop == \E p \in Packages : Edit(p) \/ DistClean(p) \/ UnsetForce(p)

Next == Make \/ Develop
Spec == Init /\ [][Next]_vars

-----------------------------------------------------------------------------
(* Properties *)

\* All the packages that p depends on.
Reached(p) ==
    {q \in Packages : \A S \in SUBSET Packages :
        deps[p] \subseteq S /\ (\A r \in S : deps[r] \subseteq S) => q \in S}

\* The key of a package covers all it is made from: what it reaches has a cache or
\* sources that do not change, and does not name its dependencies in CACHE_DEPENDS.
Covered(q) == mode[q] \in {"auto", "fixed"} \/ (mode[q] = "set" /\ deps[q] = {})
Covers(p)  == \A q \in {p} \cup Reached(p) : Covered(q)

\* No part of an install has been kept of p and of what it reaches.  From then on the
\* image of a package may be pushed that was built against such a part: its key is the
\* one of a good image, so that cleaning the part away does not help.
Whole(p) == kept \cap ({p} \cup Reached(p)) = {}

\* The packages of which the images in the cache and the install directories are said
\* to be what their keys stand for.
Trusted(p) == Covers(p) /\ Whole(p)

\* get_depend_checksum, cachebuild: when the rule of a package is done, compiled or
\* taken from the cache, its install directory has what a build of its sources
\* against the packages as they are now would give, unless a pull has kept what a
\* failed install had left.
CachedIsFresh ==
    \A p \in Packages : pc[p] = "done" /\ (Trusted(p) \/ ~HasCache(p)) => ins[p] = Fresh(p)

\* check_cache: a package is compiled only if the image in the cache is not what
\* the compilation would give.
NoNeedlessBuild ==
    \A p \in Packages : pc[p] = "compile" /\ Trusted(p) => \A f \in cache[p] : f.image # Fresh(p)

\* checksum and cachebuild: whatever is taken from the cache, a make leaves what a make
\* that builds every package would have left, package by package; claimed for the
\* packages whose key covers what they are made from, or that have no cache, until a
\* pull keeps what a failed install has left of them or of what they depend on.
Plain == INSTANCE PlainMake WITH
    claimed <- {p \in Packages : Trusted(p) \/ ~HasCache(p)},
    made    <- {p \in Packages : pc[p] = "done"},
    image   <- [p \in Packages |-> IF pc[p] = "done" THEN ins[p] ELSE None]
CacheIsTransparent == Plain!Spec
===============================================================================
