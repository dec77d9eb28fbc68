----------------------------- MODULE MCCacheChain -----------------------------
(* Instances of CacheChain for TLC: the packages a, b and c. *)
EXTENDS CacheChain, Naturals, TLC

CONSTANTS a, b, c

Of(x, y, z) == [p \in Packages |-> IF p = a THEN x ELSE IF p = b THEN y ELSE z]

\* a needs b, which needs c; or a needs both.
Uses == {Of({b}, {c}, {}), Of({b, c}, {}, {})}

\* All cached; b or c without a cache; b or c with CACHE_DEPENDS
Caching == {Of("auto", "auto", "auto"), Of("auto", "off", "auto"), Of("auto", "fixed", "auto"),
            Of("auto", "auto", "off"), Of("auto", "set", "auto"), Of("auto", "auto", "set")}

\* Contents of packages are alike.
Alike == Permutations(Versions)

\* Parts of installs are left and kept of one package; after that no build fails.
OnePart ==
    /\ Cardinality(kept \cup {p \in Packages : ins[p] = Part(p)}) < 2
    /\ kept = {} \/ ~Failed
===============================================================================
