--------------------------- MODULE CacheChainProofs ---------------------------
(* That keys made of keys are enough: proofs about CacheChain. *)
EXTENDS CacheChain, TLAPS

\* The packages whose keys, or whose dependencies' keys, are in the key of p.
Seen(p) ==
    {q \in Packages : \A S \in SUBSET Packages :
        deps[p] \subseteq S /\ (\A r \in S : HasCache(r) \/ deps[r] \subseteq S) => q \in S}

\* What q installs from version v where its dependencies have installed w.
Images(q, w)   == {w[d] : d \in deps[q]}
Built(q, v, w) == [pkg |-> q, ver |-> v, on |-> Images(q, w)]

\* The keys on, of which I says what they stand for, tell what all that p sees has
\* installed: w.  A package without a cache is of the sources that never change.
View(I, p, on, w) ==
    /\ \A q \in Seen(p) : IF HasCache(q) THEN \E k \in on : k.pkg = q /\ k \in DOMAIN I /\ w[q] = I[k]
                          ELSE w[q] = Built(q, src[q], w)
    /\ \A k \in on : k.pkg \in Seen(p) /\ HasCache(k.pkg)
    /\ \A k, l \in on : k.pkg = l.pkg => k = l

\* I gives for every key that has been used the image it stands for, and for no two
\* keys the same.
Stands(I, k) ==
    /\ k.pkg \in Packages /\ HasCache(k.pkg) /\ Covers(k.pkg)
    /\ k = [pkg |-> k.pkg, ver |-> k.ver, on |-> k.on]
    /\ \E w : View(I, k.pkg, k.on, w) /\ I[k] = Built(k.pkg, k.ver, w)
Ledger(I) ==
    /\ \A k \in DOMAIN I : Stands(I, k)
    /\ \A k, l \in DOMAIN I : k.pkg = l.pkg /\ I[k] = I[l] => k = l

\* J says what I says, and perhaps more.
Extends(I, J) == DOMAIN I \subseteq DOMAIN J /\ \A k \in DOMAIN I : J[k] = I[k]

\* A rule beyond its wait has the packages it depends on behind it.
OrderInv(p) ==
    /\ pc[p] # "wait" => making /\ Ready(p)
    /\ pc[p] \in {"push", "pull"} => HasCache(p)
    /\ ~HasCache(p) => cache[p] = {} /\ p \notin flag

\* What a trusted package has in the cache is of its key; its install directory with
\* a flag is the image there or what a failed install has left, but between a
\* compilation and its push.
CacheInv(I, p) ==
    /\ \A f, g \in cache[p] : f = g
    /\ \A f \in cache[p] : f.key \in DOMAIN I /\ f.key.pkg = p /\ f.image = I[f.key]
    /\ Installed(p) /\ pc[p] # "push" => ins[p] = Part(p) \/ \E f \in cache[p] : f.image = ins[p]

\* From its checksum on, a rule knows what its compilation would give.
KeyInv(I, p) ==
    /\ pc[p] \in {"compile", "push", "pull"} /\ HasCache(p) =>
         checkf[p] \in DOMAIN I /\ checkf[p].pkg = p /\ I[checkf[p]] = Fresh(p)
    /\ pc[p] = "compile" => \A f \in cache[p] : f.key # checkf[p]
    /\ pc[p] = "push" => ins[p] = Fresh(p)

DoneInv(p) ==
    pc[p] = "done" =>
        /\ Trusted(p) \/ ~HasCache(p) => ins[p] = Fresh(p)
        /\ Trusted(p) /\ HasCache(p) => \E f \in cache[p] : f.image = ins[p]

PackageInv(I, p) == OrderInv(p) /\ DoneInv(p) /\ (Trusted(p) => CacheInv(I, p) /\ KeyInv(I, p))

\* Among packages that are done there is one that needs none of the others.
DoneOrdered ==
    \A S \in SUBSET {p \in Packages : pc[p] = "done"} : S # {} => \E q \in S : deps[q] \cap S = {}

KeysInv(I) == Ledger(I) /\ \A p \in Packages : PackageInv(I, p)
ChainInv == TypeOK /\ DoneOrdered /\ \E I : KeysInv(I)

-----------------------------------------------------------------------------
(* Keys *)

\* The packages that a covered package depends on are covered.
LEMMA CoversDeps ==
    ASSUME TypeOK, NEW p \in Packages, Covers(p), NEW d \in deps[p]
    PROVE  Covers(d)
<1>1. d \in Packages /\ deps[p] \subseteq Packages
  BY DEF TypeOK
<1>2. d \in Reached(p)
  BY <1>1 DEF Reached
<1>3. ASSUME NEW q \in Reached(d) PROVE q \in Reached(p)
  <2>1. SUFFICES ASSUME NEW S \in SUBSET Packages, deps[p] \subseteq S,
                        \A r \in S : deps[r] \subseteq S
                 PROVE  q \in S
    BY <1>3 DEF Reached
  <2>2. deps[d] \subseteq S
    BY <2>1
  <2> QED BY <1>3, <2>1, <2>2 DEF Reached
<1> QED BY <1>2, <1>3 DEF Covers

\* What a package sees: its dependencies, and those of what it sees without a cache.
LEMMA SeenFacts ==
    ASSUME TypeOK, NEW p \in Packages
    PROVE  /\ Seen(p) \subseteq Packages /\ deps[p] \subseteq Seen(p)
           /\ \A r \in Seen(p) : HasCache(r) \/ deps[r] \subseteq Seen(p)
           /\ \A S \in SUBSET Packages :
                 deps[p] \subseteq S /\ (\A r \in S : HasCache(r) \/ deps[r] \subseteq S)
                     => Seen(p) \subseteq S
<1>1. deps[p] \subseteq Packages /\ \A r \in Packages : deps[r] \subseteq Packages
  BY DEF TypeOK
<1>2. Seen(p) \subseteq Packages
  BY DEF Seen
<1>3. deps[p] \subseteq Seen(p)
  BY <1>1 DEF Seen
<1>4. ASSUME NEW r \in Seen(p), ~HasCache(r), NEW d \in deps[r] PROVE d \in Seen(p)
  <2>1. d \in Packages
    BY <1>1, <1>2
  <2>2. ASSUME NEW S \in SUBSET Packages, deps[p] \subseteq S,
               \A q \in S : HasCache(q) \/ deps[q] \subseteq S
        PROVE  d \in S
    <3>1. r \in S
      BY <2>2 DEF Seen
    <3> QED BY <1>4, <2>2, <3>1
  <2> QED BY <2>1, <2>2 DEF Seen
<1>5. ASSUME NEW S \in SUBSET Packages, deps[p] \subseteq S,
             \A r \in S : HasCache(r) \/ deps[r] \subseteq S
      PROVE  Seen(p) \subseteq S
  BY <1>5 DEF Seen
<1> QED BY <1>2, <1>3, <1>4, <1>5

\* The values tell the package they are of.
LEMMA ViewNames ==
    ASSUME NEW I, Ledger(I), NEW p, NEW on, NEW w, View(I, p, on, w), NEW q \in Seen(p)
    PROVE  w[q].pkg = q
<1>1. CASE HasCache(q)
  <2>1. PICK k \in on : k.pkg = q /\ k \in DOMAIN I /\ w[q] = I[k]
    BY <1>1 DEF View
  <2>2. PICK x : I[k] = Built(k.pkg, k.ver, x)
    BY <2>1 DEF Ledger, Stands
  <2> QED BY <2>1, <2>2 DEF Built
<1>2. CASE ~HasCache(q)
  <2>1. w[q] = Built(q, src[q], w)
    BY <1>2 DEF View
  <2> DEFINE x == w[q]
  <2>2. x = Built(q, src[q], w)
    BY <2>1
  <2> HIDE DEF x
  <2>3. x.pkg = q
    BY <2>2 DEF Built
  <2> QED BY <2>3 DEF x
<1> QED BY <1>1, <1>2

\* Two views of the same keys are the same view.
LEMMA ViewIsOne ==
    ASSUME TypeOK, DoneOrdered, NEW I, NEW p \in Packages, NEW on, NEW v, NEW w,
           View(I, p, on, v), View(I, p, on, w), \A q \in Seen(p) : pc[q] = "done",
           NEW r \in Seen(p)
    PROVE  v[r] = w[r]
<1> DEFINE S == {q \in Seen(p) : v[q] # w[q]}
<1>1. SUFFICES ASSUME S # {} PROVE FALSE
  OBVIOUS
<1>2. S \in SUBSET {q \in Packages : pc[q] = "done"}
  BY SeenFacts
<1>3. PICK q \in S : deps[q] \cap S = {}
  BY <1>1, <1>2 DEF DoneOrdered
<1>4. q \in Seen(p) /\ v[q] # w[q]
  BY <1>3
<1>5. CASE HasCache(q)
  <2>1. PICK k \in on : k.pkg = q /\ v[q] = I[k]
    BY <1>4, <1>5 DEF View
  <2>2. PICK l \in on : l.pkg = q /\ w[q] = I[l]
    BY <1>4, <1>5 DEF View
  <2>3. k = l
    BY <2>1, <2>2 DEF View
  <2> QED BY <1>4, <2>1, <2>2, <2>3
<1>6. CASE ~HasCache(q)
  <2>1. deps[q] \subseteq Seen(p)
    BY <1>4, <1>6, SeenFacts
  <2>2. \A d \in deps[q] : v[d] = w[d]
    BY <1>3, <2>1
  <2>3. Images(q, v) = Images(q, w)
    BY <2>2 DEF Images
  <2>4. v[q] = Built(q, src[q], v) /\ w[q] = Built(q, src[q], w)
    BY <1>4, <1>6 DEF View
  <2> QED BY <1>4, <2>3, <2>4 DEF Built
<1> QED BY <1>5, <1>6

\* Two views that give p the same dependencies are of the same keys.
LEMMA ViewsDiffer ==
    ASSUME TypeOK, NEW I, Ledger(I), NEW p \in Packages,
           NEW on, NEW v, View(I, p, on, v), NEW un, NEW w, View(I, p, un, w),
           Images(p, v) = Images(p, w)
    PROVE  on = un
<1> DEFINE S == {q \in Seen(p) : v[q] = w[q]}
<1>1. \A q \in Seen(p) : v[q].pkg = q /\ w[q].pkg = q
  BY ViewNames
<1>2. ASSUME NEW q, deps[q] \subseteq Seen(p), Images(q, v) = Images(q, w)
      PROVE  deps[q] \subseteq S
  <2>1. ASSUME NEW d \in deps[q] PROVE v[d] = w[d]
    <3>1. PICK e \in deps[q] : v[d] = w[e]
      BY <1>2 DEF Images
    <3>2. d = e
      BY <1>1, <1>2, <3>1
    <3> QED BY <3>1, <3>2
  <2> QED BY <1>2, <2>1
<1>3. deps[p] \subseteq S
  BY <1>2, SeenFacts
<1>4. ASSUME NEW r \in S, ~HasCache(r) PROVE deps[r] \subseteq S
  <2>1. r \in Seen(p) /\ v[r] = w[r]
    OBVIOUS
  <2>2. v[r] = Built(r, src[r], v) /\ w[r] = Built(r, src[r], w)
    BY <1>4, <2>1 DEF View
  <2>3. Images(r, v) = Images(r, w)
    BY <2>1, <2>2 DEF Built
  <2>4. deps[r] \subseteq Seen(p)
    BY <1>4, <2>1, SeenFacts
  <2> HIDE DEF S
  <2> QED BY <1>2, <2>3, <2>4
<1>5. S \in SUBSET Packages
  BY SeenFacts
<1>6. Seen(p) \subseteq S
  <2> HIDE DEF S
  <2> QED BY <1>3, <1>4, <1>5, SeenFacts
<1>7. ASSUME NEW a, NEW b, NEW x, NEW y, View(I, p, a, x), View(I, p, b, y),
             \A q \in Seen(p) : x[q] = y[q], NEW k \in a
      PROVE  k \in b
  <2>1. k.pkg \in Seen(p) /\ HasCache(k.pkg)
    BY <1>7 DEF View
  <2>2. PICK l \in b : l.pkg = k.pkg /\ l \in DOMAIN I /\ y[k.pkg] = I[l]
    BY <1>7, <2>1 DEF View
  <2>3. PICK m \in a : m.pkg = k.pkg /\ m \in DOMAIN I /\ x[k.pkg] = I[m]
    BY <1>7, <2>1 DEF View
  <2>4. m = k
    BY <1>7, <2>3 DEF View
  <2>5. I[l] = I[k] /\ k \in DOMAIN I
    BY <1>7, <2>1, <2>2, <2>3, <2>4
  <2>6. l = k
    BY <2>2, <2>5 DEF Ledger
  <2> QED BY <2>2, <2>6
<1>8. \A q \in Seen(p) : v[q] = w[q]
  BY <1>6
<1> HIDE DEF S
<1>9. on \subseteq un
  BY <1>7, <1>8
<1>10. un \subseteq on
  BY <1>7, <1>8
<1> QED BY <1>9, <1>10

\* What a covered package sees is covered.
LEMMA SeenCovered ==
    ASSUME TypeOK, NEW p \in Packages, Covers(p), NEW q \in Seen(p)
    PROVE  Covers(q) /\ (HasCache(q) \/ mode[q] = "fixed")
<1> DEFINE S == {r \in Packages : Covers(r)}
<1>1. \A r \in S : deps[r] \subseteq S
  BY CoversDeps DEF TypeOK
<1>2. deps[p] \subseteq S
  BY <1>1
<1>3. Seen(p) \subseteq S
  <2>1. S \in SUBSET Packages
    OBVIOUS
  <2> HIDE DEF S
  <2> QED BY <1>1, <1>2, <2>1, SeenFacts
<1>4. Covers(q)
  BY <1>3
<1> QED BY <1>4 DEF Covers, Covered, HasCache

\* What a trusted package sees is trusted.
LEMMA SeenTrusted ==
    ASSUME TypeOK, NEW p \in Packages, Trusted(p), NEW q \in Seen(p)
    PROVE  Trusted(q)
<1> DEFINE S == {r \in Packages : Whole(r)}
<1>1. ASSUME NEW r \in S, NEW d \in deps[r] PROVE d \in S
  <2>1. d \in Packages /\ deps[r] \subseteq Packages
    BY DEF TypeOK
  <2>2. d \in Reached(r)
    BY <2>1 DEF Reached
  <2>3. Reached(d) \subseteq Reached(r)
    <3>1. ASSUME NEW x \in Reached(d), NEW T \in SUBSET Packages, deps[r] \subseteq T,
                 \A y \in T : deps[y] \subseteq T
          PROVE  x \in T
      <4>1. deps[d] \subseteq T
        BY <3>1
      <4> QED BY <3>1, <4>1 DEF Reached
    <3>2. Reached(d) \subseteq Packages
      BY DEF Reached
    <3> QED BY <3>1, <3>2 DEF Reached
  <2> QED BY <2>1, <2>2, <2>3 DEF Whole
<1>2. S \in SUBSET Packages /\ p \in S
  BY DEF Trusted
<1>3. deps[p] \subseteq S
  BY <1>1, <1>2
<1> HIDE DEF S
<1>4. Seen(p) \subseteq S
  BY <1>1, <1>2, <1>3, SeenFacts
<1>5. Covers(q)
  BY SeenCovered DEF Trusted
<1> QED BY <1>4, <1>5 DEF S, Trusted

\* Trust is never won.
LEMMA TrustShrinks ==
    ASSUME UNCHANGED recipe, kept \subseteq kept', NEW p
    PROVE  /\ HasCache(p)' = HasCache(p) /\ Covers(p)' = Covers(p)
           /\ Trusted(p)' => Trusted(p)
<1>1. UNCHANGED <<deps, mode>>
  BY DEF recipe
<1>2. Reached(p)' = Reached(p) /\ Covers(p)' = Covers(p)
  BY <1>1 DEF Covers, Covered, Reached
<1> QED BY <1>1, <1>2 DEF Trusted, Whole, HasCache

\* What a package sees is done when its dependencies are.
LEMMA SeenDone ==
    ASSUME TypeOK, NEW I, KeysInv(I), NEW p \in Packages, Ready(p)
    PROVE  \A q \in Seen(p) : pc[q] = "done"
<1> DEFINE S == {r \in Packages : pc[r] = "done"}
<1>1. \A r \in S : deps[r] \subseteq S
  BY DEF TypeOK, KeysInv, PackageInv, OrderInv, Ready
<1>2. deps[p] \subseteq S
  BY DEF TypeOK, Ready
<1>3. Seen(p) \subseteq S
  <2>1. S \in SUBSET Packages
    OBVIOUS
  <2> HIDE DEF S
  <2> QED BY <1>1, <1>2, <2>1, SeenFacts
<1> QED BY <1>3

\* What is in the cache and installed, of what a covered package sees when it is ready.
LEMMA SeenCached ==
    ASSUME TypeOK, NEW I, KeysInv(I), NEW p \in Packages, Trusted(p), Ready(p),
           NEW q \in Seen(p)
    PROVE  /\ ~HasCache(q) => cache[q] = {} /\ ins[q] = Built(q, src[q], ins)
           /\ HasCache(q) => \E f \in cache[q] : /\ cache[q] = {f} /\ f.key \in DOMAIN I
                                               /\ f.key.pkg = q /\ ins[q] = I[f.key]
<1>1. q \in Packages /\ pc[q] = "done" /\ Trusted(q)
  BY SeenFacts, SeenDone, SeenTrusted
<1>2. OrderInv(q) /\ DoneInv(q) /\ CacheInv(I, q)
  BY <1>1 DEF KeysInv, PackageInv
<1>3. ASSUME ~HasCache(q) PROVE cache[q] = {} /\ ins[q] = Built(q, src[q], ins)
  BY <1>1, <1>2, <1>3 DEF OrderInv, DoneInv, Fresh, Made, Built, Images
<1>4. ASSUME HasCache(q)
      PROVE  \E f \in cache[q] : /\ cache[q] = {f} /\ f.key \in DOMAIN I
                                 /\ f.key.pkg = q /\ ins[q] = I[f.key]
  <2>1. PICK f \in cache[q] : f.image = ins[q]
    BY <1>1, <1>2, <1>4 DEF DoneInv
  <2>2. cache[q] = {f} /\ f.key \in DOMAIN I /\ f.key.pkg = q /\ f.image = I[f.key]
    BY <1>2, <2>1 DEF CacheInv
  <2> QED BY <2>1, <2>2
<1> QED BY <1>3, <1>4

\* get_depend_checksum: the keys are those of the cache files of what is seen.
LEMMA KeysOfSeen ==
    ASSUME TypeOK, NEW I, KeysInv(I), NEW p \in Packages, Trusted(p), HasCache(p), Ready(p)
    PROVE  DependKeys(p) = {f.key : f \in UNION {cache[q] : q \in Seen(p)}}
<1>1. CASE mode[p] = "auto"
  <2>1. \A r \in Seen(p) : cache[r] # {} <=> HasCache(r)
    BY SeenCached
  <2>2. Visited(p) \subseteq Seen(p)
    <3>1. /\ Seen(p) \in SUBSET Packages /\ deps[p] \subseteq Seen(p)
          /\ \A r \in Seen(p) : cache[r] # {} \/ deps[r] \subseteq Seen(p)
      BY <2>1, SeenFacts
    <3> QED BY <3>1 DEF Visited
  <2>3. Seen(p) \subseteq Visited(p)
    <3>1. Visited(p) \in SUBSET Packages /\ deps[p] \subseteq Packages
      BY DEF Visited, TypeOK
    <3>2. deps[p] \subseteq Visited(p)
      BY <3>1 DEF Visited
    <3>3. ASSUME NEW r \in Visited(p), ~HasCache(r), NEW d \in deps[r] PROVE d \in Visited(p)
      <4>1. cache[r] = {} /\ d \in Packages
        BY <3>1, <3>3 DEF KeysInv, PackageInv, OrderInv, TypeOK
      <4>2. ASSUME NEW S \in SUBSET Packages, deps[p] \subseteq S,
                   \A q \in S : cache[q] # {} \/ deps[q] \subseteq S
            PROVE  d \in S
        <5>1. r \in S
          BY <4>2 DEF Visited
        <5> QED BY <3>3, <4>1, <4>2, <5>1
      <4> QED BY <4>1, <4>2 DEF Visited
    <3> QED BY <3>1, <3>2, <3>3, SeenFacts
  <2>4. Visited(p) = Seen(p)
    BY <2>2, <2>3
  <2> QED BY <1>1, <2>4 DEF DependKeys
<1>2. CASE mode[p] = "set"
  <2>1. deps[p] = {}
    BY <1>2 DEF Trusted, Covers, Covered
  <2>2. Seen(p) = {}
    <3>1. {} \in SUBSET Packages /\ deps[p] \subseteq {} /\ \A r \in {} : HasCache(r) \/ deps[r] \subseteq {}
      BY <2>1
    <3> QED BY <3>1, SeenFacts
  <2>3. DependKeys(p) = {}
    BY <1>2 DEF DependKeys
  <2> QED BY <2>2, <2>3
<1> QED BY <1>1, <1>2 DEF HasCache

\* What is installed is a view of the keys in the key of a package that is ready.
LEMMA InstalledIsView ==
    ASSUME TypeOK, NEW I, KeysInv(I), NEW p \in Packages, Trusted(p), HasCache(p), Ready(p)
    PROVE  View(I, p, DependKeys(p), ins)
<1> DEFINE on == DependKeys(p)
<1>1. ASSUME NEW k \in on
      PROVE  \E q \in Seen(p) : HasCache(q) /\ k.pkg = q /\ \E f \in cache[q] : cache[q] = {f} /\ k = f.key
  <2>1. PICK q \in Seen(p) : \E f \in cache[q] : k = f.key
    BY <1>1, KeysOfSeen
  <2>2. HasCache(q)
    BY <2>1, SeenCached
  <2> QED BY <2>1, <2>2, SeenCached
<1>2. ASSUME NEW q \in Seen(p), HasCache(q)
      PROVE  \E k \in on : k.pkg = q /\ k \in DOMAIN I /\ ins[q] = I[k]
  <2>1. PICK f \in cache[q] : f.key \in DOMAIN I /\ f.key.pkg = q /\ ins[q] = I[f.key]
    BY <1>2, SeenCached
  <2>2. f.key \in on
    BY <1>2, <2>1, KeysOfSeen
  <2> QED BY <2>1, <2>2
<1>3. \A q \in Seen(p) : ~HasCache(q) => ins[q] = Built(q, src[q], ins)
  BY SeenCached
<1>4. \A k \in on : k.pkg \in Seen(p) /\ HasCache(k.pkg)
  BY <1>1
<1>5. ASSUME NEW k \in on, NEW l \in on, k.pkg = l.pkg PROVE k = l
  BY <1>1, <1>5
<1> HIDE DEF on
<1>6. View(I, p, on, ins)
  BY <1>2, <1>3, <1>4, <1>5 DEF View
<1> QED BY <1>6 DEF on

\* What more keys stand for changes no view.
LEMMA ViewGrows ==
    ASSUME NEW I, NEW J, Extends(I, J), NEW p, NEW on, NEW w, View(I, p, on, w)
    PROVE  View(J, p, on, w)
<1>1. ASSUME NEW q \in Seen(p), HasCache(q)
      PROVE  \E k \in on : k.pkg = q /\ k \in DOMAIN J /\ w[q] = J[k]
  <2>1. PICK k \in on : k.pkg = q /\ k \in DOMAIN I /\ w[q] = I[k]
    BY <1>1 DEF View
  <2>2. k \in DOMAIN J /\ J[k] = I[k]
    BY <2>1 DEF Extends
  <2> QED BY <2>1, <2>2
<1> QED BY <1>1 DEF View

\* Nor what a key stands for.
LEMMA StandsGrows ==
    ASSUME NEW I, NEW J, Extends(I, J), NEW k \in DOMAIN I, Stands(I, k)
    PROVE  Stands(J, k)
<1>1. PICK w : View(I, k.pkg, k.on, w) /\ I[k] = Built(k.pkg, k.ver, w)
  BY DEF Stands
<1>2. View(J, k.pkg, k.on, w)
  BY <1>1, ViewGrows
<1>3. J[k] = Built(k.pkg, k.ver, w)
  BY <1>1 DEF Extends
<1> QED BY <1>2, <1>3 DEF Stands

\* A key that has been used before stands for what a build would give now.
LEMMA OldKey ==
    ASSUME TypeOK, DoneOrdered, NEW I, KeysInv(I), NEW p \in Packages, Trusted(p), HasCache(p),
           Ready(p), Key(p) \in DOMAIN I
    PROVE  I[Key(p)] = Fresh(p)
<1> DEFINE K == Key(p)
<1>1. K.pkg = p /\ K.ver = src[p] /\ K.on = DependKeys(p)
  BY DEF Key, Made
<1>2. Stands(I, K)
  BY DEF KeysInv, Ledger
<1>3. PICK w : View(I, p, DependKeys(p), w) /\ I[K] = Built(p, src[p], w)
  <2> HIDE DEF K
  <2> QED BY <1>1, <1>2 DEF Stands
<1>4. View(I, p, DependKeys(p), ins) /\ \A q \in Seen(p) : pc[q] = "done"
  BY InstalledIsView, SeenDone
<1>5. \A r \in Seen(p) : w[r] = ins[r]
  BY <1>3, <1>4, ViewIsOne
<1>6. \A d \in deps[p] : w[d] = ins[d]
  BY <1>5, SeenFacts
<1>7. Images(p, w) = Images(p, ins)
  BY <1>6 DEF Images
<1>8. Fresh(p) = Built(p, src[p], ins)
  BY DEF Fresh, Made, Built, Images
<1> QED BY <1>3, <1>7, <1>8 DEF Built

\* No other key of a package stands for what its build would give now.
LEMMA OtherKeys ==
    ASSUME TypeOK, NEW I, KeysInv(I), NEW p \in Packages, Trusted(p), HasCache(p), Ready(p),
           NEW l \in DOMAIN I, l.pkg = p, I[l] = Fresh(p)
    PROVE  l = Key(p)
<1>1. Ledger(I) /\ Stands(I, l)
  BY DEF KeysInv, Ledger
<1>2. PICK w : View(I, p, l.on, w) /\ I[l] = Built(p, l.ver, w)
  BY <1>1 DEF Stands
<1>3. Fresh(p) = Built(p, src[p], ins)
  BY DEF Fresh, Made, Built, Images
<1>4. l.ver = src[p] /\ Images(p, w) = Images(p, ins)
  <2>1. Built(p, l.ver, w) = Built(p, src[p], ins)
    BY <1>2, <1>3
  <2>2. ASSUME NEW x, NEW y, NEW X, NEW Y,
               [pkg |-> p, ver |-> x, on |-> X] = [pkg |-> p, ver |-> y, on |-> Y]
        PROVE  x = y /\ X = Y
    BY <2>2
  <2> QED BY <2>1, <2>2 DEF Built
<1>5. l.on = DependKeys(p)
  <2>1. View(I, p, DependKeys(p), ins)
    BY InstalledIsView
  <2> QED BY <1>1, <1>2, <1>4, <2>1, ViewsDiffer
<1>6. l = [pkg |-> p, ver |-> l.ver, on |-> l.on]
  BY <1>1 DEF Stands
<1> QED BY <1>4, <1>5, <1>6 DEF Key, Made

\* The key of a package that is ready stands for what its build would give now.
LEMMA KeyIsFresh ==
    ASSUME TypeOK, DoneOrdered, NEW I, KeysInv(I), NEW p \in Packages, Trusted(p), HasCache(p),
           Ready(p)
    PROVE  \E J : Extends(I, J) /\ Ledger(J) /\ Key(p) \in DOMAIN J /\ J[Key(p)] = Fresh(p)
<1>1. CASE Key(p) \in DOMAIN I
  BY <1>1, OldKey DEF Extends, KeysInv
<1>2. CASE Key(p) \notin DOMAIN I
  <2> DEFINE K == Key(p)
             F == Fresh(p)
             J == [k \in DOMAIN I \cup {K} |-> IF k = K THEN F ELSE I[k]]
  <2>1. /\ DOMAIN J = DOMAIN I \cup {K} /\ J[K] = F
        /\ \A k \in DOMAIN I : J[k] = I[k]
    <3> HIDE DEF F
    <3>1. K \notin DOMAIN I
      BY <1>2
    <3> HIDE DEF K
    <3> QED BY <3>1
  <2>2. K.pkg = p /\ K.ver = src[p] /\ K.on = DependKeys(p)
        /\ K = [pkg |-> p, ver |-> src[p], on |-> DependKeys(p)]
    BY DEF Key, Made
  <2>3. F = Built(p, src[p], ins)
    BY DEF Fresh, Made, Built, Images
  <2>4. View(I, p, DependKeys(p), ins) /\ Ledger(I)
    BY InstalledIsView DEF KeysInv
  <2>5. \A l \in DOMAIN I : l.pkg = p /\ I[l] = F => l = K
    BY OtherKeys
  <2> HIDE DEF K, F, J
  <2>6. Extends(I, J)
    BY <2>1 DEF Extends
  <2>7. Stands(J, K)
    <3>1. View(J, p, DependKeys(p), ins)
      BY <2>4, <2>6, ViewGrows
    <3> QED BY <2>1, <2>2, <2>3, <3>1 DEF Stands, Trusted
  <2>8. \A k \in DOMAIN I : Stands(J, k)
    BY <2>4, <2>6, StandsGrows DEF Ledger
  <2>9. ASSUME NEW k \in DOMAIN J, NEW l \in DOMAIN J, k.pkg = l.pkg, J[k] = J[l] PROVE k = l
    BY <2>1, <2>2, <2>4, <2>5, <2>9 DEF Ledger
  <2>10. Ledger(J)
    BY <2>1, <2>7, <2>8, <2>9 DEF Ledger
  <2> QED BY <2>1, <2>6, <2>10 DEF K, F
<1> QED BY <1>1, <1>2

-----------------------------------------------------------------------------
(* Steps of make *)

\* What keys stand for does not change while what never changes does not.
LEMMA LedgerStays ==
    ASSUME TypeOK, UNCHANGED recipe, NEW I, Ledger(I),
           \A q \in Packages : mode[q] = "fixed" => src'[q] = src[q]
    PROVE  Ledger(I)'
<1>1. UNCHANGED <<deps, mode>>
  BY DEF recipe
<1>2. ASSUME NEW k \in DOMAIN I PROVE Stands(I, k)'
  <2> DEFINE p == k.pkg
  <2>1. /\ p \in Packages /\ HasCache(p) /\ Covers(p)
        /\ k = [pkg |-> p, ver |-> k.ver, on |-> k.on]
        /\ \E w : View(I, p, k.on, w) /\ I[k] = Built(p, k.ver, w)
    BY <1>2 DEF Ledger, Stands
  <2>2. PICK w : View(I, p, k.on, w) /\ I[k] = Built(p, k.ver, w)
    BY <2>1
  <2>3. HasCache(p)' /\ Covers(p)'
    BY <1>1, <2>1 DEF HasCache, Covers, Covered, Reached
  <2>4. I[k] = Built(p, k.ver, w)'
    BY <1>1, <2>2 DEF Built, Images
  <2>5. Seen(p)' = Seen(p)
    BY <1>1 DEF Seen, HasCache
  <2>6. ASSUME NEW q \in Seen(p) PROVE IF HasCache(q)' THEN \E l \in k.on : l.pkg = q /\ l \in DOMAIN I /\ w[q] = I[l]
                                      ELSE w[q] = Built(q, src[q], w)'
    <3>1. HasCache(q)' = HasCache(q)
      BY <1>1 DEF HasCache
    <3>2. CASE HasCache(q)
      BY <2>2, <3>1, <3>2 DEF View
    <3>3. CASE ~HasCache(q)
      <4>1. q \in Packages /\ mode[q] = "fixed"
        BY <2>1, <3>3, SeenFacts, SeenCovered
      <4>2. src'[q] = src[q]
        BY <4>1
      <4>3. w[q] = Built(q, src[q], w)
        BY <2>2, <3>3 DEF View
      <4>4. Images(q, w)' = Images(q, w)
        BY <1>1 DEF Images
      <4> QED BY <3>1, <3>3, <4>2, <4>3, <4>4 DEF Built
    <3> QED BY <3>2, <3>3
  <2>7. View(I, p, k.on, w)'
    <3>1. \A l \in k.on : l.pkg \in Seen(p) /\ HasCache(l.pkg)'
      BY <1>1, <2>2 DEF View, HasCache
    <3>2. \A l, m \in k.on : l.pkg = m.pkg => l = m
      BY <2>2 DEF View
    <3> QED BY <2>5, <2>6, <3>1, <3>2 DEF View
  <2> HIDE DEF p
  <2>8. \E v : View(I, p, k.on, v)' /\ I[k] = Built(p, k.ver, v)'
    BY <2>4, <2>7
  <2> QED BY <2>1, <2>3, <2>8 DEF Stands, p
<1> QED BY <1>2 DEF Ledger

\* What is known of a package stays known when more keys have been used.
LEMMA PackageGrows ==
    ASSUME NEW I, NEW J, Extends(I, J), NEW p, PackageInv(I, p)
    PROVE  PackageInv(J, p)
<1>1. CacheInv(I, p) => CacheInv(J, p)
  BY DEF CacheInv, Extends
<1>2. KeyInv(I, p) => KeyInv(J, p)
  BY DEF KeyInv, Extends
<1> QED BY <1>1, <1>2 DEF PackageInv

\* A step of the rule of p, which has not been done before, is nothing to another.
LEMMA OthersStay ==
    ASSUME TypeOK, NEW I, NEW p \in Packages, NEW q \in Packages, q # p, PackageInv(I, q),
           making, making' = making, pc[p] # "done", UNCHANGED <<recipe, src>>, kept \subseteq kept',
           \A r \in Packages \ {p} : /\ pc'[r] = pc[r] /\ checkf'[r] = checkf[r]
                                     /\ cache'[r] = cache[r] /\ ins'[r] = ins[r],
           flag' \ {p} = flag \ {p}
    PROVE  PackageInv(I, q)'
<1>0. deps[q] \subseteq Packages
  BY DEF TypeOK
<1>1. UNCHANGED <<deps, mode, src>>
  BY DEF recipe
<1>2. (Trusted(q)' => Trusted(q)) /\ HasCache(q)' = HasCache(q)
  BY TrustShrinks
<1>3. ASSUME pc[q] # "wait" PROVE Ready(q)' /\ Fresh(q)' = Fresh(q)
  <2>1. \A d \in deps[q] : pc[d] = "done" /\ d # p
    BY <1>0, <1>3 DEF PackageInv, OrderInv, Ready
  <2>2. \A d \in deps[q] : pc'[d] = "done" /\ ins'[d] = ins[d]
    BY <1>0, <2>1
  <2>3. {ins'[d] : d \in deps[q]} = {ins[d] : d \in deps[q]}
    BY <2>2
  <2> QED BY <1>1, <2>2, <2>3 DEF Ready, Fresh, Made
<1>4. OrderInv(q)'
  BY <1>0, <1>1, <1>2, <1>3 DEF PackageInv, OrderInv
<1>5. DoneInv(q)'
  BY <1>0, <1>2, <1>3 DEF PackageInv, DoneInv
<1>6. Trusted(q) => CacheInv(I, q)'
  BY <1>0 DEF PackageInv, CacheInv, Installed
<1>7. Trusted(q) => KeyInv(I, q)'
  BY <1>0, <1>2, <1>3 DEF PackageInv, KeyInv
<1> QED BY <1>2, <1>4, <1>5, <1>6, <1>7 DEF PackageInv

\* What stays for the package itself: the packages it depends on are done.
LEMMA OwnStep ==
    ASSUME TypeOK, NEW p \in Packages, Ready(p), pc[p] # "done", UNCHANGED <<recipe, src>>,
           kept \subseteq kept',
           \A r \in Packages \ {p} : pc'[r] = pc[r] /\ ins'[r] = ins[r]
    PROVE  /\ Ready(p)' /\ Fresh(p)' = Fresh(p)
           /\ (Trusted(p)' => Trusted(p)) /\ HasCache(p)' = HasCache(p)
<1>1. UNCHANGED <<deps, mode, src>> /\ deps[p] \subseteq Packages
  BY DEF recipe, TypeOK
<1>2. \A d \in deps[p] : pc'[d] = "done" /\ ins'[d] = ins[d]
  BY <1>1 DEF Ready
<1>3. {ins'[d] : d \in deps[p]} = {ins[d] : d \in deps[p]}
  BY <1>2
<1> QED BY <1>1, <1>2, <1>3, TrustShrinks DEF Ready, Fresh, Made

\* A package that is done after what it depends on is done keeps the order.
LEMMA OrderStays ==
    ASSUME TypeOK, DoneOrdered, NEW I, KeysInv(I), NEW p \in Packages, Ready(p),
           pc[p] # "done", UNCHANGED recipe, \A r \in Packages \ {p} : pc'[r] = pc[r]
    PROVE  DoneOrdered'
<1>1. UNCHANGED deps
  BY DEF recipe
<1>2. ASSUME NEW S \in SUBSET {q \in Packages : pc'[q] = "done"}, S # {}
      PROVE  \E q \in S : deps[q] \cap S = {}
  <2>1. CASE S \subseteq {p}
    <3>1. S = {p} /\ p \notin deps[p]
      BY <1>2, <2>1 DEF Ready
    <3> QED BY <3>1
  <2>2. CASE ~(S \subseteq {p})
    <3> DEFINE T == S \ {p}
    <3>1. T \in SUBSET {q \in Packages : pc[q] = "done"} /\ T # {}
      BY <1>2, <2>2
    <3>2. PICK q \in T : deps[q] \cap T = {}
      BY <3>1 DEF DoneOrdered
    <3>3. p \notin deps[q]
      BY <3>1, <3>2 DEF KeysInv, PackageInv, OrderInv, Ready
    <3> QED BY <3>2, <3>3
  <2> QED BY <2>1, <2>2
<1> QED BY <1>1, <1>2 DEF DoneOrdered

\* The invariant after a step of the rule of p, from what holds of p alone.
LEMMA RuleKeeps ==
    ASSUME TypeOK, TypeOK', DoneOrdered, NEW I, KeysInv(I), NEW p \in Packages, Ready(p),
           making, making' = making, pc[p] # "done", UNCHANGED <<recipe, src>>,
           kept \subseteq kept',
           \A r \in Packages \ {p} : /\ pc'[r] = pc[r] /\ checkf'[r] = checkf[r]
                                     /\ cache'[r] = cache[r] /\ ins'[r] = ins[r],
           flag' \ {p} = flag \ {p},
           NEW J, Extends(I, J), Ledger(J), PackageInv(J, p)'
    PROVE  ChainInv'
<1>1. DoneOrdered'
  BY OrderStays
<1>2. Ledger(J)'
  BY LedgerStays
<1>3. ASSUME NEW q \in Packages, q # p PROVE PackageInv(J, q)'
  <2>1. PackageInv(J, q)
    BY PackageGrows DEF KeysInv
  <2> QED BY <1>3, <2>1, OthersStay
<1>4. KeysInv(J)'
  BY <1>2, <1>3 DEF KeysInv
<1> QED BY <1>1, <1>4 DEF ChainInv

\* The invariant and do_checksum.
LEMMA CheckKeeps ==
    ASSUME ChainInv, NEW p \in Packages, Check(p)
    PROVE  ChainInv'
<1>0. TypeOK /\ DoneOrdered /\ Ready(p) /\ pc[p] = "wait"
  BY DEF ChainInv, Check, Goto
<1> PICK I : KeysInv(I)
  BY DEF ChainInv
<1>1. /\ Ready(p)' /\ Fresh(p)' = Fresh(p)
      /\ (Trusted(p)' => Trusted(p)) /\ HasCache(p)' = HasCache(p)
  BY <1>0, OwnStep DEF Check, Goto, TypeOK
<1>2. TypeOK'
  BY <1>0 DEF TypeOK, Check, Goto, Stages, recipe
<1>3. /\ pc'[p] = IF Match(p) THEN "pull" ELSE "compile"
      /\ making' /\ mode' = mode /\ cache' = cache /\ flag' = flag /\ ins' = ins
      /\ checkf'[p] = IF HasCache(p) THEN Key(p) ELSE checkf[p]
  BY <1>0 DEF Check, Goto, TypeOK, recipe
<1>4. PICK J : /\ Extends(I, J) /\ Ledger(J)
               /\ Trusted(p) /\ HasCache(p) => Key(p) \in DOMAIN J /\ J[Key(p)] = Fresh(p)
  <2>1. CASE Trusted(p) /\ HasCache(p)
    BY <1>0, <2>1, KeyIsFresh
  <2>2. CASE ~(Trusted(p) /\ HasCache(p))
    BY <2>2 DEF Extends, KeysInv
  <2> QED BY <2>1, <2>2
<1>5. PackageInv(J, p)
  BY <1>4, PackageGrows DEF KeysInv
<1>6. OrderInv(p)'
  BY <1>0, <1>1, <1>3, <1>5 DEF PackageInv, OrderInv, Match
<1>7. DoneInv(p)'
  BY <1>3 DEF DoneInv
<1>8. ASSUME Trusted(p) PROVE CacheInv(J, p)' /\ KeyInv(J, p)'
  <2>1. CacheInv(J, p)'
    BY <1>0, <1>3, <1>5, <1>8 DEF PackageInv, CacheInv, Installed
  <2>2. CASE HasCache(p)
    <3>1. Key(p).pkg = p
      BY DEF Key, Made
    <3>2. ~Match(p) => \A f \in cache[p] : f.key # Key(p)
      BY <2>2 DEF Match
    <3> QED BY <1>1, <1>3, <1>4, <1>8, <2>1, <2>2, <3>1, <3>2 DEF KeyInv
  <2>3. CASE ~HasCache(p)
    <3>1. cache[p] = {}
      BY <1>5, <2>3 DEF PackageInv, OrderInv
    <3> QED BY <1>1, <1>3, <2>1, <2>3, <3>1 DEF KeyInv
  <2> QED BY <2>2, <2>3
<1>9. PackageInv(J, p)'
  BY <1>1, <1>6, <1>7, <1>8 DEF PackageInv
<1> QED BY <1>0, <1>2, <1>4, <1>9, RuleKeeps DEF Check, Goto, TypeOK

\* The invariant and build.
LEMMA CompileKeeps ==
    ASSUME ChainInv, NEW p \in Packages, Compile(p)
    PROVE  ChainInv'
<1> PICK I : KeysInv(I)
  BY DEF ChainInv
<1>0. TypeOK /\ DoneOrdered /\ PackageInv(I, p) /\ Ready(p)
  BY DEF ChainInv, KeysInv, PackageInv, OrderInv, Compile, Goto
<1>1. Ledger(I) /\ Extends(I, I)
  BY DEF KeysInv, Extends
<1>2. /\ Ready(p)' /\ Fresh(p)' = Fresh(p)
      /\ (Trusted(p)' => Trusted(p)) /\ HasCache(p)' = HasCache(p)
  BY <1>0, OwnStep DEF Compile, Goto, TypeOK
<1>3. TypeOK'
  BY <1>0 DEF TypeOK, Compile, Goto, Stages, recipe
<1>4. /\ pc[p] = "compile" /\ pc'[p] = (IF HasCache(p) THEN "push" ELSE "done")
      /\ making' /\ mode' = mode /\ ins'[p] = Fresh(p)
      /\ cache' = cache /\ flag' = flag /\ checkf' = checkf
  BY <1>0 DEF Compile, Goto, TypeOK, recipe
<1>5. OrderInv(p)'
  BY <1>0, <1>2, <1>4 DEF PackageInv, OrderInv
<1>6. DoneInv(p)'
  BY <1>2, <1>4 DEF DoneInv
<1>7. ASSUME Trusted(p) PROVE CacheInv(I, p)' /\ KeyInv(I, p)'
  <2>1. CacheInv(I, p)'
    <3>1. HasCache(p) => pc'[p] = "push"
      BY <1>4
    <3>2. ~HasCache(p) => p \notin flag
      BY <1>0 DEF PackageInv, OrderInv
    <3> QED BY <1>0, <1>4, <1>7, <3>1, <3>2 DEF PackageInv, CacheInv, Installed
  <2>2. KeyInv(I, p)'
    BY <1>0, <1>2, <1>4, <1>7 DEF PackageInv, KeyInv
  <2> QED BY <2>1, <2>2
<1>8. PackageInv(I, p)'
  BY <1>2, <1>5, <1>6, <1>7 DEF PackageInv
<1> QED BY <1>0, <1>1, <1>3, <1>4, <1>8, RuleKeeps DEF Compile, Goto, TypeOK

\* The invariant and a failing build.
LEMMA CompileFailsKeeps ==
    ASSUME ChainInv, NEW p \in Packages, CompileFails(p)
    PROVE  ChainInv'
<1> PICK I : KeysInv(I)
  BY DEF ChainInv
<1>0. TypeOK /\ DoneOrdered /\ PackageInv(I, p) /\ Ready(p)
  BY DEF ChainInv, KeysInv, PackageInv, OrderInv, CompileFails, Goto
<1>1. Ledger(I) /\ Extends(I, I)
  BY DEF KeysInv, Extends
<1>2. /\ Ready(p)' /\ Fresh(p)' = Fresh(p)
      /\ (Trusted(p)' => Trusted(p)) /\ HasCache(p)' = HasCache(p)
  BY <1>0, OwnStep DEF CompileFails, Goto, TypeOK
<1>3. TypeOK'
  BY <1>0 DEF TypeOK, CompileFails, Goto, Stages, recipe
<1>4. /\ pc[p] = "compile" /\ pc'[p] = "failed" /\ making' /\ mode' = mode
      /\ ins'[p] \in {ins[p], None, Part(p)} /\ cache' = cache /\ flag' = flag
  BY <1>0 DEF CompileFails, Goto, TypeOK, recipe
<1>5. OrderInv(p)' /\ DoneInv(p)'
  BY <1>0, <1>2, <1>4 DEF PackageInv, OrderInv, DoneInv
<1>6. ASSUME Trusted(p) PROVE CacheInv(I, p)' /\ KeyInv(I, p)'
  <2>1. CacheInv(I, p)'
    <3>1. Part(p)' = Part(p)
      BY DEF Part
    <3> QED BY <1>0, <1>4, <1>6, <3>1 DEF PackageInv, CacheInv, Installed
  <2> QED BY <1>4, <2>1 DEF KeyInv
<1>7. PackageInv(I, p)'
  BY <1>2, <1>5, <1>6 DEF PackageInv
<1> QED BY <1>0, <1>1, <1>3, <1>4, <1>7, RuleKeeps DEF CompileFails, Goto, TypeOK

\* The invariant and do_pushcache.
LEMMA PushKeeps ==
    ASSUME ChainInv, NEW p \in Packages, Push(p)
    PROVE  ChainInv'
<1> PICK I : KeysInv(I)
  BY DEF ChainInv
<1>0. TypeOK /\ DoneOrdered /\ PackageInv(I, p) /\ Ready(p)
  BY DEF ChainInv, KeysInv, PackageInv, OrderInv, Push, Goto
<1>1. Ledger(I) /\ Extends(I, I)
  BY DEF KeysInv, Extends
<1>2. /\ Ready(p)' /\ Fresh(p)' = Fresh(p)
      /\ (Trusted(p)' => Trusted(p)) /\ HasCache(p)' = HasCache(p)
  BY <1>0, OwnStep DEF Push, Goto, TypeOK
<1>3. TypeOK'
  BY <1>0 DEF TypeOK, Push, Goto, Stages, recipe
<1>4. /\ pc[p] = "push" /\ pc'[p] = "done" /\ making' /\ mode' = mode
      /\ ins' = ins /\ cache'[p] = {File(checkf[p], ins[p])} /\ HasCache(p)
  BY <1>0 DEF Push, Goto, TypeOK, recipe, PackageInv, OrderInv
<1>5. OrderInv(p)'
  BY <1>0, <1>2, <1>4 DEF PackageInv, OrderInv
<1>6. ASSUME Trusted(p)
      PROVE  /\ checkf[p] \in DOMAIN I /\ checkf[p].pkg = p
             /\ I[checkf[p]] = Fresh(p) /\ ins[p] = Fresh(p)
  BY <1>0, <1>4, <1>6 DEF PackageInv, KeyInv
<1>7. File(checkf[p], ins[p]).key = checkf[p] /\ File(checkf[p], ins[p]).image = ins[p]
  BY DEF File
<1>8. DoneInv(p)'
  BY <1>0, <1>2, <1>4, <1>6, <1>7 DEF DoneInv
<1>9. ASSUME Trusted(p) PROVE CacheInv(I, p)' /\ KeyInv(I, p)'
  <2>1. CacheInv(I, p)'
    BY <1>4, <1>6, <1>7, <1>9 DEF CacheInv
  <2> QED BY <1>4, <2>1 DEF KeyInv
<1>10. PackageInv(I, p)'
  BY <1>2, <1>5, <1>8, <1>9 DEF PackageInv
<1> QED BY <1>0, <1>1, <1>3, <1>4, <1>10, RuleKeeps DEF Push, Goto, TypeOK

\* The invariant and do_pullcache.
LEMMA PullKeeps ==
    ASSUME ChainInv, NEW p \in Packages, Pull(p)
    PROVE  ChainInv'
<1> PICK I : KeysInv(I)
  BY DEF ChainInv
<1>0. TypeOK /\ DoneOrdered /\ PackageInv(I, p) /\ Ready(p)
  BY DEF ChainInv, KeysInv, PackageInv, OrderInv, Pull, Goto
<1>1. Ledger(I) /\ Extends(I, I)
  BY DEF KeysInv, Extends
<1>2. PICK f \in cache[p] :
        f.key = checkf[p] /\ ins' = [ins EXCEPT ![p] = IF Installed(p) THEN @ ELSE f.image]
  BY DEF Pull
<1>3. /\ Ready(p)' /\ Fresh(p)' = Fresh(p)
      /\ (Trusted(p)' => Trusted(p)) /\ HasCache(p)' = HasCache(p)
  BY <1>0, <1>2, OwnStep DEF Pull, Goto, TypeOK
<1>4. TypeOK'
  BY <1>0, <1>2 DEF TypeOK, Pull, Goto, Stages, recipe
<1>5. /\ pc[p] = "pull" /\ pc'[p] = "done" /\ making' /\ mode' = mode /\ cache' = cache
      /\ ins'[p] = (IF Installed(p) THEN ins[p] ELSE f.image) /\ HasCache(p)
  BY <1>0, <1>2 DEF Pull, Goto, TypeOK, recipe, PackageInv, OrderInv
<1>6. OrderInv(p)'
  BY <1>0, <1>3, <1>5 DEF PackageInv, OrderInv
<1>7. ASSUME Trusted(p)' PROVE ins'[p] = Fresh(p) /\ f.image = Fresh(p)
  <2>0. Trusted(p)
    BY <1>3, <1>7
  <2>1. f.image = I[f.key] /\ I[checkf[p]] = Fresh(p)
    BY <1>0, <1>2, <1>5, <2>0 DEF PackageInv, CacheInv, KeyInv
  <2>2. Installed(p) => ins[p] = f.image
    <3>1. p \notin kept'
      BY <1>7 DEF Trusted, Whole
    <3>2. Installed(p) => ins[p] # Part(p)
      BY <3>1 DEF Pull
    <3> QED BY <1>0, <1>2, <1>5, <2>0, <3>2 DEF PackageInv, CacheInv
  <2> QED BY <1>2, <1>5, <2>1, <2>2
<1>8. DoneInv(p)'
  BY <1>0, <1>2, <1>3, <1>5, <1>7 DEF DoneInv
<1>9. ASSUME Trusted(p)' PROVE CacheInv(I, p)' /\ KeyInv(I, p)'
  <2>1. CacheInv(I, p)'
    <3>1. CacheInv(I, p)
      BY <1>0, <1>3, <1>9 DEF PackageInv
    <3> QED BY <1>2, <1>5, <1>7, <1>9, <3>1 DEF CacheInv
  <2> QED BY <1>5, <2>1 DEF KeyInv
<1>10. PackageInv(I, p)'
  BY <1>3, <1>6, <1>8, <1>9 DEF PackageInv
<1> QED BY <1>0, <1>1, <1>2, <1>4, <1>5, <1>10, RuleKeeps DEF Pull, Goto, TypeOK

-----------------------------------------------------------------------------
(* Between two makes *)

\* Where every rule waits, only what is in the cache and installed matters.
LEMMA WaitingKeeps ==
    ASSUME TypeOK, NEW I, KeysInv(I), TypeOK', UNCHANGED <<recipe, kept>>,
           \A p \in Packages : pc'[p] = "wait",
           \A p \in Packages : mode[p] = "fixed" => src'[p] = src[p],
           \A p \in Packages : ~HasCache(p) => cache'[p] = {} /\ p \notin flag',
           \A p \in Packages : Trusted(p) => CacheInv(I, p)'
    PROVE  ChainInv'
<1>1. UNCHANGED <<deps, mode>>
  BY DEF recipe
<1>2. \A p \in Packages : (Trusted(p)' => Trusted(p)) /\ HasCache(p)' = HasCache(p)
  BY TrustShrinks
<1>3. ASSUME NEW p \in Packages PROVE PackageInv(I, p)'
  <2>1. OrderInv(p)'
    BY <1>1, <1>2 DEF OrderInv
  <2>2. DoneInv(p)' /\ KeyInv(I, p)'
    BY DEF DoneInv, KeyInv
  <2> QED BY <1>2, <2>1, <2>2 DEF PackageInv
<1>4. Ledger(I)'
  BY LedgerStays DEF KeysInv
<1>5. KeysInv(I)'
  BY <1>3, <1>4 DEF KeysInv
<1>6. DoneOrdered'
  BY DEF DoneOrdered
<1> QED BY <1>5, <1>6 DEF ChainInv

\* What the invariant says of the packages between two makes.
LEMMA WaitingFacts ==
    ASSUME NEW I, KeysInv(I), NEW p \in Packages
    PROVE  /\ ~HasCache(p) => cache[p] = {} /\ p \notin flag
           /\ Trusted(p) => CacheInv(I, p)
  BY DEF KeysInv, PackageInv, OrderInv

\* The invariant and the start of a make.
LEMMA StartKeeps == ASSUME ChainInv, Start PROVE ChainInv'
<1> PICK I : KeysInv(I)
  BY DEF ChainInv
<1>1. /\ TypeOK /\ TypeOK' /\ UNCHANGED <<recipe, kept, src, cache, flag, ins>>
      /\ \A p \in Packages : pc'[p] = "wait"
  BY DEF ChainInv, TypeOK, Start, Stages, recipe
<1>2. ASSUME NEW p \in Packages, Trusted(p) PROVE CacheInv(I, p)'
  <2>1. CacheInv(I, p) /\ pc[p] # "push"
    BY <1>2 DEF KeysInv, PackageInv, OrderInv, Start
  <2> QED BY <1>1, <2>1 DEF CacheInv, Installed
<1> QED BY <1>1, <1>2, WaitingFacts, WaitingKeeps

\* The invariant and the end of a make.
LEMMA EndKeeps == ASSUME ChainInv, End PROVE ChainInv'
<1> PICK I : KeysInv(I)
  BY DEF ChainInv
<1>1. /\ TypeOK /\ TypeOK' /\ UNCHANGED <<recipe, kept, src, cache, flag, ins>>
      /\ \A p \in Packages : pc'[p] = "wait"
  BY DEF ChainInv, TypeOK, End, Stages, recipe, Nothing
<1>2. ASSUME NEW p \in Packages, Trusted(p) PROVE CacheInv(I, p)'
  <2>1. CacheInv(I, p) /\ pc[p] # "push"
    BY <1>2 DEF KeysInv, PackageInv, End
  <2> QED BY <1>1, <2>1 DEF CacheInv, Installed
<1> QED BY <1>1, <1>2, WaitingFacts, WaitingKeeps

\* The invariant and what the developer does between two makes.
LEMMA DevelopKeeps == ASSUME ChainInv, Develop PROVE ChainInv'
<1> PICK I : KeysInv(I)
  BY DEF ChainInv
<1>0. TypeOK /\ \A p \in Packages : pc[p] = "wait"
  BY DEF ChainInv, KeysInv, PackageInv, OrderInv, Develop, Edit, DistClean, UnsetForce, Idle
<1>1. PICK p \in Packages : Edit(p) \/ DistClean(p) \/ UnsetForce(p)
  BY DEF Develop
<1>2. UNCHANGED <<recipe, kept, deps, mode, making, pc>>
  BY <1>1 DEF Edit, DistClean, UnsetForce, Idle, recipe
<1>3. CASE Edit(p)
  <2>1. PICK v \in Versions : src' = [src EXCEPT ![p] = v]
    BY <1>3 DEF Edit
  <2>2. TypeOK'
    BY <1>0, <1>2, <1>3, <2>1 DEF TypeOK, Edit
  <2>3. \A q \in Packages : mode[q] = "fixed" => src'[q] = src[q]
    BY <1>0, <1>3, <2>1 DEF Edit, TypeOK
  <2>4. UNCHANGED <<cache, ins, flag>>
    BY <1>3 DEF Edit
  <2>5. ASSUME NEW q \in Packages, Trusted(q) PROVE CacheInv(I, q)'
    <3>1. CacheInv(I, q)
      BY <2>5, WaitingFacts
    <3> QED BY <1>2, <2>4, <3>1 DEF CacheInv, Installed
  <2> QED BY <1>0, <1>2, <2>2, <2>3, <2>4, <2>5, WaitingFacts, WaitingKeeps
<1>4. CASE DistClean(p)
  <2>1. TypeOK' /\ UNCHANGED <<src, cache>> /\ flag' = flag \ {p}
    BY <1>0, <1>2, <1>4 DEF TypeOK, DistClean
  <2>2. ASSUME NEW q \in Packages, Trusted(q) PROVE CacheInv(I, q)'
    <3>1. CacheInv(I, q)
      BY <2>2, WaitingFacts
    <3>2. q # p => ins'[q] = ins[q] /\ (q \in flag' <=> q \in flag)
      BY <1>0, <1>4 DEF DistClean, TypeOK
    <3> QED BY <1>2, <2>1, <3>1, <3>2 DEF CacheInv, Installed
  <2> QED BY <1>0, <1>2, <2>1, <2>2, WaitingFacts, WaitingKeeps
<1>5. CASE UnsetForce(p)
  <2>1. /\ TypeOK' /\ UNCHANGED src /\ flag' = flag \ {p}
        /\ \A q \in Packages : cache'[q] = IF q = p THEN {} ELSE cache[q]
    BY <1>0, <1>2, <1>5 DEF TypeOK, UnsetForce
  <2>2. ASSUME NEW q \in Packages, Trusted(q) PROVE CacheInv(I, q)'
    <3>1. CacheInv(I, q)
      BY <2>2, WaitingFacts
    <3>2. q # p => ins'[q] = ins[q] /\ (q \in flag' <=> q \in flag)
      BY <1>0, <1>5 DEF UnsetForce, TypeOK
    <3> QED BY <1>2, <2>1, <3>1, <3>2 DEF CacheInv, Installed
  <2> QED BY <1>0, <1>2, <2>1, <2>2, WaitingFacts, WaitingKeeps
<1> QED BY <1>1, <1>3, <1>4, <1>5

-----------------------------------------------------------------------------
(* Theorems *)

\* The inductive invariant of CacheChain.
LEMMA ChainInvariant == Spec => []ChainInv
<1>1. Init => ChainInv
  <2> SUFFICES ASSUME Init PROVE ChainInv
    OBVIOUS
  <2>1. TypeOK
    BY CacheChainAssumption DEF Init, TypeOK, Nothing, Stages
  <2> DEFINE I == [k \in {} |-> k]
  <2>2. DOMAIN I = {}
    OBVIOUS
  <2> HIDE DEF I
  <2>3. ASSUME NEW p \in Packages PROVE PackageInv(I, p)
    <3>1. pc[p] = "wait" /\ cache[p] = {} /\ p \notin flag
      BY DEF Init
    <3> QED BY <3>1 DEF PackageInv, OrderInv, DoneInv, CacheInv, KeyInv, Installed
  <2>4. Ledger(I)
    BY <2>2 DEF Ledger
  <2>5. DoneOrdered
    BY DEF DoneOrdered, Init
  <2> QED BY <2>1, <2>3, <2>4, <2>5 DEF ChainInv, KeysInv
<1>2. ChainInv /\ [Next]_vars => ChainInv'
  <2> SUFFICES ASSUME ChainInv, [Next]_vars PROVE ChainInv'
    OBVIOUS
  <2>1. CASE UNCHANGED vars
    <3>1. UNCHANGED <<recipe, deps, mode, src, making, pc, checkf, cache, ins, flag, kept>>
      BY <2>1 DEF vars, recipe
    <3> PICK I : KeysInv(I)
      BY DEF ChainInv
    <3>2. TypeOK /\ TypeOK' /\ DoneOrdered'
      BY <3>1 DEF ChainInv, TypeOK, DoneOrdered
    <3>3. Ledger(I)'
      BY <3>1, <3>2, LedgerStays DEF KeysInv
    <3>4. ASSUME NEW p \in Packages PROVE PackageInv(I, p)'
      <4>1. PackageInv(I, p) /\ Trusted(p)' = Trusted(p)
        BY <3>1 DEF KeysInv, Trusted, Whole, Covers, Covered, Reached
      <4>2. OrderInv(p) => OrderInv(p)'
        BY <3>1 DEF OrderInv, Ready, HasCache
      <4>3. DoneInv(p) => DoneInv(p)'
        BY <3>1, <4>1 DEF DoneInv, HasCache, Fresh, Made
      <4>4. CacheInv(I, p) /\ KeyInv(I, p) => CacheInv(I, p)' /\ KeyInv(I, p)'
        BY <3>1 DEF CacheInv, KeyInv, Installed, HasCache, Fresh, Made
      <4> QED BY <4>1, <4>2, <4>3, <4>4 DEF PackageInv
    <3>5. KeysInv(I)'
      BY <3>3, <3>4 DEF KeysInv
    <3> QED BY <3>2, <3>5 DEF ChainInv
  <2>2. CASE Make
    BY <2>2, StartKeeps, EndKeeps, CheckKeeps, CompileKeeps, CompileFailsKeeps, PushKeeps, PullKeeps
       DEF Make
  <2>3. CASE Develop
    BY <2>3, DevelopKeeps
  <2> QED BY <2>1, <2>2, <2>3 DEF Next
<1> QED BY <1>1, <1>2, PTL DEF Spec

\* Every variable of CacheChain keeps its kind, for any packages, graphs and recipes.
THEOREM ChainTypeCorrect == Spec => []TypeOK
<1>1. ChainInv => TypeOK
  BY DEF ChainInv
<1> QED BY <1>1, ChainInvariant, PTL

\* cachebuild, get_depend_checksum: for any packages and dependencies, a package
\* that is done has what a build against the packages as they are now would
\* give, when its key covers what it is made from and no part of an install has been
\* kept of that: keys made of keys are enough.
THEOREM CacheIsFresh == Spec => []CachedIsFresh
<1>1. ChainInv => CachedIsFresh
  BY DEF ChainInv, KeysInv, PackageInv, DoneInv, CachedIsFresh
<1> QED BY <1>1, ChainInvariant, PTL

\* check_cache: for any packages and dependencies, nothing is compiled whose image
\* is in the cache (of packages that are trusted).
THEOREM BuildIsNeeded == Spec => []NoNeedlessBuild
<1>1. ChainInv => NoNeedlessBuild
  <2> SUFFICES ASSUME ChainInv, NEW p \in Packages, pc[p] = "compile", Trusted(p),
                      NEW f \in cache[p]
               PROVE  f.image # Fresh(p)
    BY DEF NoNeedlessBuild
  <2> PICK I : KeysInv(I)
    BY DEF ChainInv
  <2>1. /\ Ledger(I) /\ HasCache(p)
        /\ f.key \in DOMAIN I /\ f.key.pkg = p /\ f.image = I[f.key]
        /\ checkf[p] \in DOMAIN I /\ checkf[p].pkg = p /\ I[checkf[p]] = Fresh(p)
        /\ f.key # checkf[p]
    BY DEF KeysInv, PackageInv, OrderInv, CacheInv, KeyInv
  <2> QED BY <2>1 DEF Ledger
<1> QED BY <1>1, ChainInvariant, PTL

-----------------------------------------------------------------------------
(* The cache is transparent *)

\* The variables of PlainMake, as CacheChain has them.
Claims == {p \in Packages : Trusted(p) \/ ~HasCache(p)}
Done   == {p \in Packages : pc[p] = "done"}
Left   == [p \in Packages |-> IF pc[p] = "done" THEN ins[p] ELSE None]

\* For which packages an image is claimed, the recipes say, and what has been kept.
LEMMA ClaimsStay ==
    ASSUME UNCHANGED <<recipe, kept>>
    PROVE  Claims' = Claims /\ deps' = deps
BY DEF recipe, Claims, Trusted, Whole, Covers, Covered, Reached, HasCache

\* A step after which the same rules are done, with the same images.
LEMMA QuietIsPlain ==
    ASSUME UNCHANGED <<recipe, kept, src, making>>,
           \A p \in Packages : /\ pc[p] = "done" <=> pc'[p] = "done"
                               /\ pc[p] = "done" => ins'[p] = ins[p]
    PROVE  UNCHANGED Plain!vars
<1>1. Claims' = Claims /\ deps' = deps
  BY ClaimsStay
<1>2. Done' = Done /\ Left' = Left
  BY DEF Done, Left
<1> QED BY <1>1, <1>2 DEF Plain!vars, Claims, Done, Left

\* A step after which one more rule is done is a build without a cache.
LEMMA RuleIsPlain ==
    ASSUME TypeOK, CachedIsFresh', NEW p \in Packages, making, making', Ready(p), pc[p] # "done",
           UNCHANGED <<recipe, src>>, kept \subseteq kept', pc' = [pc EXCEPT ![p] = "done"],
           \A q \in Packages \ {p} : ins'[q] = ins[q]
    PROVE  Plain!Build(p)
<1>1. Claims' \subseteq Claims /\ deps' = deps
  BY TrustShrinks DEF Claims, recipe
<1>2. pc'[p] = "done" /\ \A q \in Packages \ {p} : pc'[q] = pc[q]
  BY DEF TypeOK
<1>3. Done' = Done \cup {p} /\ p \notin Done
  BY <1>2 DEF Done
<1>4. deps[p] \subseteq Packages /\ p \notin deps[p]
  BY DEF TypeOK, Ready
<1>5. deps[p] \subseteq Done
  BY <1>4 DEF Ready, Done
<1>6. ASSUME p \in Claims' PROVE Left'[p] = Made(p, {Left[d] : d \in deps[p]})
  <2>1. ins'[p] = Fresh(p)'
    BY <1>1, <1>2, <1>6 DEF CachedIsFresh, Claims
  <2>2. \A d \in deps[p] : ins'[d] = Left[d]
    BY <1>4 DEF Left, Ready
  <2>3. {ins'[d] : d \in deps[p]} = {Left[d] : d \in deps[p]}
    BY <2>2
  <2> QED BY <1>1, <1>2, <2>1, <2>3 DEF Left, Fresh, Made
<1>7. Left' = [Left EXCEPT ![p] = IF p \in Claims' THEN Made(p, {Left[d] : d \in deps[p]})
                                  ELSE Left'[p]]
  BY <1>2, <1>6 DEF Left
<1> QED BY <1>1, <1>3, <1>5, <1>7 DEF Plain!Build, Plain!Built, Claims, Done, Left, Made

\* The steps of a rule.
LEMMA RulesArePlain ==
    ASSUME ChainInv, ChainInv', NEW p \in Packages,
           Check(p) \/ Compile(p) \/ CompileFails(p) \/ Push(p) \/ Pull(p)
    PROVE  Plain!Build(p) \/ UNCHANGED Plain!vars
<1>1. TypeOK /\ (pc[p] # "wait" => Ready(p))
  BY DEF ChainInv, KeysInv, PackageInv, OrderInv
<1>2. CachedIsFresh'
  BY DEF ChainInv, KeysInv, PackageInv, DoneInv, CachedIsFresh
<1>3. CASE Check(p)
  <2>1. \A q \in Packages : (pc[q] = "done" <=> pc'[q] = "done") /\ ins'[q] = ins[q]
    BY <1>1, <1>3 DEF Check, Goto, TypeOK
  <2> QED BY <1>3, <2>1, QuietIsPlain DEF Check
<1>4. CASE CompileFails(p)
  <2>1. \A q \in Packages : /\ pc[q] = "done" <=> pc'[q] = "done"
                            /\ pc[q] = "done" => ins'[q] = ins[q]
    BY <1>1, <1>4 DEF CompileFails, Goto, TypeOK
  <2> QED BY <1>4, <2>1, QuietIsPlain DEF CompileFails
<1>5. CASE Compile(p) /\ HasCache(p)
  <2>1. \A q \in Packages : /\ pc[q] = "done" <=> pc'[q] = "done"
                            /\ pc[q] = "done" => ins'[q] = ins[q]
    BY <1>1, <1>5 DEF Compile, Goto, TypeOK
  <2> QED BY <1>5, <2>1, QuietIsPlain DEF Compile
<1>6. CASE Compile(p) /\ ~HasCache(p)
  <2>1. \A q \in Packages \ {p} : ins'[q] = ins[q]
    BY <1>1, <1>6 DEF Compile, TypeOK
  <2>2. Ready(p) /\ pc[p] # "done" /\ pc' = [pc EXCEPT ![p] = "done"] /\ making /\ making'
    BY <1>1, <1>6 DEF Compile, Goto
  <2> QED BY <1>1, <1>2, <1>6, <2>1, <2>2, RuleIsPlain DEF Compile
<1>7. CASE Push(p)
  <2>1. Ready(p) /\ pc[p] # "done" /\ pc' = [pc EXCEPT ![p] = "done"] /\ making /\ making'
    BY <1>1, <1>7 DEF Push, Goto
  <2> QED BY <1>1, <1>2, <1>7, <2>1, RuleIsPlain DEF Push
<1>8. CASE Pull(p)
  <2>1. \A q \in Packages \ {p} : ins'[q] = ins[q]
    BY <1>1, <1>8 DEF Pull, TypeOK
  <2>2. Ready(p) /\ pc[p] # "done" /\ pc' = [pc EXCEPT ![p] = "done"] /\ making /\ making'
    BY <1>1, <1>8 DEF Pull, Goto
  <2> QED BY <1>1, <1>2, <1>8, <2>1, <2>2, RuleIsPlain DEF Pull
<1> QED BY <1>3, <1>4, <1>5, <1>6, <1>7, <1>8

\* Every step of CacheChain is one of a make without a cache, or nothing to it.
LEMMA StepIsPlain ==
    ASSUME ChainInv, ChainInv', [Next]_vars
    PROVE  Plain!Next \/ UNCHANGED Plain!vars
<1>1. TypeOK
  BY DEF ChainInv
<1>2. CASE UNCHANGED vars
  BY <1>2, QuietIsPlain DEF vars
<1>3. CASE Start
  <2>1. \A p \in Packages : pc[p] = "wait"
    BY <1>3 DEF Start, ChainInv, KeysInv, PackageInv, OrderInv
  <2>2. \A p \in Packages : pc'[p] = "wait"
    BY <1>3 DEF Start
  <2>3. Claims' = Claims /\ deps' = deps
    BY <1>3, ClaimsStay DEF Start
  <2>4. Done' = Done /\ Left' = Left
    BY <2>1, <2>2 DEF Done, Left
  <2>5. Plain!Start
    BY <1>3, <2>3, <2>4 DEF Start, Plain!Start, Claims, Done, Left
  <2> QED BY <2>5 DEF Plain!Next
<1>4. CASE End
  <2>1. \A p \in Packages : pc'[p] = "wait"
    BY <1>4 DEF End
  <2>2. Claims' = Claims /\ deps' = deps
    BY <1>4, ClaimsStay DEF End
  <2>3. Done' = {} /\ Left' = [p \in Packages |-> None]
    BY <2>1 DEF Done, Left
  <2>4. Plain!End
    BY <1>4, <2>2, <2>3 DEF End, Plain!End, Claims, Done, Left
  <2> QED BY <2>4 DEF Plain!Next
<1>5. ASSUME NEW p \in Packages, Check(p) \/ Compile(p) \/ CompileFails(p) \/ Push(p) \/ Pull(p)
      PROVE  Plain!Next \/ UNCHANGED Plain!vars
  BY <1>5, RulesArePlain DEF Plain!Next
<1>6. ASSUME NEW p \in Packages, Edit(p)
      PROVE  Plain!Next
  <2>1. Claims' = Claims /\ deps' = deps
    BY <1>6, ClaimsStay DEF Edit, Idle
  <2>2. Done' = Done /\ Left' = Left
    BY <1>6 DEF Edit, Idle, Done, Left
  <2>3. Plain!Edit(p)
    BY <1>6, <2>1, <2>2 DEF Edit, Idle, Plain!Edit, Claims, Done, Left
  <2> QED BY <2>3 DEF Plain!Next
<1>7. ASSUME NEW p \in Packages, DistClean(p) \/ UnsetForce(p)
      PROVE  UNCHANGED Plain!vars
  <2>1. \A q \in Packages : pc[q] = "wait" /\ pc'[q] = "wait"
    BY <1>7 DEF DistClean, UnsetForce, Idle, ChainInv, KeysInv, PackageInv, OrderInv
  <2> QED BY <1>7, <2>1, QuietIsPlain DEF DistClean, UnsetForce, Idle
<1> QED BY <1>2, <1>3, <1>4, <1>5, <1>6, <1>7 DEF Next, Make, Develop

\* process_cache.sh is transparent: for any packages, dependencies and recipes, any
\* edits and failing builds, make all_targets with the cache is make all_targets
\* without it, until a pull keeps what a failed install has left: of that package
\* and of those that depend on it nothing is claimed from then on.
THEOREM CacheIsPlain == Spec => CacheIsTransparent
<1>1. Init => Plain!Init
  <2> SUFFICES ASSUME Init PROVE Plain!Init
    OBVIOUS
  <2>1. deps \in [Packages -> SUBSET Packages]
    BY CacheChainAssumption DEF Init
  <2>2. Done = {} /\ Left = [p \in Packages |-> None]
    BY DEF Init, Done, Left
  <2> QED BY <2>1, <2>2 DEF Init, Plain!Init, Done, Left
<1>2. ChainInv /\ ChainInv' /\ [Next]_vars => [Plain!Next]_(Plain!vars)
  BY StepIsPlain
<1> QED BY <1>1, <1>2, ChainInvariant, PTL DEF Spec, CacheIsTransparent, Plain!Spec
===============================================================================
