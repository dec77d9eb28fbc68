--------------------------- MODULE BuildCacheProofs ---------------------------
(***************************************************************************)
(* What TLAPS proves about BuildCache, for every set of builders, versions *)
(* and mirror files and every number of force files.                       *)
(***************************************************************************)
EXTENDS BuildCache, TLAPS

\* Where the code reads the checksum file it is there; where it completes an
\* image, make has just created the install directory.
KeyKnown(b) ==
    \/ pc[b] \in {"lookup", "mirror", "wget", "wgetting", "pdel", "mv", "untar", "flag"}
    \/ pc[b] = "checked" /\ match[b]
    => checkf[b] # None
ImageMade(b) == pc[b] \in {"compile", "push", "pdel", "mv"} => ins[b] # None

TypeInv ==
    /\ TypeOK
    /\ \A b \in Builders : KeyKnown(b) /\ ImageMade(b)

\* Before the first make there is nothing to read or to complete.
LEMMA InitType == Init => TypeInv
<1> SUFFICES ASSUME Init PROVE TypeInv
  OBVIOUS
<1>1. clock \in 0 .. MaxStamp
  BY BuildCacheAssumption DEF Init
<1>2. TypeOK
  BY <1>1 DEF Init, TypeOK, Stages
<1>3. \A b \in Builders : KeyKnown(b) /\ ImageMade(b)
  BY DEF Init, KeyKnown, ImageMade
<1> QED BY <1>2, <1>3 DEF TypeInv

\* process_cache.sh -m check writes the checksum before it looks for its file.
LEMMA CheckType ==
  ASSUME TypeInv, NEW b \in Builders, CheckStep(b)
  PROVE  TypeInv'
<1> USE BuildCacheAssumption DEF TypeInv, TypeOK, KeyKnown, ImageMade, Stages, Goto,
        local, shared, Key, Keys, Images, Parts, Partial, Whole
<1>1. CASE Check(b)      BY <1>1 DEF Check
<1>2. CASE LocalHit(b)   BY <1>2 DEF LocalHit
<1>3. CASE MirrorHit(b)  BY <1>3 DEF MirrorHit
<1>4. CASE Miss(b)       BY <1>4 DEF Miss
<1>5. CASE MirrorClear(b) BY <1>5 DEF MirrorClear, DelCache
<1>6. CASE WgetOpen(b)   BY <1>6 DEF WgetOpen
<1>7. CASE WgetDone(b)
  <2>0. checkf[b] \in Keys /\ Whole(checkf[b].ver) \in Images
    BY <1>7 DEF WgetDone
  <2> HIDE DEF Keys, Images, Whole
  <2>1. CASE dl[checkf[b]] = b  BY <1>7, <2>0, <2>1 DEF WgetDone
  <2>2. CASE dl[checkf[b]] # b  BY <1>7, <2>2 DEF WgetDone
  <2> QED BY <2>1, <2>2
<1> QED BY <1>1, <1>2, <1>3, <1>4, <1>5, <1>6, <1>7 DEF CheckStep

\* A build creates the image, and a push has a checksum before it names a file.
LEMMA PushType ==
  ASSUME TypeInv, NEW b \in Builders, PushStep(b)
  PROVE  TypeInv'
<1> USE BuildCacheAssumption DEF TypeInv, TypeOK, KeyKnown, ImageMade, Stages, Goto,
        local, shared, Key, Keys, Images, Parts, Partial, Whole
<1>1. CASE BuildStart(b)
  <2>1. Fetched(b) \in Versions /\ Partial(Fetched(b), "built") \in Images
    BY DEF Fetched
  <2> HIDE DEF Keys, Images, Partial
  <2>2. wsrc' \in [Builders -> Versions \cup {None}]
    BY <1>1, <2>1 DEF BuildStart
  <2> QED BY <1>1, <2>1, <2>2 DEF BuildStart
<1>2. CASE BuildDone(b)
  <2>1. ins[b].ver \in Versions
    BY <1>2 DEF BuildDone
  <2>2. Whole(ins[b].ver) \in Images
    BY <2>1
  <2> HIDE DEF Images, Whole
  <2> QED BY <1>2, <2>2 DEF BuildDone
<1>3. CASE PushTar(b)    BY <1>3 DEF PushTar, ForcedKey, ForceFiles
<1>4. CASE PushDel(b)    BY <1>4 DEF PushDel, DelCache
<1>5. CASE PushMove(b)   BY <1>5 DEF PushMove, PutFile
<1>6. CASE PushShort(b)
  <2>1. ins[b].ver \in Versions
    BY <1>6 DEF PushShort
  <2>2. Partial(ins[b].ver, "packed") \in Images
    BY <2>1
  <2> HIDE DEF Images, Partial
  <2> QED BY <1>6, <2>2 DEF PushShort, PutFile
<1>7. CASE PushLost(b)   BY <1>7 DEF PushLost
<1> QED BY <1>1, <1>2, <1>3, <1>4, <1>5, <1>6, <1>7 DEF PushStep

\* A pull comes after a match, which needs a checksum; a failure changes no file.
LEMMA PullType ==
  ASSUME TypeInv, NEW b \in Builders, PullStep(b) \/ Finish(b) \/ Fail(b)
  PROVE  TypeInv'
<1> USE BuildCacheAssumption DEF TypeInv, TypeOK, KeyKnown, ImageMade, Stages, Goto,
        local, shared
<1>1. CASE PullKeep(b)   BY <1>1 DEF PullKeep
<1>2. CASE PullClear(b)  BY <1>2 DEF PullClear
<1>3. CASE PullMiss(b)   BY <1>3 DEF PullMiss
<1>4. CASE Untar(b)      BY <1>4 DEF Untar
<1>5. CASE PullFlag(b)   BY <1>5 DEF PullFlag
<1>6. CASE Finish(b)     BY <1>6 DEF Finish
<1>7. CASE Fail(b)       BY <1>7 DEF Fail
<1>8. CASE UntarShort(b)
  <2>1. Partial(cache[checkf[b]].ver, "unpacked") \in Images
    BY <1>8 DEF UntarShort, Images, Parts, Partial
  <2> QED BY <1>8, <2>1 DEF UntarShort
<1> QED BY <1>1, <1>2, <1>3, <1>4, <1>5, <1>6, <1>7, <1>8 DEF PullStep

\* What the developer does starts from an idle builder, or changes no file.
LEMMA UserType ==
  ASSUME TypeInv, NEW b \in Builders, User(b)
  PROVE  TypeInv'
<1> USE BuildCacheAssumption DEF TypeInv, TypeOK, KeyKnown, ImageMade, Stages,
        shared, WriteForce, RemoveForce, DelCache, ForceFiles
<1>1. CASE Edit(b)       BY <1>1 DEF Edit
<1>2. CASE SetForce(b)   BY <1>2 DEF SetForce
<1>3. CASE UnsetForce(b) BY <1>3 DEF UnsetForce
<1>4. CASE SetDev(b)     BY <1>4 DEF SetDev
<1>5. CASE UnsetDev(b)   BY <1>5 DEF UnsetDev
<1>6. CASE DevEdit(b)    BY <1>6 DEF DevEdit
<1>7. CASE DistClean(b)  BY <1>7 DEF DistClean
<1> QED BY <1>1, <1>2, <1>3, <1>4, <1>5, <1>6, <1>7 DEF User

\* No step reads a checksum file or completes an image that is not there.
LEMMA TypeInvariant == Spec => []TypeInv
<1>1. TypeInv /\ [Next]_vars => TypeInv'
  <2> SUFFICES ASSUME TypeInv, [Next]_vars PROVE TypeInv'
    OBVIOUS
  <2>1. CASE Next
    BY <2>1, CheckType, PushType, PullType, UserType DEF Next, Make
  <2>2. CASE UNCHANGED vars
    BY <2>2 DEF vars, local, shared, TypeInv, TypeOK, KeyKnown, ImageMade
  <2> QED BY <2>1, <2>2
<1> QED BY InitType, <1>1, PTL DEF Spec

\* process_cache.sh and its make targets: every file keeps the kind of content the
\* code reads from it, through every kind of failure and user action.
THEOREM TypeCorrect == Spec => []TypeOK
<1>1. TypeInv => TypeOK
  BY DEF TypeInv
<1> QED BY TypeInvariant, <1>1, PTL

-----------------------------------------------------------------------------
(* The cache is sound while inputs only change between builds and nobody is *)
(* in development mode: the files that are hashed are those compiled.       *)

\* What makes a push sound: between its check and its mv the make of a builder
\* keeps a checksum of what it compiles, and only it writes its own image.
RunSound(b) ==
    /\ pc[b] # "idle" /\ checkf[b] # None => checkf[b].ver = inputs[b]
    /\ pc[b] \in {"mirror", "wget", "wgetting"} => OnMirror(checkf[b])
    /\ pc[b] = "compile" => ins[b] = Partial(inputs[b], "built")
    /\ pc[b] \in {"push", "pdel", "mv"} => ins[b] = Whole(inputs[b])

SoundInv ==
    /\ ~dev
    /\ CacheSound
    /\ UnpackedIsKeyed
    /\ \A b \in Builders : RunSound(b)

\* A check adds no cache file but the mirror's, under the key of the inputs.
LEMMA CheckSound ==
  ASSUME TypeInv, SoundInv, NEW b \in Builders, CheckStep(b)
  PROVE  SoundInv'
<1> USE DEF TypeInv, TypeOK, KeyKnown, SoundInv, CacheSound, UnpackedIsKeyed, RunSound,
        KeyedFile, Partial, Whole, OnMirror, Goto, local, shared
<1>1. CASE Check(b)       BY <1>1 DEF Check, Key
<1>2. CASE LocalHit(b)    BY <1>2 DEF LocalHit
<1>3. CASE MirrorHit(b)   BY <1>3 DEF MirrorHit
<1>4. CASE Miss(b)        BY <1>4 DEF Miss
<1>5. CASE MirrorClear(b) BY <1>5 DEF MirrorClear, DelCache
<1>6. CASE WgetOpen(b)    BY <1>6 DEF WgetOpen
<1>7. CASE WgetDone(b)    BY <1>7 DEF WgetDone
<1> QED BY <1>1, <1>2, <1>3, <1>4, <1>5, <1>6, <1>7 DEF CheckStep

\* A push adds the image of the inputs that its key was computed from.
LEMMA PushSound ==
  ASSUME TypeInv, SoundInv, NEW b \in Builders, PushStep(b)
  PROVE  SoundInv'
<1> USE DEF TypeInv, TypeOK, KeyKnown, SoundInv, CacheSound, UnpackedIsKeyed, RunSound,
        KeyedFile, Goto, local, shared
<1>1. CASE BuildStart(b)  BY <1>1 DEF BuildStart, Fetched
<1>2. CASE BuildDone(b)
  <2>1. ins[b] = Partial(inputs[b], "built") /\ Partial(inputs[b], "built").ver = inputs[b]
    BY <1>2 DEF BuildDone, Partial
  <2>2. ins' = [ins EXCEPT ![b] = Whole(inputs[b])]
    BY <1>2, <2>1 DEF BuildDone
  <2> QED BY <1>2, <2>2 DEF BuildDone
<1>3. CASE PushTar(b)     BY <1>3 DEF PushTar, ForcedKey, Key
<1>4. CASE PushDel(b)     BY <1>4 DEF PushDel, DelCache
<1>5. CASE PushMove(b)
  <2>1. checkf[b] \in Keys /\ ins[b] = Whole(checkf[b].ver)
    BY <1>5 DEF PushMove
  <2>2. CacheSound'
    BY <1>5, <2>1 DEF PushMove, PutFile, Whole
  <2>3. \A a \in Builders : RunSound(a)'
    BY <1>5 DEF PushMove
  <2> QED BY <1>5, <2>2, <2>3 DEF PushMove
<1>6. CASE PushShort(b)
  <2>1. checkf[b] \in Keys /\ ins[b] = Whole(checkf[b].ver)
    BY <1>6 DEF PushShort
  <2>2. Partial(ins[b].ver, "packed") = [ver |-> checkf[b].ver, is |-> "packed"]
    BY <2>1 DEF Partial, Whole
  <2>3. CacheSound'
    BY <1>6, <2>1, <2>2 DEF PushShort, PutFile
  <2>4. \A a \in Builders : RunSound(a)'
    BY <1>6 DEF PushShort
  <2> QED BY <1>6, <2>3, <2>4 DEF PushShort
<1>7. CASE PushLost(b)    BY <1>7 DEF PushLost
<1> QED BY <1>1, <1>2, <1>3, <1>4, <1>5, <1>6, <1>7 DEF PushStep

\* A pull unpacks the file of the checked key, which CacheSound describes.
LEMMA PullSound ==
  ASSUME TypeInv, SoundInv, NEW b \in Builders, PullStep(b) \/ Finish(b) \/ Fail(b)
  PROVE  SoundInv'
<1> USE DEF TypeInv, TypeOK, KeyKnown, SoundInv, CacheSound, UnpackedIsKeyed, RunSound,
        Goto, local, shared
<1>1. CASE PullKeep(b)    BY <1>1 DEF PullKeep
<1>2. CASE PullClear(b)   BY <1>2 DEF PullClear
<1>3. CASE PullMiss(b)    BY <1>3 DEF PullMiss
<1>4. CASE Untar(b)       BY <1>4 DEF Untar
<1>5. CASE PullFlag(b)    BY <1>5 DEF PullFlag
<1>6. CASE Finish(b)      BY <1>6 DEF Finish
<1>7. CASE Fail(b)        BY <1>7 DEF Fail
<1>8. CASE UntarShort(b)
  <2>1. cache[checkf[b]].ver = checkf[b].ver
    BY <1>8 DEF UntarShort, KeyedFile
  <2> QED BY <1>8, <2>1 DEF UntarShort
<1> QED BY <1>1, <1>2, <1>3, <1>4, <1>5, <1>6, <1>7, <1>8 DEF PullStep

\* Edits wait for the builds, and the force and clean targets only remove files.
LEMMA UserSound ==
  ASSUME Features \subseteq {"fail", "space"}, TypeInv, SoundInv, NEW b \in Builders, User(b)
  PROVE  SoundInv'
<1> USE DEF TypeInv, TypeOK, SoundInv, CacheSound, UnpackedIsKeyed, RunSound, shared,
        WriteForce, RemoveForce, DelCache
<1>1. CASE Edit(b)        BY <1>1 DEF Edit
<1>2. CASE SetForce(b)    BY <1>2 DEF SetForce
<1>3. CASE UnsetForce(b)  BY <1>3 DEF UnsetForce
<1>4. CASE SetDev(b)      BY <1>4 DEF SetDev
<1>5. CASE UnsetDev(b)    BY <1>5 DEF UnsetDev
<1>6. CASE DevEdit(b)     BY <1>6 DEF DevEdit
<1>7. CASE DistClean(b)   BY <1>7 DEF DistClean
<1> QED BY <1>1, <1>2, <1>3, <1>4, <1>5, <1>6, <1>7 DEF User

\* The invariant behind the two theorems on the cache.
LEMMA SoundInvariant ==
  ASSUME Features \subseteq {"fail", "space"}
  PROVE  Spec => []SoundInv
<1>1. Init => SoundInv
  BY DEF Init, SoundInv, CacheSound, UnpackedIsKeyed, RunSound
<1>2. TypeInv /\ SoundInv /\ [Next]_vars => SoundInv'
  <2> SUFFICES ASSUME TypeInv, SoundInv, [Next]_vars PROVE SoundInv'
    OBVIOUS
  <2>1. CASE Next
    BY <2>1, CheckSound, PushSound, PullSound, UserSound DEF Next, Make
  <2>2. CASE UNCHANGED vars
    BY <2>2 DEF vars, local, shared, SoundInv, CacheSound, UnpackedIsKeyed, RunSound,
                KeyedFile
  <2> QED BY <2>1, <2>2
<1> QED BY TypeInvariant, <1>1, <1>2, PTL DEF Spec

\* push_cache and check_cache: whatever builders share the cache, whatever fails, runs
\* out of space or is forced, a cache file is made from the version of its key, and
\* lacks nothing but what its own download or its own tar left out.
THEOREM CacheIsSound ==
  ASSUME Features \subseteq {"fail", "space"}
  PROVE  Spec => []CacheSound
<1>1. SoundInv => CacheSound
  BY DEF SoundInv
<1> QED BY SoundInvariant, <1>1, PTL

\* pull_cache: what is unpacked is of the checked key, and lacks nothing but what the
\* cache file lacks or this tar left out; or it is nothing.
THEOREM UnpackIsSound ==
  ASSUME Features \subseteq {"fail", "space"}
  PROVE  Spec => []UnpackedIsKeyed
<1>1. SoundInv => UnpackedIsKeyed
  BY DEF SoundInv
<1> QED BY SoundInvariant, <1>1, PTL

-----------------------------------------------------------------------------
(* A builder that shares its cache with nobody. *)

Alone == \A a, b \in Builders : a = b

\* Whatever removes all cache files is followed by one new file, and nothing removes
\* the file of a match.
AloneRun(b) ==
    /\ pc[b] = "lookup" => ~match[b]
    /\ pc[b] \in {"wget", "mv"} => \A k \in Keys : cache[k] = None
    /\ pc[b] = "wgetting" => /\ cache[checkf[b]] # None
                             /\ \A k \in Keys : cache[k] # None => k = checkf[b]
    /\ pc[b] = "checked" /\ match[b] => cache[checkf[b]] # None

AloneInv == OneCacheFile /\ \A b \in Builders : AloneRun(b)

\* The images of a key are images, and so no absent file.
LEMMA KeyedImages ==
  ASSUME NEW k \in Keys
  PROVE  /\ Whole(k.ver) \in Images \ {None}
         /\ Partial(k.ver, "loaded") \in Images \ {None}
<1>1. k.ver \in Versions BY DEF Keys
<1>2. Whole(k.ver) \in Images /\ Partial(k.ver, "loaded") \in Images
  BY <1>1 DEF Images, Parts, Whole, Partial
<1> QED BY <1>2, BuildCacheAssumption

\* A step of the only builder keeps AloneInv, whatever fails, is edited or forced.
LEMMA AloneKeeps ==
  ASSUME Alone, TypeInv, AloneInv, NEW b \in Builders, Make(b) \/ Fail(b) \/ User(b)
  PROVE  AloneInv'
<1>0. Builders = {b} BY DEF Alone
<1> USE <1>0, BuildCacheAssumption
    DEF TypeInv, TypeOK, KeyKnown, AloneInv, OneCacheFile, AloneRun, Stages, Goto, local, shared
<1>1. CASE CheckStep(b)
  <2>1. CASE Check(b)       BY <2>1 DEF Check
  <2>2. CASE LocalHit(b)    BY <2>2 DEF LocalHit
  <2>3. CASE MirrorHit(b)   BY <2>3 DEF MirrorHit
  <2>4. CASE Miss(b)        BY <2>4 DEF Miss
  <2>5. CASE MirrorClear(b) BY <2>5 DEF MirrorClear, DelCache
  <2>6. CASE WgetOpen(b)
    <3>1. checkf[b] \in Keys BY <2>6 DEF WgetOpen
    <3>2. Partial(checkf[b].ver, "loaded") # None BY <3>1, KeyedImages
    <3> QED BY <2>6, <3>1, <3>2 DEF WgetOpen
  <2>7. CASE WgetDone(b)
    <3>1. checkf[b] \in Keys BY <2>7 DEF WgetDone
    <3>2. Whole(checkf[b].ver) # None BY <3>1, KeyedImages
    <3> QED BY <2>7, <3>1, <3>2 DEF WgetDone
  <2> QED BY <1>1, <2>1, <2>2, <2>3, <2>4, <2>5, <2>6, <2>7 DEF CheckStep
<1>2. CASE PushStep(b)
  <2>1. CASE BuildStart(b) \/ BuildDone(b) BY <2>1 DEF BuildStart, BuildDone
  <2>2. CASE PushTar(b)     BY <2>2 DEF PushTar
  <2>3. CASE PushDel(b)     BY <2>3 DEF PushDel, DelCache
  <2>4. CASE PushMove(b) \/ PushShort(b) BY <2>4 DEF PushMove, PushShort, PutFile
  <2>5. CASE PushLost(b)    BY <2>5 DEF PushLost
  <2> QED BY <1>2, <2>1, <2>2, <2>3, <2>4, <2>5 DEF PushStep
<1>3. CASE PullStep(b) \/ Finish(b)
  BY <1>3 DEF PullStep, PullKeep, PullClear, PullMiss, Untar, UntarShort, PullFlag, Finish
<1>4. CASE Fail(b)          BY <1>4 DEF Fail
<1>5. CASE User(b)
  <2>1. CASE Edit(b)        BY <2>1 DEF Edit
  <2>2. CASE SetForce(b) \/ SetDev(b) BY <2>2 DEF SetForce, SetDev, WriteForce
  <2>3. CASE UnsetForce(b) \/ UnsetDev(b)
    BY <2>3 DEF UnsetForce, UnsetDev, RemoveForce, DelCache
  <2>4. CASE DevEdit(b)     BY <2>4 DEF DevEdit
  <2>5. CASE DistClean(b)   BY <2>5 DEF DistClean
  <2> QED BY <1>5, <2>1, <2>2, <2>3, <2>4, <2>5 DEF User
<1> QED BY <1>1, <1>2, <1>3, <1>4, <1>5 DEF Make

LEMMA AloneInvariant == ASSUME Alone PROVE Spec => []AloneInv
<1>1. Init => AloneInv
  BY DEF Init, AloneInv, OneCacheFile, AloneRun
<1>2. TypeInv /\ AloneInv /\ [Next]_vars => AloneInv'
  <2> SUFFICES ASSUME TypeInv, AloneInv, [Next]_vars PROVE AloneInv'
    OBVIOUS
  <2>1. CASE Next BY <2>1, AloneKeeps DEF Next
  <2>2. CASE UNCHANGED vars
    BY <2>2 DEF vars, local, shared, AloneInv, OneCacheFile, AloneRun
  <2> QED BY <2>1, <2>2
<1> QED BY TypeInvariant, <1>1, <1>2, PTL DEF Spec

\* del_cache: one builder never leaves two cache files of its package, through
\* failures, kills, a disk without space, edits, force files and development mode.
THEOREM CacheHasOneFile == ASSUME Alone PROVE Spec => []OneCacheFile
<1>1. AloneInv => OneCacheFile BY DEF AloneInv
<1> QED BY AloneInvariant, <1>1, PTL

\* check_cache, pull_cache: one builder finds the file of its match when it pulls.
THEOREM MatchIsPresent == ASSUME Alone PROVE Spec => []MatchedFilePresent
<1>1. TypeInv /\ AloneInv => MatchedFilePresent
  BY DEF TypeInv, KeyKnown, AloneInv, AloneRun, MatchedFilePresent
<1> QED BY AloneInvariant, TypeInvariant, <1>1, PTL

-----------------------------------------------------------------------------
(* The same builder when nothing fails: what it uses is what it has matched. *)

\* An install directory that is taken for a match holds what the cache holds.
SoloRun(b) ==
    /\ pc[b] # "idle" /\ checkf[b] # None => checkf[b].ver = inputs[b]
    /\ pc[b] \in {"idle", "lookup", "mirror", "checked"} =>
         \A k \in Keys : Installed(b) /\ cache[k] # None => ins[b] = Whole(k.ver)
    /\ pc[b] # "wgetting" => \A k \in Keys : cache[k] # None => cache[k] = Whole(k.ver)
    /\ pc[b] \in {"wget", "wgetting"} => ~Installed(b)
    /\ pc[b] = "wgetting" => dl[checkf[b]] = b
    /\ pc[b] = "compile" => ins[b] = Partial(inputs[b], "built")
    /\ pc[b] \in {"push", "pdel", "mv"} => ins[b] = Whole(inputs[b])
    /\ pc[b] = "untar" => cache[checkf[b]] # None
    /\ pc[b] \in {"untar", "flag", "finish"} => \A k \in Keys : cache[k] # None => k = checkf[b]
    /\ pc[b] = "flag" => ins[b] = Whole(checkf[b].ver)
    /\ pc[b] = "finish" => checkf[b] # None /\ ins[b] = Whole(checkf[b].ver)

SoloInv == ~dev /\ \A b \in Builders : SoloRun(b)

LEMMA SoloKeeps ==
  ASSUME Alone, Features = {}, TypeInv, AloneInv, SoloInv, NEW b \in Builders,
         Make(b) \/ Fail(b) \/ User(b)
  PROVE  SoloInv'
<1>0. Builders = {b} BY DEF Alone
<1> USE <1>0
    DEF TypeInv, TypeOK, KeyKnown, AloneInv, OneCacheFile, AloneRun, SoloInv, SoloRun, Installed,
        Stages, Goto, local, shared
<1>1. CASE CheckStep(b)
  <2>1. CASE Check(b)       BY <2>1 DEF Check, Key
  <2>2. CASE LocalHit(b)    BY <2>2 DEF LocalHit
  <2>3. CASE MirrorHit(b)   BY <2>3 DEF MirrorHit
  <2>4. CASE Miss(b)        BY <2>4 DEF Miss
  <2>5. CASE MirrorClear(b) BY <2>5 DEF MirrorClear, DelCache
  <2>6. CASE WgetOpen(b)    BY <2>6 DEF WgetOpen
  <2>7. CASE WgetDone(b)    BY <2>7 DEF WgetDone
  <2> QED BY <1>1, <2>1, <2>2, <2>3, <2>4, <2>5, <2>6, <2>7 DEF CheckStep
<1>2. CASE PushStep(b)
  <2>1. CASE BuildStart(b)  BY <2>1 DEF BuildStart, Fetched
  <2>2. CASE BuildDone(b)
    <3>1. Partial(inputs[b], "built").ver = inputs[b] BY DEF Partial
    <3>2. ins' = [ins EXCEPT ![b] = Whole(inputs[b])] BY <2>2, <3>1 DEF BuildDone
    <3> QED BY <2>2, <3>2 DEF BuildDone
  <2>3. CASE PushTar(b)     BY <2>3 DEF PushTar, ForcedKey, Key
  <2>4. CASE PushDel(b)     BY <2>4 DEF PushDel, DelCache
  <2>5. CASE PushMove(b)    BY <2>5 DEF PushMove, PutFile
  <2> QED BY <1>2, <2>1, <2>2, <2>3, <2>4, <2>5 DEF PushStep, PushShort, PushLost
<1>3. CASE PullStep(b)
  <2>1. CASE PullKeep(b)    BY <2>1 DEF PullKeep
  <2>2. CASE PullClear(b)   BY <2>2 DEF PullClear
  <2>3. CASE PullMiss(b)    BY <2>3 DEF PullMiss
  <2>4. CASE Untar(b)       BY <2>4 DEF Untar
  <2>5. CASE PullFlag(b)    BY <2>5 DEF PullFlag
  <2> QED BY <1>3, <2>1, <2>2, <2>3, <2>4, <2>5 DEF PullStep, UntarShort
<1>4. CASE Finish(b)        BY <1>4 DEF Finish
<1>5. CASE User(b)
  <2>1. CASE Edit(b)        BY <2>1 DEF Edit
  <2>2. CASE SetForce(b)    BY <2>2 DEF SetForce, WriteForce
  <2>3. CASE UnsetForce(b)  BY <2>3 DEF UnsetForce, RemoveForce, DelCache
  <2>4. CASE DistClean(b)   BY <2>4 DEF DistClean
  <2> QED BY <1>5, <2>1, <2>2, <2>3, <2>4 DEF User, SetDev, UnsetDev, DevEdit
<1> QED BY <1>1, <1>2, <1>3, <1>4, <1>5 DEF Make, Fail

\* cachebuild: where nothing fails and nobody else uses the cache, a make that
\* completes hands on the complete image of its key.
THEOREM UsedIsTheMatched ==
  ASSUME Alone, Features = {}
  PROVE  Spec => []UsedIsMatched
<1>1. Init => SoloInv
  BY DEF Init, SoloInv, SoloRun, Installed
<1>2. TypeInv /\ AloneInv /\ SoloInv /\ [Next]_vars => SoloInv'
  <2> SUFFICES ASSUME TypeInv, AloneInv, SoloInv, [Next]_vars PROVE SoloInv'
    OBVIOUS
  <2>1. CASE Next BY <2>1, SoloKeeps DEF Next
  <2>2. CASE UNCHANGED vars
    BY <2>2 DEF vars, local, shared, SoloInv, SoloRun, Installed
  <2> QED BY <2>1, <2>2
<1>3. SoloInv => UsedIsMatched BY DEF SoloInv, SoloRun, UsedIsMatched
<1> QED BY TypeInvariant, AloneInvariant, <1>1, <1>2, <1>3, PTL DEF Spec
=============================================================================
