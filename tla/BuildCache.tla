------------------------------ MODULE BuildCache ------------------------------
(***************************************************************************)
(* The build cache of scripts/bin/process_cache.sh, driven by the targets  *)
(* checksum, cachebuild, setforce, set1force, unsetforce, setdev           *)
(* and unsetdev of scripts/core/inc.rule.mk.                               *)
(*                                                                         *)
(* One package is built by several builders: the build directories of      *)
(* several SOCs of one source tree, each with its own WORKDIR, all with    *)
(* the same ENV_CACHE_DIR and the same cache prefix (CACHE_GRADE 2 is the  *)
(* cpu name).  What a builder hashes (recipe, patches, source, appended    *)
(* configuration) is its version; the md5 of it, with the content of the   *)
(* force file when there is one, is the key in the name of a cache file.   *)
(***************************************************************************)
EXTENDS Naturals

CONSTANTS
    Builders,       \* build directories that share ENV_CACHE_DIR
    Versions,       \* values of what the checksum is computed from
    MirrorVersions, \* versions whose cache file the mirror server publishes
    MaxStamp,       \* bound on how often a force file is written
    Features,       \* what may happen besides undisturbed builds
    None            \* an absent file

Key(v, s) == [ver |-> v, stamp |-> s]
Keys      == [ver : Versions, stamp : 0 .. MaxStamp]
\* The content of an install directory or of a cache file: the version it was
\* compiled from, and whether it is whole or where a part of it was left: by a
\* compilation, by the download of a mirror file, by the tar of a push or a pull.
Parts     == {"built", "loaded", "packed", "unpacked"}
Images    == [ver : Versions, is : {"whole"} \cup Parts]
Partial(v, by) == [ver |-> v, is |-> by]
Whole(v)       == [ver |-> v, is |-> "whole"]
ForceFiles == [stamp : 1 .. MaxStamp, once : BOOLEAN]

\* fail: a command that is checked fails, the network is down or the build is
\* killed; space: tar or mv fails, which the script does not look at (the small
\* files that it writes with echo are always written); live: what is hashed
\* changes while a build runs; dev: setdev and unsetdev.
AllFeatures == {"fail", "space", "live", "dev"}

ASSUME BuildCacheAssumption ==
    /\ MaxStamp \in Nat
    /\ MirrorVersions \subseteq Versions
    /\ Features \subseteq AllFeatures
    /\ None \notin Builders
    /\ None \notin Keys
    /\ None \notin Images
    /\ None \notin ForceFiles
    /\ None \notin Versions

VARIABLES
    pc,      \* what the make of each builder executes next
    inputs,  \* version of what the builder hashes now
    wsrc,    \* version of the source unpacked in WORKDIR
    ins,     \* content of the install directory (CACHE_INSPATH)
    flag,    \* the file <insdir>-flag exists
    checkf,  \* key in the file <package>-checksum
    match,   \* the file CACHE_STATUS exists
    force,   \* the file <package>-force
    cache,   \* content of each cache file in ENV_CACHE_DIR
    dl,      \* the builder whose wget writes the cache file of a key
    dev,     \* the file ENV_DOWN_DIR/devf/<package>-dev exists
    clock    \* number of force files written (the date in the file)

local  == <<inputs, wsrc, ins, flag, checkf, match, force>>
shared == <<cache, dl, dev, clock>>
vars   == <<pc, local, shared>>

Stages == {"idle", "lookup", "mirror", "wget", "wgetting", "checked",
           "compile", "push", "pdel", "mv", "untar", "flag", "finish"}

TypeOK ==
    /\ pc \in [Builders -> Stages]
    /\ inputs \in [Builders -> Versions]
    /\ wsrc \in [Builders -> Versions \cup {None}]
    /\ ins \in [Builders -> Images \cup {None}]
    /\ flag \in [Builders -> BOOLEAN]
    /\ checkf \in [Builders -> Keys \cup {None}]
    /\ match \in [Builders -> BOOLEAN]
    /\ force \in [Builders -> ForceFiles \cup {None}]
    /\ cache \in [Keys -> Images \cup {None}]
    /\ dl \in [Keys -> Builders \cup {None}]
    /\ dev \in BOOLEAN
    /\ clock \in 0 .. MaxStamp

Init ==
    /\ pc = [b \in Builders |-> "idle"]
    /\ inputs \in [Builders -> Versions]
    /\ wsrc = [b \in Builders |-> None]
    /\ ins = [b \in Builders |-> None]
    /\ flag = [b \in Builders |-> FALSE]
    /\ checkf = [b \in Builders |-> None]
    /\ match = [b \in Builders |-> FALSE]
    /\ force = [b \in Builders |-> None]
    /\ cache = [k \in Keys |-> None]
    /\ dl = [k \in Keys |-> None]
    /\ dev = FALSE
    /\ clock = 0

Goto(b, from, to) ==
    /\ pc[b] = from
    /\ pc' = [pc EXCEPT ![b] = to]

-----------------------------------------------------------------------------
(* process_cache.sh -m check *)

\* Error variant: a forced check leaves the <package>-checksum of an earlier run.
CheckKeepsKey(b) ==
    /\ Goto(b, "idle", IF force[b] = None THEN "lookup" ELSE "checked")
    /\ match' = [match EXCEPT ![b] = FALSE]
    /\ checkf' = IF force[b] = None
                 THEN [checkf EXCEPT ![b] = Key(inputs[b], 0)] ELSE checkf
    /\ UNCHANGED <<inputs, wsrc, ins, flag, force, shared>>

\* Error variant: check does not remove the CACHE_STATUS of an earlier run.
CheckKeepsMatch(b) ==
    /\ Goto(b, "idle", IF force[b] = None THEN "lookup" ELSE "checked")
    /\ checkf' = [checkf EXCEPT ![b] = IF force[b] = None THEN Key(inputs[b], 0)
                                                          ELSE None]
    /\ UNCHANGED <<inputs, wsrc, ins, flag, match, force, shared>>

\* get_checksum check: a force file stops the check before a key is written.
Check(b) ==
    /\ Goto(b, "idle", IF force[b] = None THEN "lookup" ELSE "checked")
    /\ match' = [match EXCEPT ![b] = FALSE]
    /\ checkf' = [checkf EXCEPT ![b] = IF force[b] = None THEN Key(inputs[b], 0)
                                                          ELSE None]
    /\ UNCHANGED <<inputs, wsrc, ins, flag, force, shared>>

LocalHit(b) ==
    /\ Goto(b, "lookup", "checked")
    /\ cache[checkf[b]] # None
    /\ match' = [match EXCEPT ![b] = TRUE]
    /\ UNCHANGED <<inputs, wsrc, ins, flag, checkf, force, shared>>

OnMirror(k) == k.stamp = 0 /\ k.ver \in MirrorVersions

MirrorHit(b) ==
    /\ Goto(b, "lookup", "mirror")
    /\ cache[checkf[b]] = None
    /\ OnMirror(checkf[b])
    /\ UNCHANGED <<local, shared>>

Miss(b) ==
    /\ Goto(b, "lookup", "checked")
    /\ cache[checkf[b]] = None
    /\ ~OnMirror(checkf[b]) \/ "fail" \in Features
    /\ UNCHANGED <<local, shared>>

\* Error variant: the cache files of other keys stay.
DelNothing == UNCHANGED <<cache, dl>>

\* del_cache: every cache file of the package, whatever its key.
DelCache ==
    /\ cache' = [k \in Keys |-> None]
    /\ dl' = [k \in Keys |-> None]

\* Error variant: a mirror match leaves the old install directory in place.
MirrorKeepsImage(b) ==
    /\ Goto(b, "mirror", "wget")
    /\ DelCache
    /\ UNCHANGED <<local, dev, clock>>

\* check_cache with a file on the mirror: del_cache, and no installed image.
MirrorClear(b) ==
    /\ Goto(b, "mirror", "wget")
    /\ DelCache
    /\ ins' = [ins EXCEPT ![b] = None]
    /\ flag' = [flag EXCEPT ![b] = FALSE]
    /\ UNCHANGED <<inputs, wsrc, checkf, match, force, dev, clock>>

\* wget -O creates, or truncates, the cache file under its final name.
WgetOpen(b) ==
    /\ Goto(b, "wget", "wgetting")
    /\ cache' = [cache EXCEPT ![checkf[b]] = Partial(checkf[b].ver, "loaded")]
    /\ dl' = [dl EXCEPT ![checkf[b]] = b]
    /\ UNCHANGED <<local, dev, clock>>

\* The file this wget wrote may have been removed or replaced meanwhile.
WgetDone(b) ==
    /\ Goto(b, "wgetting", "checked")
    /\ IF dl[checkf[b]] = b
       THEN /\ cache' = [cache EXCEPT ![checkf[b]] = Whole(checkf[b].ver)]
            /\ dl' = [dl EXCEPT ![checkf[b]] = None]
       ELSE UNCHANGED <<cache, dl>>
    /\ match' = [match EXCEPT ![b] = TRUE]
    /\ UNCHANGED <<inputs, wsrc, ins, flag, checkf, force, dev, clock>>

-----------------------------------------------------------------------------
(* cachebuild without CACHE_STATUS: build, then process_cache.sh -m push *)

\* do_fetch leaves a source tree in WORKDIR alone in development mode (which
\* version is there is only recorded for runs that have this mode).
Fetched(b) == IF dev /\ wsrc[b] # None THEN wsrc[b] ELSE inputs[b]

\* build: fetch, then rm -rf the install directory (not its flag), compile.
BuildStart(b) ==
    /\ ~match[b]
    /\ Goto(b, "checked", "compile")
    /\ wsrc' = IF "dev" \in Features THEN [wsrc EXCEPT ![b] = Fetched(b)] ELSE wsrc
    /\ ins' = [ins EXCEPT ![b] = Partial(Fetched(b), "built")]
    /\ UNCHANGED <<inputs, flag, checkf, match, force, shared>>

BuildDone(b) ==
    /\ Goto(b, "compile", "push")
    /\ ins' = [ins EXCEPT ![b] = Whole(@.ver)]
    /\ UNCHANGED <<inputs, wsrc, flag, checkf, match, force, shared>>

\* get_checksum of a push: a force file that does not say "once" is hashed.
ForcedKey(b) ==
    Key(inputs[b], IF force[b] = None \/ force[b].once THEN 0 ELSE force[b].stamp)

\* push_cache up to tar: the checksum is computed again when check wrote none.
PushTar(b) ==
    /\ Goto(b, "push", "pdel")
    /\ IF checkf[b] = None
       THEN /\ checkf' = [checkf EXCEPT ![b] = ForcedKey(b)]
            /\ force' = [force EXCEPT ![b] = IF @ # None /\ @.once THEN None ELSE @]
       ELSE UNCHANGED <<checkf, force>>
    /\ flag' = [flag EXCEPT ![b] = TRUE]
    /\ UNCHANGED <<inputs, wsrc, ins, match, shared>>

\* Error variant: push does not remove the cache files of older keys.
PushKeepsOld(b) == Goto(b, "pdel", "mv") /\ UNCHANGED <<local, shared>>

PushDel(b) ==
    /\ Goto(b, "pdel", "mv")
    /\ DelCache
    /\ UNCHANGED <<local, dev, clock>>

\* A cache file appears under its final name, and no wget writes that file.
PutFile(k, image) ==
    /\ cache' = [cache EXCEPT ![k] = image]
    /\ dl' = [dl EXCEPT ![k] = None]

\* mv into ENV_CACHE_DIR, a rename within ENV_TOP_OUT, of the archive of the
\* install directory, which this make alone could have changed since tar.
PushMove(b) ==
    /\ Goto(b, "mv", "finish")
    /\ PutFile(checkf[b], ins[b])
    /\ UNCHANGED <<local, dev, clock>>

\* tar -zcf wrote a part of the archive, for want of space or because it was killed:
\* the script goes on, moves the part under the key's name and exits with 0.
PushShort(b) ==
    /\ "space" \in Features
    /\ Goto(b, "mv", "finish")
    /\ PutFile(checkf[b], Partial(ins[b].ver, "packed"))
    /\ UNCHANGED <<local, dev, clock>>

\* tar created no archive, or the mv fails: the push still exits with 0.
PushLost(b) ==
    /\ "space" \in Features
    /\ Goto(b, "mv", "finish")
    /\ UNCHANGED <<local, shared>>

-----------------------------------------------------------------------------
(* cachebuild with CACHE_STATUS: process_cache.sh -m pull *)

Installed(b) == ins[b] # None /\ flag[b]

\* An install directory with its flag is used as it is.
PullKeep(b) ==
    /\ match[b]
    /\ Installed(b)
    /\ Goto(b, "checked", "finish")
    /\ UNCHANGED <<local, shared>>

PullClear(b) ==
    /\ match[b]
    /\ ~Installed(b)
    /\ cache[checkf[b]] # None
    /\ Goto(b, "checked", "untar")
    /\ ins' = [ins EXCEPT ![b] = None]
    /\ flag' = [flag EXCEPT ![b] = FALSE]
    /\ UNCHANGED <<inputs, wsrc, checkf, match, force, shared>>

\* The cache file of the match is gone: pull exits with an error.
PullMiss(b) ==
    /\ match[b]
    /\ ~Installed(b)
    /\ cache[checkf[b]] = None
    /\ Goto(b, "checked", "idle")
    /\ UNCHANGED <<local, shared>>

\* Error variant: the file is found by the package's name, not by its key.
UntarByName(b) ==
    /\ Goto(b, "untar", "flag")
    /\ \E k \in Keys : ins' = [ins EXCEPT ![b] = cache[k]]
    /\ UNCHANGED <<inputs, wsrc, flag, checkf, match, force, shared>>

\* tar -xf: all that the file holds now, if it is there.
Untar(b) ==
    /\ Goto(b, "untar", "flag")
    /\ ins' = [ins EXCEPT ![b] = cache[checkf[b]]]
    /\ UNCHANGED <<inputs, wsrc, flag, checkf, match, force, shared>>

\* tar -xf ends early, with some of the files or with none; its status is ignored,
\* so the flag is written all the same.
UntarShort(b) ==
    /\ "space" \in Features
    /\ Goto(b, "untar", "flag")
    /\ cache[checkf[b]] # None
    /\ \E i \in {None, Partial(cache[checkf[b]].ver, "unpacked")} : ins' = [ins EXCEPT ![b] = i]
    /\ UNCHANGED <<inputs, wsrc, flag, checkf, match, force, shared>>

PullFlag(b) ==
    /\ Goto(b, "flag", "finish")
    /\ flag' = [flag EXCEPT ![b] = TRUE]
    /\ UNCHANGED <<inputs, wsrc, ins, checkf, match, force, shared>>

\* rm -f CACHE_STATUS; the install directory goes to the sysroots.
Finish(b) ==
    /\ Goto(b, "finish", "idle")
    /\ match' = [match EXCEPT ![b] = FALSE]
    /\ UNCHANGED <<inputs, wsrc, ins, flag, checkf, force, shared>>

\* A command whose status ends the script or the rule fails, or make is killed:
\* every file stays as it is.
Fail(b) ==
    /\ "fail" \in Features
    /\ pc[b] # "idle"
    /\ pc' = [pc EXCEPT ![b] = "idle"]
    /\ dl' = [k \in Keys |-> IF dl[k] = b THEN None ELSE dl[k]]
    /\ UNCHANGED <<local, cache, dev, clock>>

-----------------------------------------------------------------------------
(* What the developer does between two builds of a builder *)

Edit(b) ==
    /\ pc[b] = "idle" \/ "live" \in Features
    /\ \E v \in Versions \ {inputs[b]} : inputs' = [inputs EXCEPT ![b] = v]
    /\ UNCHANGED <<pc, wsrc, ins, flag, checkf, match, force, shared>>

WriteForce(b, once) ==
    /\ clock < MaxStamp
    /\ clock' = clock + 1
    /\ force' = [force EXCEPT ![b] = [stamp |-> clock + 1, once |-> once]]

RemoveForce(b) ==
    /\ force' = [force EXCEPT ![b] = None]
    /\ ins' = [ins EXCEPT ![b] = None]
    /\ flag' = [flag EXCEPT ![b] = FALSE]
    /\ DelCache

\* setforce and set1force
SetForce(b) ==
    /\ pc[b] = "idle"
    /\ \E once \in BOOLEAN : WriteForce(b, once)
    /\ UNCHANGED <<pc, inputs, wsrc, ins, flag, checkf, match, cache, dl, dev>>

UnsetForce(b) ==
    /\ pc[b] = "idle"
    /\ RemoveForce(b)
    /\ UNCHANGED <<pc, inputs, wsrc, checkf, match, dev, clock>>

SetDev(b) ==
    /\ "dev" \in Features
    /\ pc[b] = "idle"
    /\ dev' = TRUE
    /\ WriteForce(b, FALSE)
    /\ UNCHANGED <<pc, inputs, wsrc, ins, flag, checkf, match, cache, dl>>

UnsetDev(b) ==
    /\ "dev" \in Features
    /\ pc[b] = "idle"
    /\ dev' = FALSE
    /\ RemoveForce(b)
    /\ UNCHANGED <<pc, inputs, wsrc, checkf, match, clock>>

\* The developer edits the source in WORKDIR, which no checksum covers.
DevEdit(b) ==
    /\ dev
    /\ pc[b] = "idle"
    /\ wsrc[b] # None
    /\ \E v \in Versions \ {wsrc[b]} : wsrc' = [wsrc EXCEPT ![b] = v]
    /\ UNCHANGED <<pc, inputs, ins, flag, checkf, match, force, shared>>

\* distclean: rm -rf WORKDIR, where all of the builder's own files are.
DistClean(b) ==
    /\ pc[b] = "idle"
    /\ wsrc' = [wsrc EXCEPT ![b] = None]
    /\ ins' = [ins EXCEPT ![b] = None]
    /\ flag' = [flag EXCEPT ![b] = FALSE]
    /\ checkf' = [checkf EXCEPT ![b] = None]
    /\ match' = [match EXCEPT ![b] = FALSE]
    /\ force' = [force EXCEPT ![b] = None]
    /\ UNCHANGED <<pc, inputs, shared>>

-----------------------------------------------------------------------------
CheckStep(b) == Check(b) \/ LocalHit(b) \/ MirrorHit(b) \/ Miss(b)
                \/ MirrorClear(b) \/ WgetOpen(b) \/ WgetDone(b)
PushStep(b)  == BuildStart(b) \/ BuildDone(b) \/ PushTar(b) \/ PushDel(b)
                \/ PushMove(b) \/ PushShort(b) \/ PushLost(b)
PullStep(b)  == PullKeep(b) \/ PullClear(b) \/ PullMiss(b)
                \/ Untar(b) \/ UntarShort(b) \/ PullFlag(b)
Make(b)      == CheckStep(b) \/ PushStep(b) \/ PullStep(b) \/ Finish(b)
User(b)      == Edit(b) \/ SetForce(b) \/ UnsetForce(b) \/ SetDev(b) \/ UnsetDev(b)
                \/ DevEdit(b) \/ DistClean(b)

Next == \E b \in Builders : Make(b) \/ Fail(b) \/ User(b)

Spec == Init /\ [][Next]_vars

\* make is started again and again, and a running make proceeds.
FairSpec == Spec /\ \A b \in Builders : WF_vars(Make(b))

-----------------------------------------------------------------------------
(* Properties *)

\* A cache file of key k is made from the version of the key, and is whole but for
\* what the mirror's download or the tar of a push left out of this very file.
KeyedFile(k, i) ==
    /\ i.ver = k.ver
    /\ i.is \in {"whole", "packed"} \/ (i.is = "loaded" /\ OnMirror(k))

\* push_cache and check_cache: while inputs only change between builds, every cache
\* file holds the image its name promises, or the part of it that its own download
\* or its own tar has left.  Whichever builders fail, are killed, remove or replace
\* files in between, what a compilation was stopped in, what a pull unpacked only
\* in part and what another version was compiled to is never pushed.
CacheSound == \A k \in Keys : cache[k] # None => KeyedFile(k, cache[k])

\* pull_cache: what tar has just unpacked is of the version of the checked key, even
\* when another builder removed or replaced files since the check, and lacks only
\* what the cache file lacks or this tar left out; or it is nothing, when the file
\* went between the test and the tar.
UnpackedIsKeyed ==
    \A b \in Builders : pc[b] = "flag" /\ ins[b] # None =>
        \/ KeyedFile(checkf[b], ins[b])
        \/ ins[b] = Partial(checkf[b].ver, "unpacked")

\* del_cache in push_cache and check_cache: a builder on its own never leaves
\* two cache files of its package, which get_one_depend_checksum would read.
OneCacheFile ==
    \A k1, k2 \in Keys : cache[k1] # None /\ cache[k2] # None => k1 = k2

\* check_cache, pull_cache: without another builder, the file of a match is
\* still there when pull wants it, whatever failed, ended early, was edited or forced.
MatchedFilePresent ==
    \A b \in Builders : pc[b] = "checked" /\ match[b] =>
        checkf[b] # None /\ cache[checkf[b]] # None

\* cachebuild: a make that completes hands on the complete image of its key,
\* whether it was built, unpacked, downloaded or found in place.
UsedIsMatched ==
    \A b \in Builders : pc[b] = "finish" => ins[b] = Whole(checkf[b].ver)

\* pull_cache: an image that a completed make hands on is that of the checked key,
\* not one that an earlier build left in the install directory.
UsedIsOfKey ==
    \A b \in Builders :
        pc[b] = "finish" /\ ins[b] # None => ins[b].ver = checkf[b].ver

\* cachebuild: a make that completes does not hand on a part of an image.
UsedIsWhole ==
    \A b \in Builders : pc[b] = "finish" /\ ins[b] # None => ins[b].is = "whole"

\* checksum and cachebuild: once the developer stops editing, the builds end up
\* with the image of the last edit, force files or not.
RebuildConverges ==
    \A b \in Builders : \A v \in Versions :
        <>[](inputs[b] = v) => []<>(pc[b] = "finish" /\ ins[b] = Whole(v))
=============================================================================
