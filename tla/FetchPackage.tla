----------------------------- MODULE FetchPackage -----------------------------
(***************************************************************************)
(* scripts/bin/fetch_package.sh: one source package is downloaded into the *)
(* shared ENV_DOWN_DIR and unpacked into the WORKDIR of each builder.  The *)
(* callers (do_fetch of scripts/core/inc.rule.mk, get_source_checksum of   *)
(* process_cache.sh) hold ENV_DOWN_DIR/lock/<package>.lock around a run.   *)
(* Method tar stands for zip too, which differs only in the command; svn   *)
(* is not modelled.  The tag or rev of a URL is a pinned revision; a URL   *)
(* with neither floats on the head of its branch.  Any command but rm and  *)
(* the echo of a checksum can fail, and a run can be killed anywhere.      *)
(***************************************************************************)
EXTENDS Integers

CONSTANTS
    Builders,   \* processes that run the script, each with its own WORKDIR
    MaxRev,     \* bound on the upstream head
    NumUrls,    \* mirrors that process_mirror.py lists for a URL
    MaxFaults,  \* bound on failing commands and killed runs
    None,       \* an absent file
    Floating    \* the revision a URL without tag and rev asks for

Revs  == 1 .. MaxRev
Wants == Revs \cup {Floating}
\* The content of an archive, a repository or a source tree.  A tar package has
\* one revision: another version of it has another name.
Trees == [rev : Revs, whole : BOOLEAN]
Part(r) == [rev |-> r, whole |-> FALSE]
Full(r) == [rev |-> r, whole |-> TRUE]

ASSUME FetchAssumption ==
    /\ MaxRev \in Nat \ {0}
    /\ NumUrls \in Nat \ {0}
    /\ MaxFaults \in Nat
    /\ None \notin Builders \cup Trees
    /\ Floating \notin Revs

VARIABLES
    method,   \* tar or git
    md5set,   \* the URL of a tar package has an md5
    head,     \* newest upstream revision
    recipe,   \* the revision the recipe asks for now
    want,     \* the revision a run was started with
    full,     \* whether a run unpacks too or only fetches
    pc,       \* what the run of each builder executes next
    lock,     \* the holder of <package>.lock
    down,     \* ENV_DOWN_DIR/<package>
    pack,     \* the archive of a git package, one file name for each revision
    sum,      \* checksrc: what was recorded of down
    src,      \* outdir/outname
    dst,      \* checkdst: the copy of checksrc made after unpacking
    urls,     \* how many URLs the download loop still has
    old,      \* rev1 of a git pull
    faults,   \* failing commands and kills so far
    \* history, which only the properties read:
    astray,   \* a run was killed while checksrc was that of another repository
    halved,   \* checksrc when a run was killed that was removing the builder's tree
    cut       \* builders whose tree was copied in part

upstream == <<method, md5set, head, recipe>>
run      == <<want, full, urls, old>>
disk     == <<down, pack, sum, src, dst>>
past     == <<astray, halved, cut>>
vars     == <<upstream, run, pc, lock, disk, faults, past>>

Stages == {"idle", "fetch", "mirror", "mwget", "url", "wget", "md5", "clone", "cloning",
           "reset", "pull", "pulled", "update", "pack", "packing", "sum", "unpack",
           "removing", "untar", "untarring", "copy", "reuse", "done"}

TypeOK ==
    /\ method \in {"tar", "git"} /\ md5set \in BOOLEAN
    /\ head \in Revs /\ recipe \in Wants
    /\ want \in [Builders -> Wants] /\ full \in [Builders -> BOOLEAN]
    /\ pc \in [Builders -> Stages] /\ lock \in Builders \cup {None}
    /\ down \in Trees \cup {None} /\ sum \in Trees \cup {None}
    /\ pack \in [Wants -> Trees \cup {None}]
    /\ src \in [Builders -> Trees \cup {None}] /\ dst \in [Builders -> Trees \cup {None}]
    /\ urls \in [Builders -> 0 .. NumUrls] /\ old \in [Builders -> Revs]
    /\ faults \in 0 .. MaxFaults /\ astray \in BOOLEAN
    /\ halved \in [Builders -> Trees \cup {None}] /\ cut \subseteq Builders

Init ==
    /\ method \in {"tar", "git"}
    /\ md5set \in BOOLEAN /\ (md5set => method = "tar")
    /\ head = 1
    /\ recipe = Floating
    /\ want = [p \in Builders |-> Floating]
    /\ full = [p \in Builders |-> FALSE]
    /\ pc = [p \in Builders |-> "idle"]
    /\ lock = None
    /\ down = None /\ sum = None
    /\ pack = [w \in Wants |-> None]
    /\ src = [p \in Builders |-> None]
    /\ dst = [p \in Builders |-> None]
    /\ urls = [p \in Builders |-> NumUrls]
    /\ old = [p \in Builders |-> 1]
    /\ faults = 0
    /\ astray = FALSE
    /\ halved = [p \in Builders |-> None] /\ cut = {}

Goto(p, from, to) ==
    /\ pc[p] = from
    /\ pc' = [pc EXCEPT ![p] = to]

Quiet == UNCHANGED <<upstream, lock, faults, past>>

\* A test of the script, which changes nothing.
Skip(p, from, to) ==
    /\ Goto(p, from, to)
    /\ UNCHANGED <<run, disk>> /\ Quiet

\* A command fails: the script goes on, at another stage or at the next one.
Fault ==
    /\ faults < MaxFaults
    /\ faults' = faults + 1
    /\ UNCHANGED <<upstream, lock, astray, halved>>

\* The script's variables end with it.
Forget(p) ==
    /\ want' = [want EXCEPT ![p] = Floating]
    /\ full' = [full EXCEPT ![p] = FALSE]
    /\ urls' = [urls EXCEPT ![p] = NumUrls]
    /\ old' = [old EXCEPT ![p] = 1]

\* The script exits, and the lock is released.
Exit(p, from) ==
    /\ Goto(p, from, "idle")
    /\ lock' = None
    /\ Forget(p)

FetchNeeded == down = None \/ sum = None
Pinned(p)   == want[p] # Floating

-----------------------------------------------------------------------------
(* flock and the first test of do_fetch *)

Start(p) ==
    /\ Goto(p, "idle", "fetch")
    /\ lock = None
    /\ lock' = p
    /\ want' = [want EXCEPT ![p] = recipe]
    /\ \E f \in BOOLEAN : full' = [full EXCEPT ![p] = f]
    /\ UNCHANGED <<upstream, urls, old, disk, faults, past>>

\* What is there is used again: an archive with the right md5, or the archive of
\* a repository that was removed.
TarReusable    == method = "tar" /\ md5set /\ down # None /\ down.whole
GitReusable(p) == /\ method = "git" /\ down = None /\ sum # None
                  /\ pack[want[p]] # None /\ pack[want[p]].whole

ReuseTar(p) ==
    /\ Skip(p, "fetch", "md5")
    /\ FetchNeeded /\ TarReusable

\* The checksrc goes after the archive is unpacked.
ReuseGit(p) ==
    /\ Goto(p, "fetch", "reuse")
    /\ FetchNeeded /\ GitReusable(p)
    /\ down' = Part(pack[want[p]].rev)
    /\ UNCHANGED <<run, pack, sum, src, dst>> /\ Quiet

ReusedGit(p) ==
    /\ Goto(p, "reuse", "clone")
    /\ down' = pack[want[p]]
    /\ sum' = None
    /\ UNCHANGED <<run, pack, src, dst>> /\ Quiet

\* tar -xf fails: both go, and what is fetched again begins with their removal.
ReuseFails(p) ==
    /\ Goto(p, "reuse", "mirror")
    /\ down' = None
    /\ pack' = [pack EXCEPT ![want[p]] = None]
    /\ sum' = None
    /\ Fault
    /\ UNCHANGED <<cut, run, src, dst>>

Refetch(p) ==
    /\ Goto(p, "fetch", "mirror")
    /\ FetchNeeded /\ ~TarReusable /\ ~GitReusable(p)
    /\ down' = None
    /\ pack' = [pack EXCEPT ![want[p]] = None]
    /\ sum' = None
    /\ UNCHANGED <<run, src, dst>> /\ Quiet

FetchPresent(p) ==
    /\ Skip(p, "fetch", IF method = "git" THEN "update" ELSE "unpack")
    /\ ~FetchNeeded

-----------------------------------------------------------------------------
(* do_fetch: the mirror server *)

Origin == IF method = "git" THEN "clone" ELSE "url"

NoMirror(p) ==
    /\ Skip(p, "mirror", Origin)

\* wget -O creates the file; a mirror may lag behind a floating head.
MirrorWget(p) ==
    /\ Goto(p, "mirror", "mwget")
    /\ \E r \in 1 .. head :
        /\ method = "tar" => r = 1
        /\ Pinned(p) => r = want[p]
        /\ IF method = "tar"
           THEN down' = Part(r) /\ pack' = pack
           ELSE pack' = [pack EXCEPT ![want[p]] = Part(r)] /\ down' = down
    /\ UNCHANGED <<run, sum, src, dst>> /\ Quiet

MirrorDone(p) ==
    /\ Goto(p, "mwget", Origin)
    /\ LET w == want[p] IN
       IF method = "tar" THEN down' = Full(down.rev) /\ pack' = pack
                         ELSE down' = Full(pack[w].rev) /\ pack' = [pack EXCEPT ![w] = down']
    /\ UNCHANGED <<run, sum, src, dst>> /\ Quiet

\* The status of this wget is not tested; md5 or tar -xf notices, if any.
MirrorTorn(p) ==
    /\ Goto(p, "mwget", Origin)
    /\ IF method = "tar" THEN down' = (IF md5set THEN None ELSE down) /\ pack' = pack
                         ELSE down' = None /\ pack' = [pack EXCEPT ![want[p]] = None]
    /\ Fault
    /\ UNCHANGED <<cut, run, sum, src, dst>>

-----------------------------------------------------------------------------
(* do_fetch of a tar package: the URLs, md5 *)

UrlPresent(p) ==
    /\ Skip(p, "url", "md5")
    /\ down # None

UrlWget(p) ==
    /\ Goto(p, "url", "wget")
    /\ down = None /\ urls[p] > 0
    /\ down' = Part(1)
    /\ urls' = [urls EXCEPT ![p] = @ - 1]
    /\ UNCHANGED <<want, full, old, pack, sum, src, dst>> /\ Quiet

UrlDone(p) ==
    /\ Goto(p, "wget", "md5")
    /\ down' = Full(1)
    /\ UNCHANGED <<run, pack, sum, src, dst>> /\ Quiet

\* The server answers with something else, which is no archive.
UrlWrong(p) ==
    /\ Goto(p, "wget", "md5")
    /\ Fault
    /\ UNCHANGED <<cut, run, disk>>

UrlFail(p) ==
    /\ Goto(p, "wget", "url")
    /\ down' = None
    /\ Fault
    /\ UNCHANGED <<cut, run, pack, sum, src, dst>>

UrlsUsedUp(p) ==
    /\ Exit(p, "url")
    /\ down = None /\ urls[p] = 0
    /\ UNCHANGED <<upstream, disk, faults, past>>

Md5Good(p) ==
    /\ Goto(p, "md5", "unpack")
    /\ md5set => down.whole
    /\ sum' = down
    /\ UNCHANGED <<run, down, pack, src, dst>> /\ Quiet

Md5Bad(p) ==
    /\ Exit(p, "md5")
    /\ md5set /\ ~down.whole
    /\ down' = None
    /\ UNCHANGED <<upstream, pack, sum, src, dst, faults, past>>

-----------------------------------------------------------------------------
(* do_fetch of a git package whose repository or checksrc was missing *)

CloneSkip(p) ==
    /\ Skip(p, "clone", IF Pinned(p) THEN "sum" ELSE "pull")
    /\ pack[want[p]] # None

CloneStart(p) ==
    /\ Goto(p, "clone", "cloning")
    /\ pack[want[p]] = None
    /\ down' = Part(head)
    /\ UNCHANGED <<run, pack, sum, src, dst>> /\ Quiet

\* Error variant: the new repository stays at its head.
CloneKeepsHead(p) ==
    /\ Goto(p, "cloning", "pack")
    /\ down' = Full(down.rev)
    /\ UNCHANGED <<run, pack, sum, src, dst>> /\ Quiet

CloneDone(p) ==
    /\ Goto(p, "cloning", IF Pinned(p) THEN "reset" ELSE "pack")
    /\ down' = Full(down.rev)
    /\ UNCHANGED <<run, pack, sum, src, dst>> /\ Quiet

CloneFail(p) ==
    /\ Exit(p, "cloning")
    /\ down' = None
    /\ faults < MaxFaults /\ faults' = faults + 1
    /\ UNCHANGED <<upstream, pack, sum, src, dst, past>>

\* git checkout or git reset --hard of the branch, tag or rev
ResetDone(p) ==
    /\ Goto(p, "reset", "pack")
    /\ down' = Full(want[p])
    /\ UNCHANGED <<run, pack, sum, src, dst>> /\ Quiet

ResetFail(p) ==
    /\ Exit(p, "reset")
    /\ faults < MaxFaults /\ faults' = faults + 1
    /\ UNCHANGED <<upstream, disk, past>>

-----------------------------------------------------------------------------
(* do_fetch of a git package that is there: the update *)

\* A pinned repository at another revision loses its archive and checksrc first.
Update(p) ==
    /\ pc[p] = "update"
    /\ IF ~Pinned(p) \/ down.rev = want[p]
       THEN /\ pc' = [pc EXCEPT ![p] = IF ~Pinned(p) THEN "pull"
                                       ELSE IF pack[want[p]] = None THEN "pack" ELSE "unpack"]
            /\ UNCHANGED <<pack, sum>>
       ELSE /\ pc' = [pc EXCEPT ![p] = "reset"]
            /\ pack' = [pack EXCEPT ![want[p]] = None]
            /\ sum' = None
    /\ UNCHANGED <<run, down, src, dst>> /\ Quiet

\* rev1; git pull; its status is not tested.  It brings back no file that is missing.
PullDone(p) ==
    /\ Goto(p, "pull", "pulled")
    /\ old' = [old EXCEPT ![p] = down.rev]
    /\ down' = [down EXCEPT !.rev = head]
    /\ UNCHANGED <<want, full, urls, pack, sum, src, dst>> /\ Quiet

PullFail(p) ==
    /\ Goto(p, "pull", "pulled")
    /\ old' = [old EXCEPT ![p] = down.rev]
    /\ Fault
    /\ UNCHANGED <<cut, want, full, urls, disk>>

\* Error variant: the checksrc of the old revision stays.
PulledKeepsSum(p) ==
    /\ pc[p] = "pulled"
    /\ pc' = [pc EXCEPT ![p] = IF pack[want[p]] = None THEN "pack"
                               ELSE IF sum = None THEN "sum" ELSE "unpack"]
    /\ UNCHANGED <<run, disk>> /\ Quiet

\* rev2: only a pull that moved the head outdates the archive and checksrc.
Pulled(p) ==
    /\ pc[p] = "pulled"
    /\ IF down.rev # old[p]
       THEN /\ pack' = [pack EXCEPT ![want[p]] = None]
            /\ sum' = None
       ELSE UNCHANGED <<pack, sum>>
    /\ pc' = [pc EXCEPT ![p] = IF pack'[want[p]] = None THEN "pack"
                               ELSE IF sum = None THEN "sum" ELSE "unpack"]
    /\ UNCHANGED <<run, down, src, dst>> /\ Quiet

\* tar -zcf creates the archive under its final name.
PackStart(p) ==
    /\ Goto(p, "pack", "packing")
    /\ pack' = [pack EXCEPT ![want[p]] = Part(down.rev)]
    /\ UNCHANGED <<run, down, sum, src, dst>> /\ Quiet

PackDone(p) ==
    /\ Goto(p, "packing", "sum")
    /\ pack' = [pack EXCEPT ![want[p]] = down]
    /\ UNCHANGED <<run, down, sum, src, dst>> /\ Quiet

\* tar -zcf fails, which is not tested.
PackFails(p) ==
    /\ Goto(p, "packing", "sum")
    /\ Fault
    /\ UNCHANGED <<cut, run, disk>>

Sum(p) ==
    /\ Goto(p, "sum", "unpack")
    /\ sum' = down
    /\ UNCHANGED <<run, down, pack, src, dst>> /\ Quiet

-----------------------------------------------------------------------------
(* do_unpack *)

Unpacked(p) == src[p] # None /\ dst[p] # None /\ sum = dst[p]

UnpackSkip(p) ==
    /\ Skip(p, "unpack", "done")
    /\ ~full[p] \/ Unpacked(p)

\* rm -rf of the old tree, and then of its checkdst
UnpackStart(p) ==
    /\ Goto(p, "unpack", "removing")
    /\ full[p] /\ ~Unpacked(p)
    /\ src' = [src EXCEPT ![p] = IF @ = None THEN None ELSE Part(@.rev)]
    /\ UNCHANGED <<run, down, pack, sum, dst>> /\ Quiet

\* There is no tree any more of which a part could be left.
NoTree(p) ==
    /\ src' = [src EXCEPT ![p] = None]
    /\ halved' = [halved EXCEPT ![p] = None]
    /\ cut' = cut \ {p}

\* Error variant: the checkdst of the tree that is replaced stays.
RemovedKeepsDst(p) ==
    /\ Goto(p, "removing", "untar")
    /\ NoTree(p)
    /\ UNCHANGED <<upstream, run, lock, down, pack, sum, dst, faults, astray>>

Removed(p) ==
    /\ Goto(p, "removing", "untar")
    /\ NoTree(p)
    /\ dst' = [dst EXCEPT ![p] = None]
    /\ UNCHANGED <<upstream, run, lock, down, pack, sum, faults, astray>>

\* Error variant: a broken archive is reported, and kept.
UntarKeepsBroken(p) ==
    /\ Exit(p, "untar")
    /\ method = "tar" /\ ~down.whole
    /\ src' = [src EXCEPT ![p] = down]
    /\ UNCHANGED <<upstream, down, pack, sum, dst, faults, past>>

\* A broken archive is removed with its checksrc.
UntarBroken(p) ==
    /\ Exit(p, "untar")
    /\ method = "tar" /\ ~down.whole
    /\ src' = [src EXCEPT ![p] = down]
    /\ down' = None
    /\ sum' = None
    /\ UNCHANGED <<upstream, pack, dst, faults, past>>

\* tar -xf fails although nothing is wrong with the archive, which is removed too.
UntarFails(p) ==
    /\ Exit(p, "untar")
    /\ method = "tar" /\ down.whole
    /\ src' = [src EXCEPT ![p] = Part(down.rev)]
    /\ down' = None
    /\ sum' = None
    /\ faults < MaxFaults /\ faults' = faults + 1
    /\ UNCHANGED <<upstream, pack, dst, past>>

UntarStart(p) ==
    /\ Goto(p, "untar", "untarring")
    /\ method = "git" \/ down.whole
    /\ src' = [src EXCEPT ![p] = Part(down.rev)]
    /\ UNCHANGED <<run, down, pack, sum, dst>> /\ Quiet

\* The copy of a repository that was left in part is one.
UntarDone(p) ==
    /\ Goto(p, "untarring", "copy")
    /\ src' = [src EXCEPT ![p] = down]
    /\ cut' = IF astray /\ ~down.whole THEN cut \cup {p} ELSE cut
    /\ UNCHANGED <<upstream, run, lock, down, pack, sum, dst, faults, astray, halved>>

\* cp -rfp of a repository fails, which is not tested: a part is there, or nothing.
CopyFails(p) ==
    /\ Goto(p, "untarring", "copy")
    /\ method = "git"
    /\ \E t \in {None, Part(down.rev)} : src' = [src EXCEPT ![p] = t]
    /\ cut' = cut \cup {p}
    /\ Fault
    /\ UNCHANGED <<run, down, pack, sum, dst>>

CopySum(p) ==
    /\ Goto(p, "copy", "done")
    /\ dst' = [dst EXCEPT ![p] = sum]
    /\ UNCHANGED <<run, down, pack, sum, src>> /\ Quiet

Done(p) ==
    /\ Exit(p, "done")
    /\ UNCHANGED <<upstream, disk, faults, past>>

-----------------------------------------------------------------------------
(* The run is killed; the developer and the world outside *)

Kill(p) ==
    /\ pc[p] \notin {"idle", "done"}
    /\ pc' = [pc EXCEPT ![p] = "idle"]
    /\ lock' = None
    /\ Forget(p)
    /\ faults < MaxFaults /\ faults' = faults + 1
    /\ astray' = (astray \/ pc[p] = "reuse"
                         \/ (pc[p] = "pulled" /\ down.rev # old[p] /\ sum # None))
    /\ halved' = [halved EXCEPT ![p] = IF pc[p] = "removing" /\ src[p] # None THEN sum ELSE @]
    /\ UNCHANGED <<upstream, disk, cut>>

\* Someone pushes to the repository.
Commit ==
    /\ method = "git" /\ head < MaxRev
    /\ head' = head + 1
    /\ UNCHANGED <<method, md5set, recipe, run, pc, lock, disk, faults, past>>

\* The recipe asks for another revision.
EditRecipe ==
    /\ method = "git"
    /\ recipe' \in ((1 .. head) \cup {Floating}) \ {recipe}
    /\ UNCHANGED <<method, md5set, head, run, pc, lock, disk, faults, past>>

\* distclean removes WORKDIR, where outdir is.
DistClean(p) ==
    /\ pc[p] = "idle" /\ src[p] # None
    /\ NoTree(p)
    /\ dst' = [dst EXCEPT ![p] = None]
    /\ UNCHANGED <<upstream, run, pc, lock, down, pack, sum, faults, astray>>

\* Someone removes the repository or the download, as nothing else uses it.
RemoveDown ==
    /\ lock = None /\ down # None
    /\ down' = None
    /\ UNCHANGED <<upstream, run, pc, lock, pack, sum, src, dst, faults, past>>

-----------------------------------------------------------------------------
Begin(p)   == Start(p) \/ ReuseTar(p) \/ ReuseGit(p) \/ ReusedGit(p) \/ ReuseFails(p)
              \/ Refetch(p) \/ FetchPresent(p)
Mirror(p)  == NoMirror(p) \/ MirrorWget(p) \/ MirrorDone(p) \/ MirrorTorn(p)
Url(p)     == UrlPresent(p) \/ UrlWget(p) \/ UrlDone(p) \/ UrlWrong(p) \/ UrlFail(p)
              \/ UrlsUsedUp(p) \/ Md5Good(p) \/ Md5Bad(p)
Clone(p)   == CloneSkip(p) \/ CloneStart(p) \/ CloneDone(p) \/ CloneFail(p)
              \/ ResetDone(p) \/ ResetFail(p)
Refresh(p) == Update(p) \/ PullDone(p) \/ PullFail(p) \/ Pulled(p) \/ PackStart(p)
              \/ PackDone(p) \/ PackFails(p) \/ Sum(p)
Unpack(p)  == UnpackSkip(p) \/ UnpackStart(p) \/ Removed(p) \/ UntarBroken(p) \/ UntarFails(p)
              \/ UntarStart(p) \/ UntarDone(p) \/ CopyFails(p) \/ CopySum(p) \/ Done(p)
Script(p)  == Begin(p) \/ Mirror(p) \/ Url(p) \/ Clone(p) \/ Refresh(p) \/ Unpack(p)

Next ==
    \/ \E p \in Builders : Script(p) \/ Kill(p) \/ DistClean(p)
    \/ Commit \/ EditRecipe \/ RemoveDown

Spec == Init /\ [][Next]_vars

\* A build is started again when it failed, and flock lets every waiting run in.
Fairness == \A p \in Builders : SF_vars(Start(p)) /\ WF_vars(Script(p))
FairSpec == Spec /\ Fairness

-----------------------------------------------------------------------------
(* Properties *)

\* What the script cannot notice of a tree: that a cp of a repository failed, or copied
\* one that was left in part; and, of a tree that a killed run had begun to remove, that
\* checksrc is again what it was when that tree was unpacked.
Spoiled(p) == p \in cut \/ (halved[p] # None /\ sum # halved[p])

\* do_unpack: whatever was torn, failed, killed or updated before, a source tree that the
\* next run may take as it is, is complete, but for a cp that failed.  A tree that a killed
\* run has half removed is not taken as long as checksrc is the one it was removed for.
UnpackedWhole ==
    \A p \in Builders : Unpacked(p) /\ ~Spoiled(p) => src[p].whole

\* do_fetch, do_unpack: a run that ends hands on the tree of the revision the
\* recipe pinned, or of the repository as it is for a floating one.  The exceptions are
\* a run killed between a git pull and the removal of checksrc or while it unpacks a git
\* archive again, and the trees that the script cannot judge.
HandsOnWanted ==
    \A p \in Builders : pc[p] = "done" /\ full[p] /\ ~astray /\ ~Spoiled(p) =>
        /\ src[p] = down
        /\ method = "git" /\ Pinned(p) => src[p].rev = want[p]

\* git packages: an archive has the revision in its name, whoever wrote it: what
\* the mirror server hands on under that name.
ArchiveIsNamed ==
    \A r \in Revs : pack[r] # None => pack[r].rev = r

\* For every builder some run ends well again, tar and git packages alike: torn downloads,
\* wrong files and killed runs never leave a state from which a repeated run keeps failing.
Recovers == \A p \in Builders : []<>(pc[p] = "done")
=============================================================================
