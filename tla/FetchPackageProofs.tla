------------------------- MODULE FetchPackageProofs -------------------------
(***************************************************************************)
(* What TLAPS proves about fetch_package.sh, for any builders, revisions,  *)
(* mirrors and faults.                                                     *)
(***************************************************************************)
EXTENDS FetchPackage, TLAPS

\* The lock: who is in the script holds it.
Exclusive == \A p \in Builders : pc[p] # "idle" => lock = p

TarStages   == {"url", "wget", "md5"}
GitStages   == {"clone", "cloning", "reset", "pull", "pulled", "update", "pack", "packing",
                "sum", "reuse"}
Fetching    == {"mirror", "mwget", "clone", "cloning", "reset"} \cup TarStages
UnpackStages == {"unpack", "removing", "untar", "untarring", "copy", "done"}
HasDown     == UnpackStages \cup {"wget", "md5", "cloning", "reset", "pull", "pulled", "update",
                                  "pack", "packing", "sum"}

Method(p) == /\ pc[p] \in TarStages => method = "tar"
             /\ pc[p] \in GitStages => method = "git"

\* What a stage may rely on being there: the command of the stage reads it.
Present(p) ==
    /\ pc[p] \in HasDown => down # None
    /\ pc[p] \in Fetching => sum = None
    /\ pc[p] \in UnpackStages \cup {"update"} => sum # None
    /\ pc[p] = "mirror" => pack[want[p]] = None
    /\ pc[p] = "mwget" => IF method = "tar" THEN down # None ELSE pack[want[p]] # None
    /\ pc[p] = "reuse" => pack[want[p]] # None /\ pack[want[p]].whole
    /\ pc[p] = "clone" /\ pack[want[p]] # None => down = pack[want[p]] /\ down.whole

\* A pinned repository is at its revision before it is packed or unpacked.
AtWanted(p) ==
    /\ pc[p] = "reset" => Pinned(p)
    /\ pc[p] \in {"pull", "pulled"} => ~Pinned(p)
    /\ pc[p] \in UnpackStages \cup {"pack", "packing", "sum"} /\ method = "git" /\ Pinned(p) =>
         down.rev = want[p]

\* checksrc is the checksum of the download, but between two steps of a run: a run
\* that is killed there goes astray.
Recorded ==
    ~astray /\ sum # None /\ down # None /\ (\A p \in Builders : pc[p] \notin {"reuse", "pulled"}) =>
        sum = down
Whole(p) ==
    ~astray =>
        /\ pc[p] \in {"reset", "pull", "pulled", "pack", "packing", "sum"} => down.whole
        /\ pc[p] = "pulled" /\ sum # None => sum = Full(old[p])
        /\ pc[p] \in {"untarring", "copy"} => down.whole
SumWhole == ~astray /\ method = "git" /\ sum # None => sum.whole

\* checkdst is the checksum of the unpacked tree, which is complete, but where a cp
\* failed or a removal was killed.
Intact(p) == p \notin cut /\ halved[p] = None
Copied(p) ==
    /\ pc[p] # "removing" /\ src[p] # None /\ dst[p] # None /\ Intact(p) =>
         src[p].whole /\ (~astray => src[p] = dst[p])
    /\ pc[p] = "removing" => ~Unpacked(p)
    /\ pc[p] \in {"untar", "untarring", "copy"} => dst[p] = None /\ halved[p] = None
    /\ pc[p] = "copy" => p \in cut \/ (src[p] = down /\ down.whole)
    /\ pc[p] = "done" /\ full[p] /\ ~astray => src[p] = down \/ Spoiled(p)

\* Of a tree that is removed checkdst is not checksrc; nor is it what checksrc was
\* when the removal was killed.
Halved(p) ==
    halved[p] # None => dst[p] # halved[p] /\ (pc[p] = "done" /\ full[p] => sum # halved[p])

StageInv(p) == Method(p) /\ Present(p) /\ AtWanted(p) /\ Whole(p) /\ Copied(p) /\ Halved(p)

FetchInv ==
    /\ TypeOK
    /\ Exclusive
    /\ ArchiveIsNamed
    /\ Recorded
    /\ SumWhole
    /\ \A p \in Builders : StageInv(p)

\* What concerns the builder that holds the lock.
RecordedFor(p) ==
    ~astray /\ sum # None /\ down # None /\ pc[p] \notin {"reuse", "pulled"} => sum = down
Own(p) == StageInv(p) /\ ArchiveIsNamed /\ SumWhole /\ RecordedFor(p)

-----------------------------------------------------------------------------
LEMMA TreeFacts ==
  ASSUME FetchAssumption
  PROVE  /\ \A r \in Revs : /\ Part(r) \in Trees /\ Full(r) \in Trees
                            /\ Part(r).rev = r /\ Full(r).rev = r
                            /\ ~Part(r).whole /\ Full(r).whole
         /\ \A t \in Trees : t # None /\ t.rev \in Revs /\ (t.whole => t = Full(t.rev))
         /\ Floating \notin Revs
         /\ \A p \in Builders : p # None
BY DEF FetchAssumption, Trees, Part, Full

LEMMA BeginKeeps ==
  ASSUME FetchAssumption, TypeOK, NEW p \in Builders, Own(p), Begin(p)
  PROVE  TypeOK' /\ Own(p)'
<1> USE TreeFacts DEF TypeOK, Wants, Stages, Own, StageInv, Method, Present, AtWanted, Whole, Copied,
        Intact, Spoiled, Halved, past, SumWhole, RecordedFor, ArchiveIsNamed, TarStages, GitStages, Fetching, UnpackStages,
        HasDown, Pinned, Unpacked, Goto, Skip, Quiet, Fault, Exit, Forget, upstream, run, disk
<1>1. CASE Start(p) BY <1>1 DEF Start
<1>2. CASE ReuseTar(p) BY <1>2 DEF ReuseTar, FetchNeeded, TarReusable
<1>3. CASE ReuseGit(p) BY <1>3 DEF ReuseGit, FetchNeeded, GitReusable
<1>4. CASE ReusedGit(p) BY <1>4 DEF ReusedGit
<1>5. CASE Refetch(p) BY <1>5 DEF Refetch, FetchNeeded
<1>6. CASE FetchPresent(p) BY <1>6 DEF FetchPresent, FetchNeeded
<1>7. CASE ReuseFails(p) BY <1>7 DEF ReuseFails, FetchAssumption
<1> QED BY <1>1, <1>2, <1>3, <1>4, <1>5, <1>6, <1>7 DEF Begin

LEMMA MirrorKeeps ==
  ASSUME FetchAssumption, TypeOK, NEW p \in Builders, Own(p), Mirror(p)
  PROVE  TypeOK' /\ Own(p)'
<1> USE TreeFacts DEF TypeOK, Wants, Stages, Own, StageInv, Method, Present, AtWanted, Whole, Copied,
        Intact, Spoiled, Halved, past, SumWhole, RecordedFor, ArchiveIsNamed, TarStages, GitStages, Fetching, UnpackStages,
        HasDown, Pinned, Unpacked, Goto, Skip, Quiet, Fault, Exit, Forget, upstream, run, disk
<1>1. CASE NoMirror(p) BY <1>1 DEF NoMirror, Origin
<1>2. CASE MirrorWget(p)
  <2> USE <1>2 DEF MirrorWget
  <2>1. PICK r \in 1 .. head :
          /\ method = "tar" => r = 1
          /\ Pinned(p) => r = want[p]
          /\ IF method = "tar"
             THEN down' = Part(r) /\ pack' = pack
             ELSE pack' = [pack EXCEPT ![want[p]] = Part(r)] /\ down' = down
    OBVIOUS
  <2>2. r \in Revs BY <2>1 DEF Revs
  <2>3. down' \in Trees \cup {None} /\ pack' \in [Wants -> Trees \cup {None}]
    <3>1. CASE method = "tar" BY <2>1, <2>2, <3>1
    <3>2. CASE method # "tar"
      <4>1. Part(r) \in Trees /\ want[p] \in Wants BY <2>2
      <4> QED BY <2>1, <3>2, <4>1
    <3> QED BY <3>1, <3>2
  <2>4. TypeOK' BY <2>3
  <2>5. Own(p)' BY <2>1, <2>2
  <2> QED BY <2>4, <2>5
<1>3. CASE MirrorDone(p) BY <1>3, SMTT(30) DEF MirrorDone, Origin
<1>4. CASE MirrorTorn(p)
  <2> USE <1>4 DEF MirrorTorn, Origin, FetchAssumption
  <2>1. CASE method = "tar" BY <2>1
  <2>2. CASE method = "git"
    <3>1. TypeOK' BY <2>2
    <3>2. (SumWhole /\ RecordedFor(p) /\ ArchiveIsNamed)' BY <2>2
    <3>3. (Method(p) /\ Present(p) /\ AtWanted(p) /\ Whole(p))' BY <2>2
    <3>4. (Copied(p) /\ Halved(p))' BY <2>2
    <3> QED BY <3>1, <3>2, <3>3, <3>4
  <2> QED BY <2>1, <2>2
<1> QED BY <1>1, <1>2, <1>3, <1>4 DEF Mirror

LEMMA UrlKeeps ==
  ASSUME FetchAssumption, TypeOK, NEW p \in Builders, Own(p), Url(p)
  PROVE  TypeOK' /\ Own(p)'
<1> USE TreeFacts DEF TypeOK, Wants, Stages, Own, StageInv, Method, Present, AtWanted, Whole, Copied,
        Intact, Spoiled, Halved, past, SumWhole, RecordedFor, ArchiveIsNamed, TarStages, GitStages, Fetching, UnpackStages,
        HasDown, Pinned, Unpacked, Goto, Skip, Quiet, Fault, Exit, Forget, upstream, run, disk
<1>1. CASE UrlPresent(p) BY <1>1 DEF UrlPresent
<1>2. CASE UrlWget(p) BY <1>2 DEF UrlWget, Revs, FetchAssumption
<1>3. CASE UrlDone(p) BY <1>3 DEF UrlDone, Revs, FetchAssumption
<1>4. CASE UrlWrong(p) BY <1>4 DEF UrlWrong, FetchAssumption
<1>5. CASE UrlFail(p) BY <1>5 DEF UrlFail, FetchAssumption
<1>6. CASE UrlsUsedUp(p) BY <1>6 DEF UrlsUsedUp, Revs, FetchAssumption
<1>7. CASE Md5Good(p) BY <1>7 DEF Md5Good
<1>8. CASE Md5Bad(p) BY <1>8 DEF Md5Bad, Revs, FetchAssumption
<1> QED BY <1>1, <1>2, <1>3, <1>4, <1>5, <1>6, <1>7, <1>8 DEF Url

LEMMA CloneKeeps ==
  ASSUME FetchAssumption, TypeOK, NEW p \in Builders, Own(p), Clone(p)
  PROVE  TypeOK' /\ Own(p)'
<1> USE TreeFacts DEF TypeOK, Wants, Stages, Own, StageInv, Method, Present, AtWanted, Whole, Copied,
        Intact, Spoiled, Halved, past, SumWhole, RecordedFor, ArchiveIsNamed, TarStages, GitStages, Fetching, UnpackStages,
        HasDown, Pinned, Unpacked, Goto, Skip, Quiet, Fault, Exit, Forget, upstream, run, disk
<1>1. CASE CloneSkip(p) BY <1>1 DEF CloneSkip
<1>2. CASE CloneStart(p) BY <1>2 DEF CloneStart
<1>3. CASE CloneDone(p) BY <1>3 DEF CloneDone
<1>4. CASE CloneFail(p) BY <1>4 DEF CloneFail, Revs, FetchAssumption
<1>5. CASE ResetDone(p) BY <1>5 DEF ResetDone
<1>6. CASE ResetFail(p) BY <1>6 DEF ResetFail, Revs, FetchAssumption
<1> QED BY <1>1, <1>2, <1>3, <1>4, <1>5, <1>6 DEF Clone

LEMMA RefreshKeeps ==
  ASSUME FetchAssumption, TypeOK, NEW p \in Builders, Own(p), Refresh(p)
  PROVE  TypeOK' /\ Own(p)'
<1> USE TreeFacts DEF TypeOK, Wants, Stages, Own, StageInv, Method, Present, AtWanted, Whole, Copied,
        Intact, Spoiled, Halved, past, SumWhole, RecordedFor, ArchiveIsNamed, TarStages, GitStages, Fetching, UnpackStages,
        HasDown, Pinned, Unpacked, Goto, Skip, Quiet, Fault, Exit, Forget, upstream, run, disk
<1>1. CASE Update(p)
  <2> USE <1>1 DEF Update
  <2>1. CASE ~Pinned(p) \/ down.rev = want[p]
    <3>1. TypeOK' BY <2>1
    <3>2. (SumWhole /\ RecordedFor(p) /\ ArchiveIsNamed)' BY <2>1
    <3>3. (Method(p) /\ Present(p) /\ AtWanted(p) /\ Whole(p))' BY <2>1
    <3>4. (Copied(p) /\ Halved(p))' BY <2>1
    <3> QED BY <3>1, <3>2, <3>3, <3>4
  <2>2. CASE Pinned(p) /\ down.rev # want[p]
    <3>1. /\ pc' = [pc EXCEPT ![p] = "reset"] /\ pack' = [pack EXCEPT ![want[p]] = None] /\ sum' = None
          /\ pc[p] = "update" /\ down' = down /\ src' = src /\ dst' = dst
      BY <2>2
    <3>2. TypeOK' BY <3>1
    <3>3. (SumWhole /\ RecordedFor(p) /\ ArchiveIsNamed)' BY <3>1
    <3>4. (Method(p) /\ Present(p) /\ AtWanted(p) /\ Halved(p))' BY <2>2, <3>1
    <3>5. Whole(p)' /\ Copied(p)' BY <3>1
    <3> QED BY <3>2, <3>3, <3>4, <3>5
  <2> QED BY <2>1, <2>2
<1>2. CASE PullDone(p)
  <2> USE <1>2 DEF PullDone
  <2>1. down \in Trees /\ down.rev \in Revs BY DEF Trees
  <2>2. down' \in Trees /\ down'.rev = head /\ down'.whole = down.whole BY <2>1 DEF Trees
  <2>3. TypeOK' BY <2>1, <2>2
  <2>4. pc'[p] = "pulled" /\ pc[p] = "pull" OBVIOUS
  <2>5. (SumWhole /\ RecordedFor(p) /\ ArchiveIsNamed)' BY <2>4
  <2>6. (Method(p) /\ Present(p) /\ AtWanted(p) /\ Copied(p) /\ Halved(p))' BY <2>2, <2>4
  <2>7. ~astray /\ sum # None => sum = Full(old'[p]) BY <2>1, <2>4
  <2>8. Whole(p)' BY <2>2, <2>4, <2>7
  <2> QED BY <2>3, <2>5, <2>6, <2>8
<1>3. CASE PullFail(p) BY <1>3 DEF PullFail, FetchAssumption
<1>4. CASE Pulled(p) BY <1>4 DEF Pulled
<1>5. CASE PackStart(p) BY <1>5 DEF PackStart
<1>6. CASE PackDone(p) BY <1>6 DEF PackDone
<1>7. CASE Sum(p) BY <1>7 DEF Sum
<1>8. CASE PackFails(p) BY <1>8 DEF PackFails, FetchAssumption
<1> QED BY <1>1, <1>2, <1>3, <1>4, <1>5, <1>6, <1>7, <1>8 DEF Refresh

LEMMA UnpackKeeps ==
  ASSUME FetchAssumption, TypeOK, NEW p \in Builders, Own(p), Unpack(p)
  PROVE  TypeOK' /\ Own(p)'
<1> USE TreeFacts DEF TypeOK, Wants, Stages, Own, StageInv, Method, Present, AtWanted, Whole, Copied,
        Intact, Spoiled, Halved, past, SumWhole, RecordedFor, ArchiveIsNamed, TarStages, GitStages, Fetching, UnpackStages,
        HasDown, Pinned, Unpacked, Goto, Skip, Quiet, Fault, Exit, Forget, upstream, run, disk
<1>1. CASE UnpackSkip(p) BY <1>1 DEF UnpackSkip
<1>2. CASE UnpackStart(p) BY <1>2 DEF UnpackStart
<1>3. CASE Removed(p) BY <1>3 DEF Removed, NoTree
<1>4. CASE UntarBroken(p) BY <1>4 DEF UntarBroken, Revs, FetchAssumption
<1>5. CASE UntarStart(p) BY <1>5 DEF UntarStart
<1>6. CASE UntarDone(p) BY <1>6 DEF UntarDone
<1>7. CASE CopySum(p) BY <1>7 DEF CopySum
<1>8. CASE Done(p) BY <1>8 DEF Done, Revs, FetchAssumption
<1>9. CASE UntarFails(p) BY <1>9 DEF UntarFails, Revs, FetchAssumption
<1>10. CASE CopyFails(p) BY <1>10 DEF CopyFails, FetchAssumption
<1> QED BY <1>1, <1>2, <1>3, <1>4, <1>5, <1>6, <1>7, <1>8, <1>9, <1>10 DEF Unpack

LEMMA KillKeeps ==
  ASSUME FetchAssumption, TypeOK, NEW p \in Builders, Own(p), Kill(p)
  PROVE  TypeOK' /\ Own(p)'
<1> USE DEF Kill, Forget, upstream, disk
<1>1. TypeOK'
  <2>1. 1 \in Revs /\ NumUrls \in 0 .. NumUrls /\ faults' \in 0 .. MaxFaults
    BY DEF FetchAssumption, Revs, TypeOK
  <2>2. Floating \in Wants /\ "idle" \in Stages BY DEF Wants, Stages
  <2>3. halved' \in [Builders -> Trees \cup {None}] BY DEF TypeOK
  <2> QED BY <2>1, <2>2, <2>3 DEF TypeOK
<1>2. pc'[p] = "idle" BY DEF TypeOK
<1>3. RecordedFor(p)'
  <2>1. CASE pc[p] = "pulled"
    <3>1. SUFFICES ASSUME ~astray', sum # None, down # None PROVE sum = down
      BY DEF RecordedFor
    <3>2. down.rev = old[p] /\ down.whole /\ sum = Full(old[p])
      BY <2>1, <3>1 DEF Own, StageInv, Whole
    <3> QED BY <3>1, <3>2, TreeFacts DEF TypeOK
  <2>2. CASE pc[p] # "pulled" BY <2>2 DEF Own, RecordedFor
  <2> QED BY <2>1, <2>2
<1>4. StageInv(p)'
  <2>1. CASE pc[p] = "removing" /\ src[p] # None
    <3>1. halved'[p] = sum /\ sum # None /\ dst[p] # sum
      BY <2>1 DEF Own, StageInv, Present, Copied, Unpacked, UnpackStages, TypeOK
    <3> QED BY <1>2, <3>1 DEF Own, StageInv, Method, Present, AtWanted, Whole, Copied, Intact,
              Halved, TarStages, GitStages, Fetching, UnpackStages, HasDown
  <2>2. CASE ~(pc[p] = "removing" /\ src[p] # None)
    <3>1. halved'[p] = halved[p] BY <2>2 DEF TypeOK
    <3> QED BY <1>2, <2>2, <3>1 DEF Own, StageInv, Method, Present, AtWanted, Whole, Copied, Intact,
              Halved, TarStages, GitStages, Fetching, UnpackStages, HasDown
  <2> QED BY <2>1, <2>2
<1>5. (ArchiveIsNamed /\ SumWhole)' BY DEF Own, ArchiveIsNamed, SumWhole
<1> QED BY <1>1, <1>3, <1>4, <1>5 DEF Own

-----------------------------------------------------------------------------
\* What a step of builder p leaves alone: the stages and trees of the others; and
\* it is a step of the holder of the lock, or takes the lock.
Frame(p) ==
    /\ pc' = [pc EXCEPT ![p] = pc'[p]]
    /\ src' = [src EXCEPT ![p] = src'[p]]
    /\ dst' = [dst EXCEPT ![p] = dst'[p]]
    /\ halved' = [halved EXCEPT ![p] = halved'[p]]
    /\ cut' \ {p} = cut \ {p}
    /\ pc[p] = "idle" => lock = None
    /\ pc'[p] # "idle" => lock' = IF pc[p] = "idle" THEN p ELSE lock
    /\ astray => astray'

LEMMA StepFrame ==
  ASSUME TypeOK, NEW p \in Builders, Script(p) \/ Kill(p)
  PROVE  Frame(p)
<1> USE DEF Frame, TypeOK, Stages, Goto, Skip, Quiet, Fault, Exit, Forget, upstream, run, disk,
        past
<1>1. CASE Begin(p)
  BY <1>1 DEF Begin, Start, ReuseTar, ReuseGit, ReusedGit, ReuseFails, Refetch, FetchPresent
<1>2. CASE Mirror(p)
  BY <1>2 DEF Mirror, NoMirror, Origin, MirrorWget, MirrorDone, MirrorTorn
<1>3. CASE Url(p)
  BY <1>3 DEF Url, UrlPresent, UrlWget, UrlDone, UrlWrong, UrlFail, UrlsUsedUp,
     Md5Good, Md5Bad
<1>4. CASE Clone(p)
  BY <1>4 DEF Clone, CloneSkip, CloneStart, CloneDone, CloneFail, ResetDone, ResetFail
<1>5. CASE Refresh(p)
  BY <1>5 DEF Refresh, Update, PullDone, PullFail, Pulled, PackStart, PackDone, PackFails,
     Sum
<1>6. CASE Unpack(p)
  BY <1>6 DEF Unpack, UnpackSkip, UnpackStart, Removed, NoTree, UntarBroken,
     UntarFails, UntarStart, UntarDone, CopyFails, CopySum, Done
<1>7. CASE Kill(p) BY <1>7 DEF Kill
<1> QED BY <1>1, <1>2, <1>3, <1>4, <1>5, <1>6, <1>7 DEF Script

\* The holder of the lock is alone: all others are idle.
LEMMA Alone ==
  ASSUME FetchAssumption, FetchInv, NEW p \in Builders, pc[p] # "idle" \/ lock = None
  PROVE  Own(p) /\ \A q \in Builders \ {p} : pc[q] = "idle"
<1>1. \A q \in Builders \ {p} : pc[q] = "idle"
  BY TreeFacts DEF FetchInv, Exclusive
<1>2. RecordedFor(p)
  BY <1>1 DEF FetchInv, Recorded, RecordedFor
<1> QED BY <1>1, <1>2 DEF FetchInv, Own

\* An idle builder relies on nothing but its own tree.
LEMMA Bystander ==
  ASSUME NEW q \in Builders, StageInv(q), pc[q] = "idle", pc'[q] = "idle",
         src'[q] = src[q], dst'[q] = dst[q], astray => astray',
         halved'[q] = halved[q], q \in cut' <=> q \in cut
  PROVE  StageInv(q)'
BY DEF StageInv, Method, Present, AtWanted, Whole, Copied, Intact, Halved, TarStages, GitStages,
       Fetching, UnpackStages, HasDown, TypeOK

LEMMA RunKeeps ==
  ASSUME FetchAssumption, FetchInv, NEW p \in Builders, Script(p) \/ Kill(p)
  PROVE  FetchInv'
<1> USE DEF FetchInv
<1>1. Frame(p) BY StepFrame
<1>2. pc[p] # "idle" \/ lock = None BY <1>1 DEF Frame
<1>3. Own(p) /\ \A q \in Builders \ {p} : pc[q] = "idle" BY <1>2, Alone
<1>4. TypeOK' /\ Own(p)'
  BY <1>3, BeginKeeps, MirrorKeeps, UrlKeeps, CloneKeeps, RefreshKeeps, UnpackKeeps, KillKeeps
     DEF Script
<1>5. \A q \in Builders \ {p} : /\ pc'[q] = "idle" /\ src'[q] = src[q] /\ dst'[q] = dst[q]
                                /\ halved'[q] = halved[q] /\ (q \in cut' <=> q \in cut)
  BY <1>1, <1>3 DEF Frame, TypeOK
<1>6. \A q \in Builders : StageInv(q)'
  <2> TAKE q \in Builders
  <2>1. CASE q = p BY <1>4, <2>1 DEF Own
  <2>2. CASE q # p BY <1>1, <1>3, <1>5, <2>2, Bystander DEF Frame
  <2> QED BY <2>1, <2>2
<1>7. Exclusive' BY <1>1, <1>2, <1>5 DEF Frame, Exclusive
<1>8. Recorded' BY <1>4 DEF Own, Recorded, RecordedFor
<1> QED BY <1>4, <1>6, <1>7, <1>8 DEF Own

\* distclean, a commit, an edited recipe, a removed download.
LEMMA WorldKeeps ==
  ASSUME FetchAssumption, FetchInv,
         (\E p \in Builders : DistClean(p)) \/ Commit \/ EditRecipe \/ RemoveDown
  PROVE  FetchInv'
<1> USE DEF FetchInv, TypeOK, Exclusive, ArchiveIsNamed, Recorded, SumWhole
<1>1. ASSUME NEW p \in Builders, DistClean(p) PROVE FetchInv'
  <2> USE <1>1 DEF DistClean, NoTree, upstream, run
  <2>1. TypeOK' /\ Exclusive' /\ ArchiveIsNamed' /\ Recorded' /\ SumWhole' OBVIOUS
  <2>2. \A q \in Builders : StageInv(q)'
    BY DEF StageInv, Method, Present, AtWanted, Whole, Copied, Intact, Spoiled, Halved, Pinned,
           Unpacked, TarStages, GitStages, Fetching, UnpackStages, HasDown
  <2> QED BY <2>1, <2>2
<1>2. CASE Commit \/ EditRecipe
  <2> USE <1>2 DEF Commit, EditRecipe, run, disk, past
  <2>1. head' \in Revs /\ recipe' \in Wants BY DEF Revs, Wants
  <2>2. TypeOK' /\ Exclusive' /\ ArchiveIsNamed' /\ Recorded' /\ SumWhole' BY <2>1
  <2>3. \A q \in Builders : StageInv(q)'
    BY DEF StageInv, Method, Present, AtWanted, Whole, Copied, Intact, Spoiled, Halved, Pinned,
           Unpacked
  <2> QED BY <2>2, <2>3
<1>3. CASE RemoveDown
  <2> USE <1>3 DEF RemoveDown, upstream, run, past
  <2>1. \A q \in Builders : pc[q] = "idle" /\ pc'[q] = "idle" BY TreeFacts
  <2>2. TypeOK' /\ Exclusive' /\ ArchiveIsNamed' /\ Recorded' /\ SumWhole' BY <2>1
  <2>3. \A q \in Builders : StageInv(q)' BY <2>1, Bystander
  <2> QED BY <2>2, <2>3
<1> QED BY <1>1, <1>2, <1>3

LEMMA FetchInitially == ASSUME FetchAssumption, Init PROVE FetchInv
<1> USE DEF Init
<1>1. TypeOK
  <2>1. 1 \in Revs /\ NumUrls \in 0 .. NumUrls /\ 0 \in 0 .. MaxFaults BY DEF FetchAssumption, Revs
  <2>2. Floating \in Wants /\ "idle" \in Stages BY DEF Wants, Stages
  <2> QED BY <2>1, <2>2 DEF TypeOK
<1>2. Exclusive /\ ArchiveIsNamed /\ Recorded /\ SumWhole
  BY DEF Exclusive, ArchiveIsNamed, Recorded, SumWhole, Wants
<1>3. \A p \in Builders : StageInv(p)
  BY DEF StageInv, Method, Present, AtWanted, Whole, Copied, Intact, Halved, TarStages, GitStages,
         Fetching, UnpackStages, HasDown
<1> QED BY <1>1, <1>2, <1>3 DEF FetchInv

LEMMA FetchStuttering == ASSUME FetchInv, UNCHANGED vars PROVE FetchInv'
BY DEF vars, upstream, run, disk, past, FetchInv, TypeOK, Exclusive, ArchiveIsNamed, Recorded,
       SumWhole, StageInv, Method, Present, AtWanted, Whole, Copied, Intact, Spoiled, Halved, Pinned,
       Unpacked

\* fetch_package.sh: the inductive invariant from which the theorems below follow.
THEOREM FetchInvariant == Spec => []FetchInv
<1>1. Init => FetchInv BY FetchAssumption, FetchInitially
<1>2. FetchInv /\ [Next]_vars => FetchInv'
  BY FetchAssumption, RunKeeps, WorldKeeps, FetchStuttering DEF Next
<1> QED BY <1>1, <1>2, PTL DEF Spec

\* Every variable of the script keeps its kind; an archive or repository that a
\* command reads is there.
THEOREM FetchTypeCorrect == Spec => []TypeOK
BY FetchInvariant, PTL DEF FetchInv

\* The flock around do_fetch: at most one builder is in the script.
THEOREM OneInScript ==
  Spec => [](\A p, q \in Builders : pc[p] # "idle" /\ pc[q] # "idle" => p = q)
<1>1. FetchInv => \A p, q \in Builders : pc[p] # "idle" /\ pc[q] # "idle" => p = q
  BY DEF FetchInv, Exclusive
<1> QED BY <1>1, FetchInvariant, PTL

\* do_unpack: a source tree that the next run takes as it is, is complete, unless a cp
\* failed, or checksrc came back to what it was before a removal that was killed.
THEOREM UnpackedIsWhole == Spec => []UnpackedWhole
<1>1. FetchInv => UnpackedWhole
  BY DEF FetchInv, UnpackedWhole, StageInv, Copied, Intact, Spoiled, Halved, Unpacked
<1> QED BY <1>1, FetchInvariant, PTL

\* do_fetch, do_unpack: a run that ends hands on the tree that was wanted, unless the
\* script could not judge the tree, or a killed run had left checksrc astray.
THEOREM WantedIsHandedOn == Spec => []HandsOnWanted
<1>1. FetchInv => HandsOnWanted
  BY DEF FetchInv, HandsOnWanted, StageInv, AtWanted, Copied, UnpackStages
<1> QED BY <1>1, FetchInvariant, PTL

\* A git archive is of the revision in its name.
THEOREM ArchivesAreNamed == Spec => []ArchiveIsNamed
BY FetchInvariant, PTL DEF FetchInv
=============================================================================
