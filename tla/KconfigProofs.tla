---------------------------- MODULE KconfigProofs ----------------------------
(***************************************************************************)
(* What TLAPS proves about the files of conf and mconf, for every text and *)
(* every sequence of saves, failures, deaths and builds; about the         *)
(* programs that save, for every meaning of a configuration; and about the *)
(* rules that simplify expressions, for all symbols and their values.      *)
(***************************************************************************)
EXTENDS KconfigProgram, KconfigJoin, TLAPS

Writing == {"tmp", "old", "new"}
Later   == {"touch", "header", "auto", "done"}

Typed ==
  /\ disk = [f \in Files |-> disk[f]]
  /\ step \in {"none"} \cup Writing \cup Later
  /\ autos \in BOOLEAN
  /\ name \in {"", Config, "alt"}

\* A save has something to save, and a place to save it to; before the temporary file
\* is closed nothing has fallen short.
Purposeful ==
  /\ step = "none" => name = ""
  /\ step \in Writing => name # ""
  /\ name # "" => NoFile \notin {text, temp}
  /\ step # "none" => auto # NoFile
  /\ step = "tmp" => temp = text

\* When conf_write() is through, the file holds what has reached the temporary one.
Written == step \in Later /\ name # "" => disk[name] = temp

\* Between the dependency files and auto.conf, what will change is touched; the header
\* is there before auto.conf.
Prepared == /\ step \in {"header", "auto"} => ToTouch \subseteq touched
            /\ step = "auto" => Lines(Header) = ToSet(auto)

\* auto.conf differs from what is compiled, and the header from auto.conf, only in what
\* will be compiled again or has been compiled too early.
Followed == /\ built # NoFile => Changes(built, Lines(AutoConf)) \subseteq touched \cup early
            /\ Changes(Lines(AutoConf), Lines(Header)) \subseteq touched \cup early

FilesInv == Typed /\ Purposeful /\ Written /\ Prepared /\ Followed

-----------------------------------------------------------------------------
\* What differs between the first and the last of three texts differs between two
\* neighbours.
LEMMA ChangesChain ==
  ASSUME NEW a, NEW b, NEW c
  PROVE  Changes(a, c) \subseteq Changes(a, b) \cup Changes(b, c)
BY DEF Changes

LEMMA ChangesNone ==
  ASSUME NEW a
  PROVE  Changes(a, a) = {}
BY DEF Changes

\* Compiling what is touched anew: what then differs from the old auto.conf did so before
\* and was not touched, or differs between that and the header.
LEMMA ChangesMixed ==
  ASSUME NEW old, NEW new, NEW other, NEW T
  PROVE  Changes({l \in new : l[1] \in T} \cup {l \in old : l[1] \notin T}, other)
           \subseteq (Changes(old, other) \ T) \cup Changes(other, new)
BY DEF Changes

LEMMA Initially == FilesInit => FilesInv
<1> SUFFICES ASSUME FilesInit PROVE FilesInv
  OBVIOUS
<1>1. Typed /\ Purposeful /\ Written /\ Prepared
  BY DEF FilesInit, Typed, Purposeful, Written, Prepared, Writing, Later
<1>2. Lines(AutoConf) = {} /\ Lines(Header) = {} BY DEF FilesInit, Lines
<1>3. Followed BY <1>2, ChangesNone DEF FilesInit, Followed
<1> QED BY <1>1, <1>3 DEF FilesInv

\* The lines of a file depend on that file only.
LEMMA LinesStay ==
  ASSUME NEW f, disk'[f] = disk[f]
  PROVE  Lines(f)' = Lines(f)
BY DEF Lines

\* The steps that leave the header, auto.conf, and what is compiled and touched, alone.
LEMMA Elsewhere ==
  ASSUME Followed, disk'[AutoConf] = disk[AutoConf], disk'[Header] = disk[Header],
         UNCHANGED makeVars
  PROVE  Followed'
<1>1. Lines(AutoConf)' = Lines(AutoConf) /\ Lines(Header)' = Lines(Header)
  BY DEF Lines, AutoConf, Header
<1>2. built' = built /\ touched' = touched /\ early' = early BY DEF makeVars
<1> QED BY <1>1, <1>2 DEF Followed, Changes

LEMMA BeginSafe == ASSUME FilesInv, Begin PROVE FilesInv'
<1> USE DEF FilesInv, Begin, BeginSave, BeginSync
<1>1. Typed' BY DEF Typed, Writing, Later, OldOf
<1>2. Purposeful' BY DEF Purposeful, Typed, Writing, Later, OldOf, Config
<1>3. Written' /\ Prepared' BY DEF Written, Prepared, Later
<1>4. Followed' BY Elsewhere
<1> QED BY <1>1, <1>2, <1>3, <1>4

\* The temporary file is closed, whatever has reached it.
LEMMA ClosedSafe == ASSUME FilesInv, NEW t, t # NoFile, Closed(t) PROVE FilesInv'
<1> USE DEF FilesInv, Closed, After, AfterWrite
<1>1. Typed' BY DEF Typed, Writing, Later
<1>2. Purposeful' BY DEF Purposeful, Typed, Writing, Later
<1>3. Written' /\ Prepared' BY DEF Written, Prepared, Later
<1>4. Followed' BY Elsewhere
<1> QED BY <1>1, <1>2, <1>3, <1>4

LEMMA CompareSafe == ASSUME FilesInv, Compare PROVE FilesInv'
<1>1. text # NoFile BY DEF FilesInv, Compare, Closed, Purposeful, Writing
<1> QED BY <1>1, ClosedSafe DEF Compare

LEMMA KeepOldSafe == ASSUME FilesInv, KeepOld PROVE FilesInv'
<1> USE DEF FilesInv, KeepOld, After
<1>0. name \in {Config, "alt"} /\ OldOf[name] \in {".config.old", "alt.old"}
  BY DEF Typed, Purposeful, Writing, OldOf, Config
<1>1. Typed' BY DEF Typed, Writing, Later, saveVars
<1>2. Purposeful' BY DEF Purposeful, Typed, Writing, Later, saveVars
<1>3. Written' /\ Prepared' BY DEF Written, Prepared, Later, saveVars
<1>4. disk'[AutoConf] = disk[AutoConf] /\ disk'[Header] = disk[Header]
  BY <1>0 DEF Typed, Files, Config, AutoConf, Header
<1>5. Followed' BY <1>4, Elsewhere
<1> QED BY <1>1, <1>2, <1>3, <1>5

LEMMA InstallSafe == ASSUME FilesInv, Install PROVE FilesInv'
<1> USE DEF FilesInv, Install, Renamed, After, AfterWrite
<1>0. name \in {Config, "alt"} BY DEF Typed, Purposeful, Writing
<1>1. Typed' BY DEF Typed, Writing, Later, saveVars
<1>2. Purposeful' BY DEF Purposeful, Typed, Writing, Later, saveVars
<1>3. Written' BY <1>0 DEF Written, Typed, Files, saveVars
<1>4. Prepared' BY DEF Prepared
<1>5. disk'[AutoConf] = disk[AutoConf] /\ disk'[Header] = disk[Header]
  BY <1>0 DEF Typed, Files, Config, AutoConf, Header
<1>6. Followed' BY <1>5, Elsewhere
<1> QED BY <1>1, <1>2, <1>3, <1>4, <1>6

LEMMA TouchSafe == ASSUME FilesInv, NEW s, Touch(s) PROVE FilesInv'
<1> USE DEF FilesInv, Touch
<1>1. (Typed /\ Purposeful /\ Written /\ Prepared)'
  BY DEF Typed, Purposeful, Written, Prepared, Writing, Later, saveVars
<1>2. Lines(AutoConf)' = Lines(AutoConf) /\ Lines(Header)' = Lines(Header) BY DEF Lines
<1>3. Followed' BY <1>2 DEF Followed, Changes
<1> QED BY <1>1, <1>3

LEMMA TouchEndSafe == ASSUME FilesInv, TouchEnd PROVE FilesInv'
<1> USE DEF FilesInv, TouchEnd, After
<1>1. Typed' BY DEF Typed, Writing, Later, saveVars
<1>2. Purposeful' BY DEF Purposeful, Typed, Writing, Later, saveVars
<1>3. Written' BY DEF Written, Later, saveVars
<1>4. Prepared' BY DEF Prepared, ToTouch, Lines, Changes, saveVars, makeVars
<1>5. Followed' BY Elsewhere
<1> QED BY <1>1, <1>2, <1>3, <1>4, <1>5

LEMMA HeaderSafe == ASSUME FilesInv, WriteHeader PROVE FilesInv'
<1> USE DEF FilesInv, WriteHeader, Renamed, After
<1>1. Typed' BY DEF Typed, Writing, Later, saveVars
<1>2. Purposeful' BY DEF Purposeful, Typed, Writing, Later, saveVars
<1>3. Written' BY DEF Written, Later, Typed, Files, Config, Header, saveVars
<1>4. disk'[AutoConf] = disk[AutoConf] /\ disk'[Header] = auto
  BY DEF Typed, Files, AutoConf, Header
<1>5. Lines(AutoConf)' = Lines(AutoConf) /\ Lines(Header)' = ToSet(auto)
  <2>1. auto # NoFile BY DEF Purposeful
  <2> QED BY <1>4, <2>1 DEF Lines
<1>6. UNCHANGED <<auto, built, touched, early>> BY DEF saveVars, makeVars
<1>7. Prepared' BY <1>5, <1>6 DEF Prepared, ToTouch, Changes
<1>8. Followed' BY <1>5, <1>6 DEF Followed, Prepared, ToTouch, Changes
<1> QED BY <1>1, <1>2, <1>3, <1>7, <1>8

LEMMA AutoSafe == ASSUME FilesInv, WriteAuto PROVE FilesInv'
<1> USE DEF FilesInv, WriteAuto, Renamed, After
<1>1. Typed' BY DEF Typed, Writing, Later, saveVars
<1>2. Purposeful' BY DEF Purposeful, Typed, Writing, Later, saveVars
<1>3. Written' BY DEF Written, Later, Typed, Files, Config, AutoConf, saveVars
<1>4. Prepared' BY DEF Prepared
<1>5. disk'[Header] = disk[Header] /\ disk'[AutoConf] = auto
  BY DEF Typed, Files, AutoConf, Header
<1>6. Lines(Header)' = ToSet(auto) /\ Lines(AutoConf)' = ToSet(auto)
  BY <1>5 DEF Lines, AutoConf, Header, Prepared, Purposeful
<1>7. built' = built /\ touched' = touched /\ early' = early BY DEF makeVars
<1>8. Followed'
  <2>1. Changes(ToSet(auto), ToSet(auto)) = {} BY ChangesNone
  <2>2. Changes(built, ToSet(auto))
          \subseteq Changes(built, Lines(AutoConf)) \cup Changes(Lines(AutoConf), ToSet(auto))
    BY ChangesChain
  <2>3. Changes(Lines(AutoConf), ToSet(auto)) \subseteq touched BY DEF Prepared, ToTouch
  <2>4. built # NoFile => Changes(built, ToSet(auto)) \subseteq touched \cup early
    BY <2>2, <2>3 DEF Followed
  <2>5. Changes(built, Lines(AutoConf))' = Changes(built, ToSet(auto))
    BY <1>6, <1>7 DEF Changes
  <2>6. Changes(Lines(AutoConf), Lines(Header))' = {} BY <1>6, <2>1 DEF Changes
  <2> QED BY <1>7, <2>4, <2>5, <2>6 DEF Followed
<1> QED BY <1>1, <1>2, <1>3, <1>4, <1>8

LEMMA EndSafe == ASSUME FilesInv, NEW how, Ended(how) PROVE FilesInv'
<1> USE DEF FilesInv, Ended
<1>1. Typed' BY DEF Typed, Config
<1>2. (Purposeful /\ Written /\ Prepared)' BY DEF Purposeful, Written, Prepared, Writing, Later
<1>3. Followed' BY Elsewhere
<1> QED BY <1>1, <1>2, <1>3

LEMMA PutSafe == ASSUME FilesInv, NEW t, PutDefconfig(t) PROVE FilesInv'
<1> USE DEF FilesInv, PutDefconfig
<1>1. Typed' BY DEF Typed, saveVars
<1>2. (Purposeful /\ Written /\ Prepared)'
  BY DEF Purposeful, Written, Prepared, Writing, Later, saveVars
<1>3. disk'[AutoConf] = disk[AutoConf] /\ disk'[Header] = disk[Header]
  BY DEF Typed, Files, AutoConf, Header
<1>4. Followed' BY <1>3, Elsewhere
<1> QED BY <1>1, <1>2, <1>4

\* make compiles with the header, which may be ahead of auto.conf: that is remembered.
LEMMA BuildSafe == ASSUME FilesInv, Build PROVE FilesInv'
<1> USE DEF FilesInv, Build
<1>1. Typed' BY DEF Typed, saveVars
<1>2. (Purposeful /\ Written /\ Prepared)'
  BY DEF Purposeful, Written, Prepared, Writing, Later, saveVars
<1>3. Lines(AutoConf)' = Lines(AutoConf) /\ Lines(Header)' = Lines(Header) BY DEF Lines
<1>4. Changes(Lines(AutoConf), Lines(Header)) \subseteq early' OBVIOUS
<1>5. Changes(built', Lines(AutoConf)) \subseteq early'
  <2>1. CASE built = NoFile
    <3>1. Changes(Lines(Header), Lines(AutoConf)) = Changes(Lines(AutoConf), Lines(Header))
      BY DEF Changes
    <3> QED BY <2>1, <3>1, <1>4
  <2>2. CASE built # NoFile
    <3>1. Changes(built, Lines(AutoConf)) \ touched \subseteq early'
      BY <2>2 DEF Followed
    <3> QED BY <2>2, <3>1, <1>4, ChangesMixed
  <2> QED BY <2>1, <2>2
<1>6. Followed' BY <1>3, <1>4, <1>5 DEF Followed, Changes
<1> QED BY <1>1, <1>2, <1>6

\* Every step keeps the invariant, one lemma for each action.
LEMMA StepSafe == FilesInv /\ [FilesNext]_fileVars => FilesInv'
<1> SUFFICES ASSUME FilesInv, [FilesNext]_fileVars PROVE FilesInv'
  OBVIOUS
<1>1. CASE Begin BY <1>1, BeginSafe
<1>2. CASE FileStep \/ FallShort(temp')
  BY <1>2, ClosedSafe, CompareSafe, KeepOldSafe, InstallSafe, TouchSafe, TouchEndSafe, HeaderSafe,
     AutoSafe DEF FileStep, FallShort
<1>3. CASE EndOk \/ EndFailed \/ EndKilled BY <1>3, EndSafe DEF EndOk, EndFailed, EndKilled
<1>4. CASE PutDefconfig(disk'["defconfig"]) BY <1>4, PutSafe
<1>5. CASE Build BY <1>5, BuildSafe
<1>6. CASE UNCHANGED fileVars
  <2>1. UNCHANGED <<disk, step, name, text, temp, auto, autos, built, touched, early>>
    BY <1>6 DEF fileVars, saveVars, makeVars
  <2>2. Followed' BY <2>1, <1>6, Elsewhere DEF FilesInv, fileVars
  <2>3. Prepared' BY <2>1 DEF FilesInv, Prepared, ToTouch, Lines, Changes
  <2> QED BY <2>1, <2>2, <2>3 DEF FilesInv, Typed, Purposeful, Written
<1> QED BY <1>1, <1>2, <1>3, <1>4, <1>5, <1>6 DEF FilesNext

\* The files of a save, whatever it writes, whenever it fails, dies or falls short: the
\* steps are in their places, what reached the temporary file is there when conf_write()
\* is through.
THEOREM FilesInvariant == FilesSpec => []FilesInv
BY Initially, StepSafe, PTL DEF FilesSpec

\* conf_touch_deps(): whatever was compiled against another value than the header has is
\* compiled again, but for what make compiled between the header and auto.conf.
THEOREM TouchedInvariant == FilesSpec => []ChangesAreTouched
<1>1. FilesInv => ChangesAreTouched
  <2> SUFFICES ASSUME FilesInv, built # NoFile
               PROVE  Changes(built, Lines(Header)) \subseteq touched \cup early
    BY DEF ChangesAreTouched
  <2> QED BY ChangesChain DEF FilesInv, Followed
<1> QED BY <1>1, FilesInvariant, PTL

-----------------------------------------------------------------------------
(* The refinement of ConfigStore.  .config is put aside before the new one   *)
(* is put in its place: Stored looks in both places, so putting it aside is  *)
(* a stutter and putting the new one in its place is the commit.             *)
Stutter == UNCHANGED <<Stored, Held, OnDisk, outcome>>

LEMMA InitImplements == FilesInit => Store!Init
BY DEF FilesInit, Store!Init, Held, OnDisk, Config

LEMMA BeginImplements == ASSUME FilesInv, Begin PROVE Store!Begin \/ Stutter
<1>1. Held = NoFile /\ OnDisk = NoFile
  BY DEF Begin, BeginSave, BeginSync, FilesInv, Purposeful, Held, OnDisk, Config
<1>2. Stored' = Stored /\ outcome' = outcome
  BY DEF Begin, BeginSave, BeginSync, Stored
<1>3. CASE name' = Config /\ text' # NoFile
  <2>1. Held' # NoFile /\ OnDisk' = Held'
    BY <1>3 DEF Held, OnDisk, Begin, BeginSave, BeginSync, Config
  <2> QED BY <1>1, <1>2, <2>1 DEF Store!Begin
<1>4. CASE ~(name' = Config /\ text' # NoFile)
  <2>1. Held' = NoFile /\ OnDisk' = NoFile
    BY <1>4 DEF Held, OnDisk, Begin, BeginSave, BeginSync, Config
  <2> QED BY <1>1, <1>2, <2>1 DEF Stutter
<1> QED BY <1>3, <1>4

\* Closing the temporary file: all of the text has reached it, or a write fell short.
LEMMA CompareImplements == ASSUME FilesInv, Compare PROVE Stutter
BY DEF Compare, Closed, FilesInv, Purposeful, Stored, Held, OnDisk, Stutter

LEMMA ShortImplements == ASSUME FilesInv, FallShort(temp') PROVE Store!Short \/ Stutter
<1>1. Stored' = Stored /\ Held' = Held /\ outcome' = outcome
  BY DEF FallShort, Closed, Stored, Held
<1>2. CASE name = Config
  BY <1>1, <1>2 DEF FallShort, Closed, FilesInv, Purposeful, Held, OnDisk, Store!Short, Config
<1>3. CASE name # Config
  BY <1>1, <1>3 DEF FallShort, Closed, OnDisk, Stutter
<1> QED BY <1>2, <1>3

LEMMA KeepOldImplements == ASSUME FilesInv, KeepOld PROVE Stutter
<1>1. Held' = Held /\ OnDisk' = OnDisk /\ outcome' = outcome
  BY DEF KeepOld, saveVars, Held, OnDisk
<1>2. name \in {Config, "alt"}
  BY DEF KeepOld, FilesInv, Typed, Purposeful, Writing
<1>3. Stored' = Stored
  BY <1>2 DEF KeepOld, FilesInv, Typed, Stored, Files, OldOf, Config
<1> QED BY <1>1, <1>3 DEF Stutter

LEMMA InstallImplements == ASSUME FilesInv, Install PROVE Store!Commit \/ Stutter
<1>1. Held' = Held /\ OnDisk' = OnDisk /\ outcome' = outcome
  BY DEF Install, Renamed, saveVars, Held, OnDisk
<1>2. name \in {Config, "alt"} /\ NoFile \notin {text, temp}
  BY DEF Install, Renamed, FilesInv, Typed, Purposeful, Writing
<1>3. CASE name = Config
  <2>1. Stored' = temp
    BY <1>2, <1>3 DEF Install, Renamed, FilesInv, Typed, Stored, Files
  <2> QED BY <1>1, <1>2, <1>3, <2>1 DEF Store!Commit, Held, OnDisk
<1>4. CASE name = "alt"
  <2>1. Stored' = Stored
    BY <1>4 DEF Install, Renamed, FilesInv, Typed, Stored, Files, Config
  <2> QED BY <1>1, <2>1 DEF Stutter
<1> QED BY <1>2, <1>3, <1>4

\* The files that are not .config.
LEMMA OtherFileImplements ==
  ASSUME FilesInv, NEW n \in {AutoConf, Header, "defconfig"}, NEW t, disk' = [disk EXCEPT ![n] = t],
         UNCHANGED <<saveVars, outcome>>
  PROVE  Stutter
BY DEF FilesInv, Typed, Files, Config, AutoConf, Header, Stored, Held, OnDisk, saveVars, Stutter

LEMMA EndOkImplements == ASSUME FilesInv, EndOk PROVE Store!Done \/ Stutter
<1>1. Stored' = Stored /\ Held' = NoFile /\ OnDisk' = NoFile
  BY DEF EndOk, Ended, Stored, Held, OnDisk, Config
<1>2. CASE name = Config
  <2>1. Held # NoFile /\ OnDisk = temp /\ temp # NoFile /\ disk[Config] = temp
    BY <1>2 DEF EndOk, FilesInv, Purposeful, Written, Later, Held, OnDisk, Config
  <2>2. Stored = OnDisk BY <2>1 DEF Stored
  <2> QED BY <1>1, <1>2, <2>1, <2>2 DEF EndOk, Ended, Store!Done, Store!End
<1>3. CASE name # Config BY <1>1, <1>3 DEF EndOk, Ended, Held, OnDisk, Stutter
<1> QED BY <1>2, <1>3

LEMMA AbortImplements ==
  ASSUME FilesInv, NEW how \in {"failed", "killed"}, Ended(how)
  PROVE  Store!Abort \/ Stutter
<1>1. Stored' = Stored /\ Held' = NoFile /\ OnDisk' = NoFile
  BY DEF Ended, Stored, Held, OnDisk, Config
<1>2. CASE name = Config
  <2>1. Held # NoFile BY <1>2 DEF FilesInv, Purposeful, Held, Config
  <2> QED BY <1>1, <1>2, <2>1 DEF Ended, Store!Abort, Store!End
<1>3. CASE name # Config BY <1>1, <1>3 DEF Ended, Held, OnDisk, Stutter
<1> QED BY <1>2, <1>3

LEMMA StepImplements ==
  ASSUME FilesInv, [FilesNext]_fileVars
  PROVE  [Store!Next]_(Store!vars)
<1> USE DEF Store!Next, Store!vars, Stutter
<1>1. CASE Begin BY <1>1, BeginImplements
<1>2. CASE FileStep
  <2>1. CASE TouchEnd \/ \E s \in ToTouch : Touch(s)
    BY <2>1 DEF TouchEnd, Touch, Stored, Held, OnDisk, saveVars
  <2>2. CASE KeepOld BY <2>2, KeepOldImplements
  <2>3. CASE Install BY <2>3, InstallImplements
  <2>4. CASE WriteHeader BY <2>4, OtherFileImplements DEF WriteHeader, Renamed
  <2>5. CASE WriteAuto BY <2>5, OtherFileImplements DEF WriteAuto, Renamed
  <2>6. CASE Compare BY <2>6, CompareImplements
  <2> QED BY <1>2, <2>1, <2>2, <2>3, <2>4, <2>5, <2>6 DEF FileStep
<1>3. CASE EndOk BY <1>3, EndOkImplements
<1>4. CASE EndFailed \/ EndKilled BY <1>4, AbortImplements DEF EndFailed, EndKilled
<1>5. CASE PutDefconfig(disk'["defconfig"])
  BY <1>5, OtherFileImplements DEF PutDefconfig
<1>6. CASE Build BY <1>6 DEF Build, Stored, Held, OnDisk, saveVars
<1>7. CASE UNCHANGED fileVars BY <1>7 DEF fileVars, saveVars, Stored, Held, OnDisk
<1>8. CASE FallShort(temp') BY <1>8, ShortImplements
<1> QED BY <1>1, <1>2, <1>3, <1>4, <1>5, <1>6, <1>7, <1>8 DEF FilesNext

\* conf_write(): for all texts, failures, short writes and deaths, the file a user finds is
\* replaced as a whole by what has reached the disk, and a save that reports success has
\* done it: with the text that was to be saved, unless a write fell short.
THEOREM ConfigIsStored == FilesSpec => StoreImplemented
BY InitImplements, FilesInvariant, StepImplements, PTL DEF FilesSpec, StoreImplemented, Store!Spec

-----------------------------------------------------------------------------
(* The programs.  A save in progress is one of the values held, and when it  *)
(* fails before anything is done mconf goes on with what it knew.            *)
Phases == Reading \cup {"parse", "check", "failed", "start", "save"}

\* The kinds of the program's own variables.
ProgramTyped ==
  /\ phase \in Phases /\ changed \in BOOLEAN /\ missed \in BOOLEAN
  /\ filename \in {Config, "alt"}

\* A program saves while there is a step of a save to take.
SaveGoesOn ==
  /\ phase = "save" <=> step # "none"
  /\ phase = "save" => back \in {"menu", "exit"} /\ (name # "" => text = Text(values))

\* From its menu mconf saves to a file, and leaves auto.conf alone.
MenuSave ==
  phase = "save" /\ back = "menu" =>
    name # "" /\ ~autos /\ step \in {"tmp", "old", "new", "done"}

\* A program starts with everything to be saved, to .config.
Starting ==
  /\ phase \in {"parse", "check", "start"} => ~missed /\ filename = Config
  /\ phase = "start" => changed

\* What mconf knows in its menu, and has not lost when the first call of a save fails.
Known ==
  phase = "menu" \/ (phase = "save" /\ back = "menu" /\ step = "tmp") =>
    changed \/ missed \/ filename \in short \/ Same(disk[filename], Text(values))

Program    == ProgramTyped /\ SaveGoesOn /\ MenuSave /\ Starting /\ Known
ProgramInv == FilesInv /\ Program

\* Every step of a program is one of its files, or leaves them alone.
LEMMA StepUsesFiles == ASSUME ProgramInv, [Next]_vars PROVE [FilesNext]_fileVars
<1> USE DEF FilesNext
<1>1. CASE Parse \/ Read \/ ReadMissing \/ ReadSeed \/ Mode \/ Answer \/ Asked
  BY <1>1 DEF Parse, Read, ReadMissing, ReadSeed, Mode, Answer, Asked
<1>2. CASE Load \/ LoadMissing \/ ExitNoSave \/ Restart
  BY <1>2 DEF Load, LoadMissing, ExitNoSave, Restart
<1>3. ASSUME NEW n \in {Config, "alt"}, NEW sync \in BOOLEAN, NEW p, Saves(n, sync, p)
      PROVE  Begin
  <2>1. name' = n /\ text' = Text(values) /\ autos' \in BOOLEAN
    BY <1>3 DEF Saves, BeginSave
  <2>2. BeginSave(name', text', auto', autos')
    BY <1>3 DEF Saves, BeginSave
  <2> QED BY <1>3, <2>1, <2>2 DEF Saves, Begin, OldOf
<1>4. CASE Save BY <1>3, <1>4 DEF Save
<1>5. CASE ExitSave BY <1>3, <1>5 DEF ExitSave, ProgramInv, Program, ProgramTyped
<1>6. CASE Write BY <1>3, <1>6 DEF Write
<1>7. CASE Sync BY <1>7 DEF Sync, Begin
<1>8. CASE WriteDefconfig BY <1>8 DEF WriteDefconfig
<1>9. CASE SaveStep \/ SaveEnd \/ SaveFails \/ Kill
  BY <1>9 DEF SaveStep, SaveEnd, SaveFails, Kill
<1>10. CASE Make BY <1>10 DEF Make
<1>11. CASE UNCHANGED vars BY <1>11 DEF vars
<1> QED BY <1>1, <1>2, <1>4, <1>5, <1>6, <1>7, <1>8, <1>9, <1>10, <1>11 DEF Next

LEMMA ProgramInit == Init => ProgramInv
BY Initially DEF Init, ProgramInv, Program, FilesInit, ProgramTyped, Phases, SaveGoesOn,
   MenuSave, Starting, Known, Config

\* The steps without a save, outside of mconf's menu.
LEMMA QuietSafe ==
  ASSUME ProgramInv,
         Parse \/ Read \/ ReadMissing \/ ReadSeed \/ Mode \/ Asked
         \/ WriteDefconfig \/ Restart \/ Make
  PROVE  Program'
<1> USE DEF ProgramInv, Program
<1>1. phase # "save" /\ phase' # "save" /\ step' = step /\ name' = name /\ autos' = autos
  BY DEF Parse, Read, ReadMissing, ReadSeed, Mode, Asked, WriteDefconfig, Restart, Make, Reading,
         Go, fileVars, saveVars, PutDefconfig, Build
<1>2. (SaveGoesOn /\ MenuSave)' BY <1>1 DEF SaveGoesOn, MenuSave
<1>3. CASE Parse
  BY <1>2, <1>3 DEF Parse, ProgramTyped, Starting, Known, Phases, uiVars
<1>4. CASE Read
  BY <1>2, <1>4 DEF Read, ProgramTyped, Starting, Known, Phases, Reading, uiVars, fileVars
<1>5. CASE ReadMissing \/ ReadSeed \/ Mode \/ Asked \/ WriteDefconfig \/ Restart
  BY <1>2, <1>5 DEF ReadMissing, ReadSeed, Mode, Asked, WriteDefconfig, Restart, Go,
                    ProgramTyped, Starting, Known, Phases, Reading, uiVars
<1>6. CASE Make BY <1>2, <1>6 DEF Make, ProgramTyped, Starting, Known, uiVars
<1> QED BY <1>3, <1>4, <1>5, <1>6

\* Answers, and what mconf does without saving.
LEMMA MenuSafe ==
  ASSUME ProgramInv, Answer \/ Load \/ LoadMissing \/ ExitNoSave
  PROVE  Program'
<1> USE DEF ProgramInv, Program
<1>1. phase # "save" /\ phase' # "save" /\ step' = step
  BY DEF Answer, Load, LoadMissing, ExitNoSave, Go, fileVars
<1>2. (SaveGoesOn /\ MenuSave)' BY <1>1 DEF SaveGoesOn, MenuSave
<1>3. CASE Answer
  <2>1. UNCHANGED <<phase, filename, missed, short, back, disk>> /\ changed' \in BOOLEAN
    BY <1>3 DEF Answer, ProgramTyped, uiVars, fileVars
  <2>2. (ProgramTyped /\ Starting)' BY <1>3, <2>1 DEF Answer, ProgramTyped, Starting
  <2>3. ASSUME ~changed' PROVE ~changed /\ Text(values') = Text(values)
    <3>1. Text(values') = Text(values) BY <1>3, <2>3 DEF Answer
    <3>2. changed' = changed \/ changed' = TRUE BY <1>3 DEF Answer
    <3> QED BY <2>3, <3>1, <3>2
  <2>4. Known' BY <1>3, <2>1, <2>3 DEF Answer, Known
  <2> QED BY <1>2, <2>2, <2>4
<1>4. CASE Load \/ LoadMissing \/ ExitNoSave
  BY <1>2, <1>4 DEF Load, LoadMissing, ExitNoSave, Go, ProgramTyped, Starting, Known, Phases,
                    Reading, uiVars
<1> QED BY <1>3, <1>4

\* A save begins with the values held.
LEMMA SavesSafe ==
  ASSUME ProgramInv, NEW n \in {Config, "alt"}, NEW sync \in BOOLEAN, NEW p \in {"menu", "exit"},
         Saves(n, sync, p), p = "menu" => phase = "menu" /\ ~sync
  PROVE  Program'
BY DEF ProgramInv, Program, Saves, BeginSave, Go, ProgramTyped, SaveGoesOn, MenuSave, Starting,
       Known, Phases, Config

LEMMA SyncSafe == ASSUME ProgramInv, Sync PROVE Program'
BY DEF ProgramInv, Program, Sync, BeginSync, Go, ProgramTyped, SaveGoesOn, MenuSave, Starting,
       Known, Phases

\* A save goes on from step to step.
LEMMA SaveStepSafe == ASSUME ProgramInv, SaveStep PROVE Program'
<1> USE DEF ProgramInv, Program, SaveStep, FallShort, Closed
<1>1. UNCHANGED <<name, text, auto, autos>>
  BY DEF FileStep, Compare, KeepOld, Install, Renamed, TouchEnd, WriteHeader, WriteAuto, Touch,
         saveVars
<1>2. step' # "none" /\ step' # "tmp"
  BY DEF FileStep, Compare, KeepOld, Install, Renamed, TouchEnd, WriteHeader, WriteAuto, Touch,
         After, AfterWrite
<1>3. step \in {"tmp", "old", "new", "done"} /\ ~autos => step' \in {"old", "new", "done"}
  BY DEF FileStep, Compare, KeepOld, Install, Renamed, TouchEnd, WriteHeader, WriteAuto, Touch,
         After, AfterWrite
<1>4. SaveGoesOn' BY <1>1, <1>2 DEF SaveGoesOn, uiVars
<1>5. MenuSave' BY <1>1, <1>3 DEF MenuSave, uiVars
<1> QED BY <1>1, <1>2, <1>4, <1>5 DEF ProgramTyped, Starting, Known, Phases, uiVars

\* The file holds what was saved, which is what the program holds, or a write fell short.
LEMMA SaveEndSafe == ASSUME ProgramInv, SaveEnd PROVE Program'
<1> USE DEF ProgramInv, Program, SaveEnd, EndOk, Ended, Go
<1>1. back = "menu" /\ temp = text => name \in {Config, "alt"} /\ Same(disk[name], Text(values))
  BY DEF SaveGoesOn, MenuSave, FilesInv, Typed, Purposeful, Written, Later, Same
<1>2. back = "menu" => name \in {Config, "alt"}
  BY DEF SaveGoesOn, MenuSave, FilesInv, Typed
<1>3. (ProgramTyped /\ SaveGoesOn /\ MenuSave /\ Starting)'
  BY <1>2 DEF ProgramTyped, SaveGoesOn, MenuSave, Starting, Phases, Reading
<1>4. Known'
  <2>1. CASE temp = text BY <1>1, <2>1 DEF SaveGoesOn, Known
  <2>2. CASE temp # text /\ back = "menu"
    BY <2>2 DEF SaveGoesOn, Known
  <2>3. CASE back # "menu" BY <2>3 DEF SaveGoesOn, Known
  <2> QED BY <2>1, <2>2, <2>3
<1> QED BY <1>3, <1>4

\* After rename() has failed the change flag is set again; before it nothing has changed.
LEMMA SaveFailsSafe == ASSUME ProgramInv, SaveFails PROVE Program'
<1> USE DEF ProgramInv, Program, SaveFails, EndFailed, Ended, Go, Busy, uiVars
<1>1. (ProgramTyped /\ SaveGoesOn /\ MenuSave /\ Starting)'
  BY DEF ProgramTyped, SaveGoesOn, MenuSave, Starting, Phases, Reading
<1>2. back = "menu" => step \in {"tmp", "new"} BY DEF MenuSave
<1>3. Known' BY <1>2 DEF SaveGoesOn, Known
<1> QED BY <1>1, <1>3

LEMMA KillSafe == ASSUME ProgramInv, Kill PROVE Program'
BY DEF ProgramInv, Program, Kill, EndKilled, Ended, Go, ProgramTyped, SaveGoesOn, MenuSave,
       Starting, Known, Phases, Reading, uiVars

\* Every step keeps the invariant.
LEMMA ProgramStep == ProgramInv /\ [Next]_vars => ProgramInv'
<1> SUFFICES ASSUME ProgramInv, [Next]_vars PROVE ProgramInv'
  OBVIOUS
<1>1. FilesInv' BY StepUsesFiles, StepSafe DEF ProgramInv
<1>2. Program'
  <2>1. CASE Parse \/ Read \/ ReadMissing \/ ReadSeed \/ Mode \/ Asked
      \/ WriteDefconfig \/ Restart \/ Make
    BY <2>1, QuietSafe
  <2>2. CASE Answer \/ Load \/ LoadMissing \/ ExitNoSave BY <2>2, MenuSafe
  <2>3. CASE Save BY <2>3, SavesSafe DEF Save
  <2>4. CASE ExitSave BY <2>4, SavesSafe DEF ExitSave, ProgramInv, Program, ProgramTyped
  <2>5. CASE Write BY <2>5, SavesSafe DEF Write
  <2>6. CASE Sync BY <2>6, SyncSafe
  <2>7. CASE SaveStep \/ SaveEnd \/ SaveFails \/ Kill
    BY <2>7, SaveStepSafe, SaveEndSafe, SaveFailsSafe, KillSafe
  <2>8. CASE UNCHANGED vars
    <3>1. UNCHANGED <<values, phase, changed, filename, missed, short, back,
                      disk, step, name, text, autos>>
      BY <2>8 DEF vars, uiVars, fileVars, saveVars
    <3> QED BY <3>1 DEF ProgramInv, Program, ProgramTyped, SaveGoesOn, MenuSave, Starting, Known
  <2> QED BY <2>1, <2>2, <2>3, <2>4, <2>5, <2>6, <2>7, <2>8 DEF Next
<1> QED BY <1>1, <1>2 DEF ProgramInv

\* conf_get_changed(): for every meaning of a configuration, whatever is answered,
\* loaded and saved, and whichever call fails, mconf asks whether to save when the file
\* does not hold the values on the screen - unless a Load has named a missing file, or a
\* write of its last save fell short.
THEOREM NothingIsLost == Spec => []UnsavedKnown
<1>1. ProgramInv => UnsavedKnown BY DEF ProgramInv, Program, Known, UnsavedKnown, Unsaved
<1> QED BY <1>1, ProgramInit, ProgramStep, PTL DEF Spec

\* The programs do to the files what FilesSpec says: so what they save is replaced as a
\* whole, and what make has compiled against another header is compiled again, with the
\* exceptions of ConfigIsStored and TouchedInvariant.
THEOREM ProgramUsesFiles == Spec => FilesSpec
<1>1. Init => FilesInit BY DEF Init
<1> QED BY <1>1, ProgramInit, ProgramStep, StepUsesFiles, PTL DEF Spec, FilesSpec

\* conf_write() in both programs, for every meaning of a configuration.
THEOREM ProgramStores == Spec => StoreImplemented
BY ProgramUsesFiles, ConfigIsStored, PTL

\* conf_write_autoconf() in both programs, for every meaning of a configuration.
THEOREM ProgramTouches == Spec => []ChangesAreTouched
BY ProgramUsesFiles, TouchedInvariant, PTL

\* conf_write(): when the last call of a save is done, the file that was named holds the
\* values of the program, though it has been going through its steps one by one - or else
\* just what had reached the temporary file when a write fell short.
SavedIsHeld ==
  phase = "save" /\ step = "done" /\ name # "" =>
    disk[name] = temp /\ (temp = text => temp = Text(values))
THEOREM SaveIsComplete == Spec => []SavedIsHeld
<1>1. ProgramInv => SavedIsHeld
  BY DEF ProgramInv, Program, SaveGoesOn, FilesInv, Written, Later, SavedIsHeld
<1> QED BY <1>1, ProgramInit, ProgramStep, PTL DEF Spec

-----------------------------------------------------------------------------
(* Expressions.  expr_calc_value() gives the values of operands, ExprValue in*)
(* KconfigSymbol those of all expressions; type are the types of the symbols *)
(* names, v their values.                                                    *)
\* What the values of symbols can be.
Valuation(names, type, v) ==
  /\ Constants \subseteq names /\ v["y"] = 2 /\ v["m"] = 1 /\ v["n"] = 0
  /\ \A s \in names : /\ type[s] = "tristate" => v[s] \in 0..2
                      /\ type[s] = "bool" => v[s] \in {0, 2}
  /\ \A s \in Constants : type[s] = "tristate"

\* The expressions that a rule may join.
Atoms(names)    == {Sym(s) : s \in names} \cup
                   {Comp(op, s, t) : op \in Comparisons, s \in names, t \in names}
Operands(names) == Atoms(names) \cup {Not(a) : a \in Atoms(names)}

\* expr_calc_value() of what is not made of two operands
AtomValue(type, v, a) ==
  IF Op(a) = "sym" THEN IF type[Left(a)] \in {"bool", "tristate"} THEN v[Left(a)] ELSE 0
  ELSE IF Holds(Op(a), v[Left(a)], v[Right(a)]) THEN 2 ELSE 0
OperandValue(type, v, e) ==
  IF Op(e) = "not" THEN 2 - AtomValue(type, v, Left(e)) ELSE AtomValue(type, v, e)

\* The constants in some order; a symbol that counts; an operand about s.
Three(b, c, d) == {b, c, d} = Constants
Counts(type, s)   == type[s] \in {"bool", "tristate"}
About(s, e)    == Op(e) = "not" \/ Left(e) = s

\* Of what kind the operands are.
LEMMA SymIs ==
  ASSUME NEW s
  PROVE  Op(Sym(s)) = "sym" /\ Left(Sym(s)) = s
BY DEF Op, Left, Sym

LEMMA CompIs ==
  ASSUME NEW op, NEW s, NEW t
  PROVE  Op(Comp(op, s, t)) = op /\ Left(Comp(op, s, t)) = s /\ Right(Comp(op, s, t)) = t
BY DEF Op, Left, Right, Comp

LEMMA NotIs ==
  ASSUME NEW e
  PROVE  Op(Not(e)) = "not" /\ Left(Not(e)) = e
BY DEF Op, Left, Not

LEMMA AtomIs ==
  ASSUME NEW names, NEW a \in Atoms(names)
  PROVE  /\ Op(a) # "not" /\ Op(a) # "null" /\ Left(a) \in names
         /\ Op(a) \in {"=", "!="} => Right(a) \in names
<1>1. CASE \E s \in names : a = Sym(s) BY <1>1, SymIs
<1>2. CASE \E op \in Comparisons, s \in names, t \in names : a = Comp(op, s, t)
  BY <1>2, CompIs DEF Comparisons
<1> QED BY <1>1, <1>2 DEF Atoms

\* Values of the operands that the rules are about.
LEMMA EqualValue ==
  ASSUME NEW type, NEW v, NEW e, Op(e) = "="
  PROVE  OperandValue(type, v, e) = IF v[Left(e)] = v[Right(e)] THEN 2 ELSE 0
BY DEF OperandValue, AtomValue, Holds

LEMMA UnequalValue ==
  ASSUME NEW type, NEW v, NEW e, Op(e) = "!="
  PROVE  OperandValue(type, v, e) = IF v[Left(e)] # v[Right(e)] THEN 2 ELSE 0
BY DEF OperandValue, AtomValue, Holds

LEMMA SymbolValue ==
  ASSUME NEW type, NEW v, NEW s, type[s] \in {"bool", "tristate"}
  PROVE  /\ OperandValue(type, v, Sym(s)) = v[s]
         /\ OperandValue(type, v, Not(Sym(s))) = 2 - v[s]
BY SymIs, NotIs DEF OperandValue, AtomValue

\* The symbol of a join is a bool or tristate one, and the left side of a comparison.
LEMMA OperandSymbol ==
  ASSUME NEW names, NEW x \in Operands(names)
  PROVE  IF Op(x) = "not" THEN Left(Left(x)) \in names ELSE Left(x) \in names
BY AtomIs, NotIs DEF Operands

LEMMA JoinSymbolIs ==
  ASSUME NEW names, NEW type, NEW e \in Operands(names), NEW f \in Operands(names),
         JoinSymbol(type, e, f) # ""
  PROVE  /\ JoinSymbol(type, e, f) \in names
         /\ Counts(type, JoinSymbol(type, e, f))
         /\ About(JoinSymbol(type, e, f), e) /\ About(JoinSymbol(type, e, f), f)
BY OperandSymbol DEF JoinSymbol, Counts, About

\* The three values of a tristate symbol are those of the constants.
LEMMA ThreeValues ==
  ASSUME NEW names, NEW type, NEW v, Valuation(names, type, v),
         NEW s \in names, type[s] = "tristate",
         NEW b, NEW c, NEW d, Three(b, c, d)
  PROVE  v[s] \in {v[b], v[c], v[d]} /\ v[b] # v[c] /\ v[b] # v[d] /\ v[c] # v[d]
BY DEF Valuation, Constants, Three

\* e || f, for the symbol they are about.
LEMMA BothEqual ==
  ASSUME NEW names, NEW type, NEW v, Valuation(names, type, v),
         NEW s \in names, type[s] = "tristate",
         NEW e, NEW f, NEW b, NEW c, NEW d, Three(b, c, d),
         Both("=", e, f, b, c), Left(e) = s, Left(f) = s
  PROVE  OperandValue(type, v, Comp("!=", s, d)) =
          Most(OperandValue(type, v, e), OperandValue(type, v, f))
<1>1. v[s] \in {v[b], v[c], v[d]} /\ v[b] # v[c] /\ v[b] # v[d] /\ v[c] # v[d]
  BY ThreeValues
<1>2. OperandValue(type, v, Comp("!=", s, d)) = IF v[s] # v[d] THEN 2 ELSE 0
  BY CompIs, UnequalValue
<1>3. OperandValue(type, v, e) = IF v[s] = v[Right(e)] THEN 2 ELSE 0 BY EqualValue DEF Both
<1>4. OperandValue(type, v, f) = IF v[s] = v[Right(f)] THEN 2 ELSE 0 BY EqualValue DEF Both
<1>5. (Right(e) = b /\ Right(f) = c) \/ (Right(e) = c /\ Right(f) = b)
  BY DEF Both
<1> QED BY <1>1, <1>2, <1>3, <1>4, <1>5 DEF Most

LEMMA OrOfKeepsValue ==
  ASSUME NEW names, NEW type, NEW v, Valuation(names, type, v),
         NEW s \in names, Counts(type, s), NEW e, NEW f, About(s, e), About(s, f),
         OrOf(type, s, e, f) # Null
  PROVE  OperandValue(type, v, OrOf(type, s, e, f)) =
          Most(OperandValue(type, v, e), OperandValue(type, v, f))
<1>1. CASE type[s] = "tristate"
  <2>1. PICK b, c, d : /\ Three(b, c, d) /\ Both("=", e, f, b, c)
                       /\ OrOf(type, s, e, f) = Comp("!=", s, d)
    BY <1>1 DEF OrOf, Constants, Three
  <2>2. Left(e) = s /\ Left(f) = s BY <2>1 DEF Both, About
  <2>3. OperandValue(type, v, Comp("!=", s, d)) =
          Most(OperandValue(type, v, e), OperandValue(type, v, f))
    BY <1>1, <2>1, <2>2, BothEqual
  <2> QED BY <2>1, <2>3
<1>2. CASE type[s] = "bool"
  <2>1. {e, f} = {Sym(s), Not(Sym(s))} /\ OrOf(type, s, e, f) = Yes BY <1>2 DEF OrOf
  <2>2. v[s] \in {0, 2} BY <1>2 DEF Valuation
  <2>3. Yes = Sym("y") /\ type["y"] = "tristate" /\ v["y"] = 2 BY DEF Yes, Sym, Valuation, Constants
  <2>4. OperandValue(type, v, Yes) = 2 BY <2>3, SymbolValue
  <2>5. OperandValue(type, v, Sym(s)) = v[s] /\ OperandValue(type, v, Not(Sym(s))) = 2 - v[s]
    BY SymbolValue DEF Counts
  <2>6. CASE e = Sym(s) /\ f = Not(Sym(s)) BY <2>1, <2>2, <2>4, <2>5, <2>6 DEF Most
  <2>7. CASE f = Sym(s) /\ e = Not(Sym(s)) BY <2>1, <2>2, <2>4, <2>5, <2>7 DEF Most
  <2> QED BY <2>1, <2>6, <2>7
<1> QED BY <1>1, <1>2 DEF Counts

\* expr_join_or(): whatever the symbols are, the one expression has the value of e || f.
THEOREM JoinOrKeepsValue ==
  ASSUME NEW names, NEW type, NEW v, Valuation(names, type, v),
         NEW e \in Operands(names), NEW f \in Operands(names),
         JoinedOr(type, e, f) # Null
  PROVE  OperandValue(type, v, JoinedOr(type, e, f)) =
           Most(OperandValue(type, v, e), OperandValue(type, v, f))
<1>1. PICK s : s = JoinSymbol(type, e, f) OBVIOUS
<1>2. s # "" /\ JoinedOr(type, e, f) = OrOf(type, s, e, f) BY <1>1 DEF JoinedOr
<1>3. s \in names /\ Counts(type, s) /\ About(s, e) /\ About(s, f)
  BY <1>1, <1>2, JoinSymbolIs, Zenon
<1>4. OperandValue(type, v, OrOf(type, s, e, f)) =
        Most(OperandValue(type, v, e), OperandValue(type, v, f))
  <2>1. OrOf(type, s, e, f) # Null BY <1>2
  <2> QED BY <2>1, <1>3, OrOfKeepsValue
<1> QED BY <1>2, <1>4
\* e && f, for two comparisons of the symbol.
LEMMA BothUnequal ==
  ASSUME NEW names, NEW type, NEW v, Valuation(names, type, v),
         NEW s \in names, type[s] = "tristate",
         NEW e, NEW f, NEW b, NEW c, NEW d, Three(b, c, d),
         Both("!=", e, f, b, c), Left(e) = s, Left(f) = s
  PROVE  OperandValue(type, v, Comp("=", s, d)) =
          Least(OperandValue(type, v, e), OperandValue(type, v, f))
<1>1. v[s] \in {v[b], v[c], v[d]} /\ v[b] # v[c] /\ v[b] # v[d] /\ v[c] # v[d]
  BY ThreeValues
<1>2. OperandValue(type, v, Comp("=", s, d)) = IF v[s] = v[d] THEN 2 ELSE 0
  BY CompIs, EqualValue
<1>3. OperandValue(type, v, e) = IF v[s] # v[Right(e)] THEN 2 ELSE 0 BY UnequalValue DEF Both
<1>4. OperandValue(type, v, f) = IF v[s] # v[Right(f)] THEN 2 ELSE 0 BY UnequalValue DEF Both
<1>5. (Right(e) = b /\ Right(f) = c) \/ (Right(e) = c /\ Right(f) = b)
  BY DEF Both
<1> QED BY <1>1, <1>2, <1>3, <1>4, <1>5 DEF Least

LEMMA NarrowKeepsValue ==
  ASSUME NEW names, NEW type, NEW v, Valuation(names, type, v), NEW s, NEW e, NEW f, Differ(e, f),
         Left(e) = s, Left(f) = s
  PROVE  OperandValue(type, v, Narrow(s, e, f)) =
          Least(OperandValue(type, v, e), OperandValue(type, v, f))
<1>1. OperandValue(type, v, e) = IF v[s] = v[Right(e)] THEN 2 ELSE 0 BY EqualValue DEF Differ
<1>2. OperandValue(type, v, f) = IF v[s] # v[Right(f)] THEN 2 ELSE 0 BY UnequalValue DEF Differ
<1>3. CASE Right(e) = Right(f)
  <2>1. No = Sym("n") /\ type["n"] = "tristate" /\ v["n"] = 0 BY DEF No, Sym, Valuation, Constants
  <2>2. OperandValue(type, v, No) = 0 BY <2>1, SymbolValue
  <2> QED BY <1>1, <1>2, <1>3, <2>2 DEF Narrow, Least
<1>4. CASE Right(e) # Right(f)
  <2>1. v[Right(e)] # v[Right(f)] BY <1>4 DEF Differ, Constants, Valuation
  <2>2. OperandValue(type, v, Comp("=", s, Right(e))) = IF v[s] = v[Right(e)] THEN 2 ELSE 0
    BY CompIs, EqualValue
  <2> QED BY <1>1, <1>2, <1>4, <2>1, <2>2 DEF Narrow, Least
<1> QED BY <1>3, <1>4

\* A symbol that counts, and its comparison to a constant.
LEMMA SymAndKeepsValue ==
  ASSUME NEW names, NEW type, NEW v, Valuation(names, type, v), NEW s \in names, Counts(type, s),
         NEW e, NEW f, JoinSymAnd(s, e, f) # Null
  PROVE  OperandValue(type, v, JoinSymAnd(s, e, f)) =
          Least(OperandValue(type, v, e), OperandValue(type, v, f))
<1>1. v[s] \in 0..2 /\ v["y"] = 2 /\ v["m"] = 1 /\ v["n"] = 0 BY DEF Counts, Valuation
<1>2. OperandValue(type, v, Sym(s)) = v[s] BY SymbolValue DEF Counts
<1>3. \A c : OperandValue(type, v, Comp("=", s, c)) = IF v[s] = v[c] THEN 2 ELSE 0
  BY CompIs, EqualValue
<1>4. \A c : OperandValue(type, v, Comp("!=", s, c)) = IF v[s] # v[c] THEN 2 ELSE 0
  BY CompIs, UnequalValue
<1>5. ASSUME NEW x, NEW y, {e, f} = {x, y}
      PROVE  Least(OperandValue(type, v, e), OperandValue(type, v, f)) \in
               {Least(OperandValue(type, v, x), OperandValue(type, v, y)),
                Least(OperandValue(type, v, y), OperandValue(type, v, x))}
  <2>1. (e = x /\ f = y) \/ (e = y /\ f = x) BY <1>5
  <2> QED BY <2>1
<1>6. CASE SymAnd(s, "=", "y", e, f) /\ JoinSymAnd(s, e, f) = Comp("=", s, "y")
  BY <1>1, <1>2, <1>3, <1>5, <1>6 DEF SymAnd, Least
<1>7. CASE SymAnd(s, "!=", "n", e, f) /\ JoinSymAnd(s, e, f) = Sym(s)
  BY <1>1, <1>2, <1>4, <1>5, <1>7 DEF SymAnd, Least
<1>8. CASE SymAnd(s, "!=", "m", e, f) /\ JoinSymAnd(s, e, f) = Comp("=", s, "y")
  BY <1>1, <1>2, <1>3, <1>4, <1>5, <1>8 DEF SymAnd, Least
<1> QED BY <1>6, <1>7, <1>8 DEF JoinSymAnd

LEMMA AndOfKeepsValue ==
  ASSUME NEW names, NEW type, NEW v, Valuation(names, type, v), NEW s \in names, Counts(type, s),
         NEW e, NEW f, About(s, e), About(s, f), AndOf(type, s, e, f) # Null
  PROVE  OperandValue(type, v, AndOf(type, s, e, f)) =
           Least(OperandValue(type, v, e), OperandValue(type, v, f))
<1>1. CASE JoinSymAnd(s, e, f) # Null /\ AndOf(type, s, e, f) = JoinSymAnd(s, e, f)
  <2>1. OperandValue(type, v, JoinSymAnd(s, e, f)) =
          Least(OperandValue(type, v, e), OperandValue(type, v, f))
    BY <1>1, SymAndKeepsValue
  <2> QED BY <1>1, <2>1
<1>2. CASE Differ(e, f) /\ AndOf(type, s, e, f) = Narrow(s, e, f)
  <2>1. Left(e) = s /\ Left(f) = s BY <1>2 DEF Differ, About
  <2>2. OperandValue(type, v, Narrow(s, e, f)) =
          Least(OperandValue(type, v, e), OperandValue(type, v, f))
    BY <1>2, <2>1, NarrowKeepsValue
  <2> QED BY <1>2, <2>2
<1>3. CASE Differ(f, e) /\ AndOf(type, s, e, f) = Narrow(s, f, e)
  <2>1. Left(e) = s /\ Left(f) = s BY <1>3 DEF Differ, About
  <2>2. OperandValue(type, v, Narrow(s, f, e)) =
          Least(OperandValue(type, v, f), OperandValue(type, v, e))
    BY <1>3, <2>1, NarrowKeepsValue
  <2>3. OperandValue(type, v, e) \in {0, 2} /\ OperandValue(type, v, f) \in {0, 2}
    BY <1>3, EqualValue, UnequalValue DEF Differ
  <2> QED BY <1>3, <2>2, <2>3 DEF Least
<1>4. CASE type[s] = "tristate" /\ \E b, c, d : /\ Three(b, c, d) /\ Both("!=", e, f, b, c)
                                              /\ AndOf(type, s, e, f) = Comp("=", s, d)
  <2>1. PICK b, c, d : /\ Three(b, c, d) /\ Both("!=", e, f, b, c)
                       /\ AndOf(type, s, e, f) = Comp("=", s, d)
    BY <1>4
  <2>2. Left(e) = s /\ Left(f) = s BY <2>1 DEF Both, About
  <2>3. OperandValue(type, v, Comp("=", s, d)) =
          Least(OperandValue(type, v, e), OperandValue(type, v, f))
    BY <1>4, <2>1, <2>2, BothUnequal
  <2> QED BY <2>1, <2>3
<1>5. Three("y", "n", "m") /\ Three("y", "m", "n") /\ Three("m", "n", "y") BY DEF Three, Constants
<1> QED BY <1>1, <1>2, <1>3, <1>4, <1>5 DEF AndOf

\* expr_join_and(): whatever the symbols are, the one expression has the value of e && f.
THEOREM JoinAndKeepsValue ==
  ASSUME NEW names, NEW type, NEW v, Valuation(names, type, v),
         NEW e \in Operands(names), NEW f \in Operands(names), JoinedAnd(type, e, f) # Null
  PROVE  OperandValue(type, v, JoinedAnd(type, e, f)) =
           Least(OperandValue(type, v, e), OperandValue(type, v, f))
<1>1. PICK s : s = JoinSymbol(type, e, f) OBVIOUS
<1>2. s # "" /\ JoinedAnd(type, e, f) = AndOf(type, s, e, f) BY <1>1 DEF JoinedAnd
<1>3. s \in names /\ Counts(type, s) /\ About(s, e) /\ About(s, f)
  BY <1>1, <1>2, JoinSymbolIs, Zenon
<1>4. OperandValue(type, v, AndOf(type, s, e, f)) =
        Least(OperandValue(type, v, e), OperandValue(type, v, f))
  <2>1. AndOf(type, s, e, f) # Null BY <1>2
  <2> QED BY <2>1, <1>3, AndOfKeepsValue
<1> QED BY <1>2, <1>4

\* expr_transform(): a negated comparison, for any two numbers the symbols are.
THEOREM NegatedIsNot ==
  ASSUME NEW op \in Comparisons, NEW l \in Int, NEW r \in Int
  PROVE  Holds(Negated[op], l, r) <=> ~Holds(op, l, r)
<1>1. CASE op = "="
  <2>1. Negated[op] = "!=" BY <1>1 DEF Negated
  <2> QED BY <1>1, <2>1 DEF Holds
<1>2. CASE op = "!="
  <2>1. Negated[op] = "=" BY <1>2 DEF Negated
  <2> QED BY <1>2, <2>1 DEF Holds
<1>3. CASE op = "<"
  <2>1. Negated[op] = ">=" BY <1>3 DEF Negated
  <2> QED BY <1>3, <2>1 DEF Holds
<1>4. CASE op = "<="
  <2>1. Negated[op] = ">" BY <1>4 DEF Negated
  <2> QED BY <1>4, <2>1 DEF Holds
<1>5. CASE op = ">"
  <2>1. Negated[op] = "<=" BY <1>5 DEF Negated
  <2> QED BY <1>5, <2>1 DEF Holds
<1>6. CASE op = ">="
  <2>1. Negated[op] = "<" BY <1>6 DEF Negated
  <2> QED BY <1>6, <2>1 DEF Holds
<1> QED BY <1>1, <1>2, <1>3, <1>4, <1>5, <1>6 DEF Comparisons

\* expr_transform(): a comparison of a bool symbol to y, m or n, as a condition on it.
THEOREM OfBoolKeepsValue ==
  ASSUME NEW names, NEW type, NEW v, Valuation(names, type, v), NEW s \in names, type[s] = "bool",
         NEW op \in {"=", "!="}, NEW c \in Constants, op = "!=" => c # "y"
  PROVE  OperandValue(type, v, OfBool(Comp(op, s, c))) = OperandValue(type, v, Comp(op, s, c))
<1>1. v[s] \in {0, 2} /\ v["y"] = 2 /\ v["m"] = 1 /\ v["n"] = 0 BY DEF Valuation
<1>2. OperandValue(type, v, Sym(s)) = v[s] /\ OperandValue(type, v, Not(Sym(s))) = 2 - v[s]
  BY SymbolValue
<1>3. OperandValue(type, v, Yes) = 2 /\ OperandValue(type, v, No) = 0
  <2>1. Yes = Sym("y") /\ type["y"] = "tristate" /\ No = Sym("n") /\ type["n"] = "tristate"
    BY DEF Yes, No, Sym, Valuation, Constants
  <2> QED BY <1>1, <2>1, SymbolValue
<1>4. Op(Comp(op, s, c)) = op /\ Left(Comp(op, s, c)) = s /\ Right(Comp(op, s, c)) = c BY CompIs
<1>5. CASE op = "="
  <2>1. OperandValue(type, v, Comp(op, s, c)) = IF v[s] = v[c] THEN 2 ELSE 0
    BY <1>4, <1>5, EqualValue
  <2> QED BY <1>1, <1>2, <1>3, <1>4, <1>5, <2>1 DEF OfBool, Constants
<1>6. CASE op = "!="
  <2>1. OperandValue(type, v, Comp(op, s, c)) = IF v[s] # v[c] THEN 2 ELSE 0
    BY <1>4, <1>6, UnequalValue
  <2> QED BY <1>1, <1>2, <1>3, <1>4, <1>6, <2>1 DEF OfBool, Constants
<1> QED BY <1>5, <1>6
=============================================================================
