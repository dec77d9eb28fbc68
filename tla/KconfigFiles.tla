---------------------------- MODULE KconfigFiles ----------------------------
(* The files conf and mconf write (conf_write() and conf_write_autoconf() in *)
(* parser/confdata.c), one system call after another, with the failures of   *)
(* the calls and the death of the program between them.                      *)
(* A text is a sequence of lines <<name, value>>.  The temporary file has    *)
(* the name of the process and nobody else opens it.                         *)
EXTENDS Sequences, SequencesExt

CONSTANT NoFile

VARIABLES disk,     \* the text of each file, NoFile when it does not exist
          step,     \* the next call of the save in progress
          name,     \* the file it saves to, "" when it leaves .config alone
          text,     \* what is to go there
          temp,     \* what of it has reached the temporary file
          auto,     \* what goes to auto.conf and autoconf.h
          autos,    \* are they written?
          outcome,  \* how the last save of .config ended
          touched,  \* the symbols whose dependency file is newer than their objects
          built,    \* the lines of the header the objects were compiled with
          early     \* the symbols compiled before auto.conf had their values
saveVars == <<name, text, temp, auto, autos>>
makeVars == <<touched, built, early>>
fileVars == <<disk, step, saveVars, outcome, makeVars>>

Config == ".config"
AutoConf == "auto.conf"
Header == "autoconf.h"
OldOf  == [n \in {Config, "alt"} |-> IF n = Config THEN ".config.old" ELSE "alt.old"]
Files  == {Config, "alt", "defconfig", AutoConf, Header, ".config.old", "alt.old"}

Busy       == step \notin {"none", "done"}
AfterWrite == IF autos THEN "touch" ELSE "done"
AfterAutoFirst(st) ==   \* auto.conf is written before the dependency files
  CASE st = "tmp" -> "old" [] st = "old" -> "new" [] st = "new" -> IF autos THEN "header" ELSE "done"
    [] st = "touch" -> "done" [] st = "header" -> "auto" [] st = "auto" -> "touch"
After(st) ==
  CASE st = "tmp" -> "old" [] st = "old" -> "new" [] st = "new" -> AfterWrite
    [] st = "touch" -> "header" [] st = "header" -> "auto" [] st = "auto" -> "done"

FilesInit == /\ step = "none" /\ name = "" /\ text = <<>> /\ temp = <<>>
             /\ auto = <<>> /\ autos = FALSE
             /\ disk = [f \in Files |-> disk[f]] /\ {disk[AutoConf], disk[Header]} = {NoFile}
             /\ outcome = "none" /\ touched = {} /\ built = NoFile /\ early = {}

\* conf_write() to n, then conf_write_autoconf() if w.
BeginSave(n, t, a, w) ==
  /\ step = "none" /\ step' = "tmp"
  /\ name' = n /\ text' = t /\ temp' = t /\ auto' = a /\ autos' = w
  /\ UNCHANGED <<disk, outcome, makeVars>>
\* conf_write_autoconf() alone.
BeginSync(a) ==
  /\ step = "none" /\ step' = "touch"
  /\ name' = "" /\ auto' = a /\ autos' = TRUE
  /\ UNCHANGED <<text, temp, disk, outcome, makeVars>>

(* t has reached the temporary file when it is closed; the rest is skipped   *)
(* when .config is the same.  Nothing asks fprintf() and fclose() whether t  *)
(* is the text: on a full disk it is a part of it.                           *)
Closed(t)  == /\ step = "tmp" /\ temp' = t
              /\ step' = IF disk[name] = t THEN AfterWrite ELSE After(step)
              /\ UNCHANGED <<disk, name, text, auto, autos, outcome, makeVars>>
Compare    == Closed(text)
FallShort(t) == t \notin {text, NoFile} /\ Closed(t)
Parts(t)   == {SubSeq(t, 1, n) : n \in 0..Len(t) - 1}

(* rename(name, name.old); it fails without effect when there is no name. *)
KeepOldRemoves == /\ step = "old"   \* .config is removed, not kept as .config.old
                  /\ disk' = [disk EXCEPT ![name] = NoFile]
                  /\ step' = After(step)
                  /\ UNCHANGED <<saveVars, outcome, makeVars>>
KeepOld == /\ step = "old"
           /\ disk' = IF disk[name] = NoFile THEN disk
                      ELSE [disk EXCEPT ![OldOf[name]] = disk[name], ![name] = NoFile]
           /\ step' = After(step)
           /\ UNCHANGED <<saveVars, outcome, makeVars>>

\* rename(tmpname, n)
Renamed(st, n, t) == /\ step = st
                     /\ disk' = [disk EXCEPT ![n] = t]
                     /\ step' = After(step)
                     /\ UNCHANGED <<saveVars, outcome, makeVars>>
Install     == Renamed("new", name, temp)
\* __conf_write_autoconf() for the header, and for auto.conf, which is the last;
\* it asks ferror(), so that what is renamed is whole.
WriteHeader == Renamed("header", Header, auto)
WriteAuto   == Renamed("auto", AutoConf, auto)

(* conf_touch_deps(): one after another, the dependency files of the names   *)
(* whose value is not the one in auto.conf.                                  *)
Lines(f) == IF disk[f] = NoFile THEN {} ELSE ToSet(disk[f])
Changes(old, new) == {l[1] : l \in (old \ new) \cup (new \ old)}
ToTouch  == Changes(Lines(AutoConf), ToSet(auto))
Touch(s) == /\ step = "touch" /\ s \in ToTouch \ touched
            /\ touched' = touched \cup {s}
            /\ UNCHANGED <<disk, step, saveVars, outcome, built, early>>
TouchEnd == /\ step = "touch" /\ ToTouch \subseteq touched
            /\ step' = After(step)
            /\ UNCHANGED <<disk, saveVars, outcome, makeVars>>

FileStep == \/ Compare \/ KeepOld \/ Install \/ TouchEnd \/ WriteHeader \/ WriteAuto
            \/ \E s \in ToTouch : Touch(s)

\* The save is over; that of another file is no news of .config.
Ended(how) == /\ step' = "none" /\ name' = "" /\ text' = <<>> /\ temp' = <<>>
              /\ auto' = <<>> /\ autos' = FALSE
              /\ outcome' = IF name = Config THEN how ELSE outcome
              /\ UNCHANGED <<disk, makeVars>>
EndOk      == step = "done" /\ Ended("ok")
\* fopen() or rename() fails, or a write of __conf_write_autoconf(); that there is no
\* .config to rename is no failure.
EndFailed  == Busy /\ step # "old" /\ Ended("failed")
\* The program dies between two calls.
EndKilled  == step # "none" /\ Ended("killed")

\* conf_write_defconfig(): written in place; nothing asks whether t is the whole text.
PutDefconfig(t) == /\ step = "none" /\ disk' = [disk EXCEPT !["defconfig"] = t]
                   /\ UNCHANGED <<step, saveVars, outcome, makeVars>>

(* make compiles what is older than its dependency files, with the header    *)
(* that is there; what depends on the header as a whole is always older.     *)
(* Nothing looks at auto.conf: sync_config_header starts conf when there is  *)
(* no header, or when .config is newer by a whole second, and a make that    *)
(* does not call it compiles anyway.                                         *)
Build == /\ step = "none" /\ disk[Header] # NoFile
         /\ built = NoFile \/ touched # {}
         /\ built' = IF built = NoFile THEN Lines(Header)
                     ELSE {l \in Lines(Header) : l[1] \in touched} \cup {l \in built : l[1] \notin touched}
         /\ early' = (early \ touched) \cup Changes(Lines(AutoConf), Lines(Header))
         /\ touched' = {}
         /\ UNCHANGED <<disk, step, saveVars, outcome>>

\* What a program does to the files, whatever the texts are.
Begin     == \/ /\ BeginSave(name', text', auto', autos') /\ name' \in DOMAIN OldOf
                /\ NoFile \notin {text', auto'} /\ autos' \in BOOLEAN
             \/ BeginSync(auto') /\ auto' # NoFile
FilesNext == \/ Begin \/ FileStep \/ FallShort(temp') \/ EndOk \/ EndFailed \/ EndKilled
             \/ PutDefconfig(disk'["defconfig"]) \/ Build
FilesSpec == FilesInit /\ [][FilesNext]_fileVars

-----------------------------------------------------------------------------
\* The text a user finds: .config, or the one it was renamed to.
Stored  == IF disk[Config] # NoFile THEN disk[Config] ELSE disk[".config.old"]
Held    == IF name = Config THEN text ELSE NoFile
OnDisk  == IF name = Config THEN temp ELSE NoFile
Store   == INSTANCE ConfigStore
             WITH stored <- Stored, held <- Held, reached <- OnDisk, NoText <- NoFile

\* conf_write(): for every kill and failed call, .config is replaced as a whole by
\* what has reached the temporary file, and a save that reports success has replaced
\* it; that is the text to be saved, unless a write fell short, which nobody notices.
StoreImplemented == Store!Spec

\* conf_touch_deps() before the header and auto.conf: whatever make has compiled against
\* another value than the header now has, it will compile again - but for the symbols
\* that it compiled while auto.conf did not yet have the value of the header.
ChangesAreTouched == built # NoFile => Changes(built, Lines(Header)) \subseteq touched \cup early
=============================================================================
