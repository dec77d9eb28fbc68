--------------------------- MODULE KconfigProgram ---------------------------
(* What conf and mconf promise about saving, whatever a configuration means: *)
(* there are values, which a step may change to any others, and a text for   *)
(* them.                                                                     *)
EXTENDS KconfigFiles

CONSTANT Text(_)    \* what conf_write() writes for the values

VARIABLES values,   \* what the program holds
          phase,    \* what the program does
          changed,  \* conf_changed
          filename, \* where mconf saves
          missed,   \* the last Load named no file
          short,    \* the files the program saved last by a write that fell short
          back      \* the phase a save returns to
uiVars == <<filename, missed, short, back>>
vars   == <<values, phase, changed, uiVars, fileVars>>

Reading == {"mode", "menu", "ask", "askall", "write", "exit"}
Same(t, s) == t # NoFile /\ ToSet(t) = ToSet(s)
Go(p)      == phase' = p

Init == /\ phase = "parse" /\ changed = FALSE
        /\ filename = Config /\ missed = FALSE /\ short = {} /\ back = ""
        /\ FilesInit

(* An action that says nothing of values' lets them become any others.       *)
\* conf_parse()
Parse == /\ phase \in {"parse", "check"}
         /\ phase' \in {"parse", "check", "failed", "start"}
         /\ changed' = (changed \/ phase' = "start")
         /\ UNCHANGED <<uiVars, fileVars>>

\* conf_read(): without a change flag the file says what is held.  mconf reads .config.
Read == /\ phase = "start" /\ phase' \in Reading
        /\ \E n \in {Config, "defconfig"} :
             /\ phase' = "menu" => n = Config
             /\ disk[n] # NoFile
             /\ changed' \in BOOLEAN /\ (changed' \/ Same(disk[n], Text(values')))
        /\ UNCHANGED <<uiVars, fileVars>>
ReadMissing == /\ phase = "start"
               /\ \/ disk[Config] = NoFile /\ changed' = TRUE /\ phase' \in Reading
                  \/ disk["defconfig"] = NoFile /\ changed' = FALSE /\ Go("exit")
               /\ UNCHANGED <<values, uiVars, fileVars>>
ReadSeed == /\ phase = "start" /\ Go("mode")
            /\ UNCHANGED <<changed, uiVars, fileVars>>

\* The modes of conf that ask nothing.
Mode == /\ phase = "mode" /\ Go("write")
        /\ changed' = TRUE
        /\ UNCHANGED <<uiVars, fileVars>>

\* An answer to conf, a key in mconf: conf_set_changed(), when anything is to be
\* written otherwise.
Answer == /\ phase \in {"ask", "askall", "menu"}
          /\ changed' \in {changed, TRUE}
          /\ changed' \/ Text(values') = Text(values)
          /\ UNCHANGED <<phase, uiVars, fileVars>>
Asked  == /\ \/ phase = "askall" /\ Go("ask")
             \/ phase = "ask" /\ Go("write")
          /\ UNCHANGED <<values, changed, uiVars, fileVars>>

\* conf_load()
Load == /\ phase = "menu"
        /\ \E n \in {Config, "alt"} : disk[n] # NoFile /\ filename' = n
        /\ changed' = TRUE /\ missed' = FALSE
        /\ UNCHANGED <<phase, short, back, fileVars>>
LoadMissing == /\ phase = "menu"
               /\ \E n \in {Config, "alt"} : disk[n] = NoFile
               /\ changed' = FALSE /\ missed' = TRUE
               /\ UNCHANGED <<values, phase, filename, short, back, fileVars>>

\* conf_write() of the values held, then conf_write_autoconf().
Saves(n, sync, p) ==
  /\ BeginSave(n, Text(values), auto', sync \/ (p = "exit" /\ disk[AutoConf] = NoFile))
  /\ NoFile \notin {text', auto'}
  /\ back' = p /\ Go("save")
  /\ UNCHANGED <<values, changed, filename, missed, short>>

Save     == phase = "menu" /\ \E n \in {Config, "alt"} : Saves(n, FALSE, "menu")
ExitSave == phase = "menu" /\ changed /\ Saves(filename, FALSE, "exit")
ExitNoSave == phase = "menu" /\ Go("exit") /\ UNCHANGED <<values, changed, uiVars, fileVars>>
Write    == phase = "write" /\ \E sync \in BOOLEAN : Saves(Config, sync, "exit")
Sync     == /\ phase = "write" /\ BeginSync(auto') /\ auto' # NoFile
            /\ back' = "exit" /\ Go("save")
            /\ UNCHANGED <<values, changed, filename, missed, short>>
WriteDefconfig == /\ phase = "write" /\ Go("exit")
                  /\ PutDefconfig(disk'["defconfig"])
                  /\ changed' = TRUE
                  /\ UNCHANGED <<values, uiVars>>

InWrite(st) == st \in {"tmp", "old", "new"}
SaveStep == /\ phase = "save" /\ (FileStep \/ FallShort(temp'))
            /\ changed' = (changed /\ (InWrite(step) => InWrite(step')))
            /\ UNCHANGED <<values, phase, uiVars>>
SaveEnd  == /\ phase = "save" /\ EndOk /\ Go(back)
            /\ filename' = IF back = "menu" THEN name ELSE filename
            /\ short' = IF temp = text THEN short \ {name} ELSE short \cup {name}
            /\ UNCHANGED <<values, changed, missed, back>>
SaveFails == /\ phase = "save" /\ EndFailed /\ Go(back)
             /\ changed' = (changed \/ step = "new")
             /\ UNCHANGED <<values, uiVars>>
Kill     == /\ phase = "save" /\ EndKilled /\ Go("exit")
            /\ UNCHANGED <<values, changed, uiVars>>

Restart == /\ phase = "exit" /\ Go("start")
           /\ changed' = TRUE /\ filename' = Config /\ missed' = FALSE /\ short' = {}
           /\ UNCHANGED <<back, fileVars>>
Make    == phase = "exit" /\ Build /\ UNCHANGED <<values, phase, changed, uiVars>>

Next == \/ Parse \/ Read \/ ReadMissing \/ ReadSeed \/ Mode \/ Answer \/ Asked
        \/ Load \/ LoadMissing \/ Save \/ ExitSave \/ ExitNoSave
        \/ Write \/ Sync \/ WriteDefconfig \/ SaveStep \/ SaveEnd \/ SaveFails \/ Kill
        \/ Restart \/ Make
Spec == Init /\ [][Next]_vars

-----------------------------------------------------------------------------
\* conf_get_changed() in mconf: if it asks no question at the end, the file holds
\* the values on the screen - unless a Load has named a file that does not exist, or
\* a write of its last save fell short.
Unsaved      == phase = "menu" /\ ~changed /\ ~Same(disk[filename], Text(values))
UnsavedKnown == Unsaved => missed \/ filename \in short
=============================================================================
