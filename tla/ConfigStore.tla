---------------------------- MODULE ConfigStore ----------------------------
(* What a saved configuration promises, whatever happens to the program that *)
(* saves it: there is one stored text; it is replaced as a whole, by what of *)
(* the saved text has reached the disk, at one moment; a save is reported as *)
(* done only when that is the stored text.  It is the whole text, unless a   *)
(* write has fallen short: that is nowhere noticed.                          *)
CONSTANT NoText     \* no save is in progress

VARIABLES stored,   \* the text a user would find
          held,     \* the text being saved
          reached,  \* what of it has reached the disk
          outcome   \* of the last save, as reported: "none", "ok", "failed", "killed"
vars == <<stored, held, reached, outcome>>

Init == held = NoText /\ reached = NoText /\ outcome = "none"

Begin  == /\ held = NoText /\ held' # NoText /\ reached' = held'
          /\ UNCHANGED <<stored, outcome>>
Short  == /\ held # NoText /\ reached = held /\ reached' # NoText
          /\ UNCHANGED <<stored, held, outcome>>
Commit == held # NoText /\ stored' = reached /\ UNCHANGED <<held, reached, outcome>>
End(how) == /\ held # NoText /\ held' = NoText /\ reached' = NoText
            /\ outcome' = how /\ stored' = stored
Done   == stored = reached /\ End("ok")
Abort  == End("failed") \/ End("killed")

Next == Begin \/ Short \/ Commit \/ Done \/ Abort
Spec == Init /\ [][Next]_vars
=============================================================================
