--------------------------- MODULE MCFetchPackage ---------------------------
(* An instance of FetchPackage for TLC. *)
EXTENDS FetchPackage

\* Two faults while the head stays, or one and a commit.
Budget == faults' + head' <= 3

\* While a script runs, nobody but those who push to the repository do anything that
\* it reads: an edited recipe is read by the next Start, a WORKDIR by its own builder.
InTurn == lock = None \/ pc' # pc \/ head' # head

MCSpec == Init /\ [][Next /\ Budget /\ InTurn]_vars /\ Fairness
=============================================================================
