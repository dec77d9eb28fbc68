------------------------------ MODULE PlainMake ------------------------------
(***************************************************************************)
(* What make all_targets would do without a build cache: every package is  *)
(* built, after the packages it depends on and against what those have     *)
(* installed in this make.                                                 *)
(***************************************************************************)
CONSTANTS
    Packages,
    Versions,
    None        \* nothing installed in this make

VARIABLES
    deps,    \* the packages each package depends on
    src,     \* the version of each package
    claimed, \* the packages of which the image is said, fewer as time goes by
    making,  \* a make runs
    made,    \* the packages it has built
    image    \* what each of them has installed
vars == <<deps, src, claimed, making, made, image>>

Init ==
    /\ deps \in [Packages -> SUBSET Packages] /\ src \in [Packages -> Versions]
    /\ claimed \subseteq Packages
    /\ making = FALSE /\ made = {}
    /\ image = [p \in Packages |-> None]

\* What p is compiled from: its sources, and the images it is compiled against.
Built(p) == [pkg |-> p, ver |-> src[p], on |-> {image[d] : d \in deps[p]}]

Start ==
    /\ ~making /\ making' = TRUE
    /\ UNCHANGED <<deps, src, claimed, made, image>>

\* Of a package that is not claimed the image may be any, and from any build on some
\* may be claimed no more.
Build(p) ==
    /\ making /\ p \notin made /\ deps[p] \subseteq made
    /\ made' = made \cup {p}
    /\ image' = [image EXCEPT ![p] = IF p \in claimed' THEN Built(p) ELSE image'[p]]
    /\ claimed' \subseteq claimed
    /\ UNCHANGED <<deps, src, making>>

\* The next make builds everything again.
End ==
    /\ making /\ making' = FALSE
    /\ made' = {} /\ image' = [p \in Packages |-> None]
    /\ UNCHANGED <<deps, src, claimed>>

Edit(p) ==
    /\ ~making
    /\ \E v \in Versions : src' = [src EXCEPT ![p] = v]
    /\ UNCHANGED <<deps, claimed, making, made, image>>

Next == Start \/ End \/ \E p \in Packages : Build(p) \/ Edit(p)
Spec == Init /\ [][Next]_vars
=============================================================================
