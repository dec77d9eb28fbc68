----------------------------- MODULE MCBuildChain -----------------------------
(* Instances of BuildChain for TLC: the packages a, b and c. *)
EXTENDS BuildChain

CONSTANTS a, b, c, Missing

Tokens(kinds, names) == [kind : kinds, on : {<<q>> : q \in names}]

\* The order of the tokens of a line does not matter: of two orders one is tried.
TokensOfA == <<
    [kind |-> "strong", on |-> <<b>>], [kind |-> "strong", on |-> <<Missing>>],
    [kind |-> "weak", on |-> <<b>>], [kind |-> "weak", on |-> <<c>>],
    [kind |-> "cond", on |-> <<b>>],
    [kind |-> "either", on |-> <<b, c>>], [kind |-> "either", on |-> <<Missing, b>>] >>
LinesOfA == {<< >>} \cup {<<TokensOfA[i]>> : i \in DOMAIN TokensOfA}
                    \cup {<<TokensOfA[i], TokensOfA[j]>> : i, j \in DOMAIN TokensOfA}
LinesOfB == {<< >>} \cup {<<t>> : t \in Tokens({"strong", "weak", "cond"}, {a, c})}
                    \cup {<<[kind |-> "either", on |-> <<Missing, Missing>>]>>}
LinesOfC == {<< >>} \cup {<<t>> : t \in Tokens({"strong", "weak"}, {a, b})}

AllRecipes == {[p \in Packages |-> IF p = a THEN r ELSE IF p = b THEN s ELSE t] :
                 r \in LinesOfA, s \in LinesOfB, t \in LinesOfC}

\* a selects b or c with &&b|c; b may depend on c.
SelectRecipes == {[p \in Packages |-> IF p = a THEN <<[kind |-> "selecteither", on |-> <<b, c>>]>>
                                      ELSE IF p = b THEN s ELSE << >>] : s \in LinesOfB}
===============================================================================
