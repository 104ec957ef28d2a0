---------------------------- MODULE MC_Deployment ----------------------------
(***************************************************************************)
(* Model values for TLC's runs of Deployment.                              *)
(***************************************************************************)
EXTENDS Deployment, TLC

CONSTANTS p1, p2, c1, c2, c3, c4, c5

OneProc   == {p1}
TwoProcs  == {p1, p2}
FiveCalls == {c1, c2, c3, c4, c5}
NoCalls   == {}

\* A column of the first tables, a table of its own, and a column of that.
FourMigrations == <<1, 1, 3, 3>>
TwoHeads       == {2, 4}

Call(p, a, ok, m) == [via |-> p, actor |-> a, known |-> a # "none", allowed |-> ok, mutating |-> m]

\* A change and two reads by one operator, and at the other process a viewer who wants
\* a change and a client without a token.
Mixed == c1 :> Call(p1, "op", TRUE, TRUE) @@ c2 :> Call(p1, "op", TRUE, FALSE)
         @@ c3 :> Call(p1, "op", TRUE, FALSE) @@ c4 :> Call(p2, "viewer", FALSE, TRUE)
         @@ c5 :> Call(p2, "none", TRUE, TRUE)
NoWhat == [c \in {} |-> c]
=============================================================================
