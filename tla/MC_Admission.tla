----------------------------- MODULE MC_Admission -----------------------------
(***************************************************************************)
(* Model values and constants for TLC's run of Admission.                  *)
(***************************************************************************)
EXTENDS Admission, TLC

CONSTANTS p1, p2, f1, f2, f3, k1, c1, c2, c3

TwoProjects    == {p1, p2}
ThreeWorkflows == {f1, f2, f3}
TheirProjects  == f1 :> p1 @@ f2 :> p1 @@ f3 :> p2
OneKey         == {k1}
ThreeRequests  == {c1, c2, c3}
RequestsAreAlike == Permutations(ThreeRequests)
=============================================================================
