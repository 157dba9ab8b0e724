--------------------------- MODULE MCTokenRenewal ---------------------------
(* Instances of TokenRenewal for TLC. *)
EXTENDS TokenRenewal, TLC

CONSTANTS r1, r2, r3, p1, p2

\* Two requests share a path; one of the two is mapped, and so is the third.
ThreeRequests == {r1, r2, r3}
TwoPaths == {p1, p2}
SharedPath == (r1 :> p1) @@ (r2 :> p1) @@ (r3 :> p2)
MappedRequests == {r1, r3}

OneRequest == {r1}
OnePath == {p1}
ItsPath == r1 :> p1
NoneMapped == {}
=============================================================================
