---------------------------- MODULE MCPagedList ----------------------------
(* An instance of PagedList for TLC: two searches, pages of two rows. *)
EXTENDS PagedList

CONSTANTS s1, s2

TwoSearches == {s1, s2}
=============================================================================
