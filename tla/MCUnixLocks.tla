---------------------------- MODULE MCUnixLocks ----------------------------
(* An instance of UnixLocks for TLC: two handles in one process, one in another. *)
EXTENDS UnixLocks

CONSTANTS f1, f2, g1, P, Q

FilesOfTwo == {f1, f2, g1}
BothProcs == {P, Q}
Owner(f) == IF f = g1 THEN Q ELSE P
=============================================================================
