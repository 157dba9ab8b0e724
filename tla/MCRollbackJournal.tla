------------------------- MODULE MCRollbackJournal -------------------------
(* An instance of RollbackJournal for TLC: two processes, one connection each. *)
EXTENDS RollbackJournal, TLC

CONSTANTS c1, c2

TwoConns == {c1, c2}
NoPeers(c) == {}
ConnSymmetry == Permutations(TwoConns)
=============================================================================
