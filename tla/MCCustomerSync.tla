--------------------------- MODULE MCCustomerSync ---------------------------
(* Instances of CustomerSync for TLC. *)
EXTENDS CustomerSync, TLC

OneDraft == {1}

\* The slots of the operation queue are interchangeable.
SlotSymmetry == Permutations(Workers)
=============================================================================
