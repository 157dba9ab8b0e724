---------------------------- MODULE MCDraftSync ----------------------------
(* Instances of DraftSync for TLC. *)
EXTENDS DraftSync, TLC

OneDraft == {1}
TwoDrafts == {1, 2}
ThreeDrafts == {1, 2, 3}

\* The drafts are one user's; another may log in too.
FirstUsers == [d \in Drafts |-> 1]

\* The slots of the operation queue are interchangeable.
SlotSymmetry == Permutations(Workers)

\* So are the passes.
SlotAndPassSymmetry == Permutations(Workers) \cup Permutations(Passes)
=============================================================================
