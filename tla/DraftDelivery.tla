--------------------------- MODULE DraftDelivery ---------------------------
(***************************************************************************)
(* What the draft machinery promises, without contexts, operations, slots, *)
(* requests or screens: an opportunity the user entered stays pending      *)
(* until it is delivered or the user discards it, it is delivered only     *)
(* when the server has it, and both ends are final.                        *)
(***************************************************************************)
EXTENDS Naturals

CONSTANT Drafts

VARIABLES phase,   \* what has become of each draft
          records  \* opportunities on the server for it; 2 is two or more

Phases == {"unwritten", "pending", "delivered", "discarded"}

Init == /\ phase = [d \in Drafts |-> "unwritten"]
        /\ records = [d \in Drafts |-> 0]

Write(d) == /\ phase[d] = "unwritten"
            /\ phase' = [phase EXCEPT ![d] = "pending"]
            /\ UNCHANGED records

\* The server takes an opportunity; it cannot know what the device will think.
Register(d) == /\ records' = [records EXCEPT ![d] = IF @ = 0 THEN 1 ELSE 2]
               /\ UNCHANGED phase

Deliver(d) == /\ phase[d] = "pending"
              /\ records[d] >= 1
              /\ phase' = [phase EXCEPT ![d] = "delivered"]
              /\ UNCHANGED records

\* Request and answer in one, with or without a draft.
RegisterAndDeliver(d) == /\ phase[d] \in {"unwritten", "pending"}
                         /\ records' = [records EXCEPT ![d] = IF @ = 0 THEN 1 ELSE 2]
                         /\ phase' = [phase EXCEPT ![d] = "delivered"]

Discard(d) == /\ phase[d] = "pending"
              /\ phase' = [phase EXCEPT ![d] = "discarded"]
              /\ UNCHANGED records

Next == \E d \in Drafts : \/ Write(d) \/ Register(d) \/ Deliver(d)
                          \/ RegisterAndDeliver(d) \/ Discard(d)

Spec == Init /\ [][Next]_<<phase, records>>
=============================================================================
