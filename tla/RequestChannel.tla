--------------------------- MODULE RequestChannel ---------------------------
(***************************************************************************)
(* What the callers of the web layer count on: a request is carried out at *)
(* most once, its callbacks run at most once, and the success callback     *)
(* runs only if the request was carried out.  A failure says nothing, and  *)
(* a request may stay without an answer.                                   *)
(***************************************************************************)
EXTENDS Naturals

CONSTANT Requests

VARIABLES sent,   \* requests the app has made
          made,   \* times the server carried each one out
          reply   \* the callback that ran for it

Init == /\ sent = {}
        /\ made = [r \in Requests |-> 0]
        /\ reply = [r \in Requests |-> "none"]

Send(r) == /\ r \notin sent
           /\ sent' = sent \cup {r}
           /\ UNCHANGED <<made, reply>>

CarryOut(r) == /\ r \in sent
               /\ reply[r] = "none"
               /\ made[r] = 0
               /\ made' = [made EXCEPT ![r] = 1]
               /\ UNCHANGED <<sent, reply>>

Succeed(r) == /\ reply[r] = "none"
              /\ made[r] = 1
              /\ reply' = [reply EXCEPT ![r] = "success"]
              /\ UNCHANGED <<sent, made>>

Fail(r) == /\ r \in sent
           /\ reply[r] = "none"
           /\ reply' = [reply EXCEPT ![r] = "failure"]
           /\ UNCHANGED <<sent, made>>

Next == \E r \in Requests : Send(r) \/ CarryOut(r) \/ Succeed(r) \/ Fail(r)

Spec == Init /\ [][Next]_<<sent, made, reply>>
=============================================================================
