-------------------------- MODULE TransactionStore --------------------------
(***************************************************************************)
(* What a database file and its rollback journal promise together: a       *)
(* reader finds the pages some whole transaction left, and a loss of power *)
(* undoes at most the last transaction, never a part of one.               *)
(***************************************************************************)
EXTENDS Naturals

CONSTANTS MaxPages, MaxTransactions

VARIABLES
    image,    \* the pages a reader finds: the transaction that wrote each, 0 past the end
    durable   \* the pages it would find if nothing not yet synced survived

Pages  == 1..MaxPages
Images == [Pages -> 0..MaxTransactions]

\* Only the last transaction may be at risk.  Page 1 holds the change counter: a
\* transaction always writes it.
CommitTransaction ==
    /\ durable = image
    /\ \E t \in 1..MaxTransactions :
          /\ \A p \in Pages : image[p] # t /\ image'[p] \in {image[p], t}
          /\ image'[1] = t
    /\ UNCHANGED durable

\* The last transaction is safe from now on.
Settle == durable' = image /\ UNCHANGED image

LosePower == image' \in {image, durable} /\ durable' = image'

StoreInit == image \in Images /\ durable = image
StoreNext == CommitTransaction \/ Settle \/ LosePower
StoreSpec == StoreInit /\ [][StoreNext]_<<image, durable>>
=============================================================================
