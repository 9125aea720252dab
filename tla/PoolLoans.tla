------------------------------ MODULE PoolLoans ------------------------------
(***************************************************************************)
(* What a pool of resources promises its clients: each has at most one     *)
(* resource at a time, and a resource is lent to one client at a time.     *)
(***************************************************************************)
CONSTANTS Client, Items, NoItem

VARIABLE loan   \* the item each client has, or NoItem

Init == loan = [c \in Client |-> NoItem]

Lend(c) ==
  /\ loan[c] = NoItem
  /\ \E i \in Items :
       /\ \A d \in Client : loan[d] # i
       /\ loan' = [loan EXCEPT ![c] = i]

GiveBack(c) == loan[c] # NoItem /\ loan' = [loan EXCEPT ![c] = NoItem]

Next == \E c \in Client : Lend(c) \/ GiveBack(c)

Spec == Init /\ [][Next]_loan
=============================================================================
