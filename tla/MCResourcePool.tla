--------------------------- MODULE MCResourcePool ---------------------------
(* Instances of ResourcePool: more clients than items, or no item at all. *)
EXTENDS ResourcePool

CONSTANT MaxItems   \* the largest stock

MCItems == 1..MaxItems
=============================================================================
