CONSTANTS
  Client = {c1, c2, c3, c4}
  MaxItems = 2
  Items <- MCItems
  NoItem = 0
SPECIFICATION Spec
INVARIANT PermitsStandForItems
PROPERTIES ImplementsLoans EveryWaiterServed
