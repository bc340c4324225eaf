CONSTANTS
  Users = {1, 2, 3}
  Requests = {r1, r2}
SPECIFICATION Spec
SYMMETRY Symmetry
INVARIANTS
  ListedAreOwners
  NoLockOrderDeadlock
PROPERTIES
  OwnerKept
