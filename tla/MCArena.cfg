\* A reserve of a few bytes and nodes of three sizes.  A first byte of 0 (the NULL of
\* `return;') keeps the stride intact; 128 lets a growth to an even capacity through.
CONSTANTS
  Reserve = 8
  Sizes = {1, 2, 3}
  FirstBytes = {0, 1, 128}
  MaxBytes = 18
SPECIFICATION Spec
INVARIANTS
  Disjoint
  SafeWithinReserve
  RoomAfterGrowth
CHECK_DEADLOCK FALSE
