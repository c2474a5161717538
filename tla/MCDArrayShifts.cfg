\* The documented effect of insert and remove on the elements behind the index.
CONSTANTS
  v1 = v1
  v2 = v2
  v3 = v3
  Values = {v1, v2, v3}
  Stride = 2
  Reserved = {0}
  Capacities = {1, 3}
  Clients <- ShiftingClients
  MaxCount = 3
  MaxMixed = 3
SPECIFICATION Spec
PROPERTY ShiftsElements
CHECK_DEADLOCK FALSE
