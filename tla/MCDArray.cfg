\* A client that makes the calls of src/ and the others that stay in bounds, and one
\* that uses every macro of the API.
CONSTANTS
  v1 = v1
  v2 = v2
  v3 = v3
  Values = {v1, v2}
  Stride = 2
  Reserved = {0}
  Capacities = {1, 3}
  Clients <- MCClients
  MaxCount = 6
  MaxMixed = 3
SPECIFICATION Spec
INVARIANTS
  InBounds
  OverflowsOnlyFromZero
PROPERTIES
  ImplementsArray
  InsertStores
CHECK_DEADLOCK FALSE
