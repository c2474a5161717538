\* The reserve of src/main.c and nodes of sizeof(jac_ast_expression).  Their first
\* field is a pointer to a token; tokens lie 24 + 48 * k bytes behind an address that
\* malloc aligns to 16, so its low byte is 8 modulo 16.
CONSTANTS
  Reserve = 2048
  Sizes = {16}
  FirstBytes = {8, 24}
  MaxBytes = 4096
SPECIFICATION Spec
INVARIANT NoAssertionFires
CHECK_DEADLOCK FALSE
