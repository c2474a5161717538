\* jac_mangle_function_name on short signatures, with a buffer that is too small for some.
CONSTANTS
  Char <- MCChar
  Signatures <- MCSignatures
  Limit = 6
  Buffer = 14
  Radix = 2
  Wrap = 3
SPECIFICATION Spec
INVARIANTS CopyFits NameIsTheEncoding OverloadsDiffer
CHECK_DEADLOCK FALSE
