\* Sources that docs/GRAMMAR.md derives.
CONSTANTS
  TokenStreams <- DerivedStreams
  Plain <- MCPlain
  Spellings = {f, g}
  Reserve = 22
  NodeSize <- MCNodeSize
  FirstBytes = {0, 8}
  Size = 64
  Mapped = 2
  MaxStars = 2
SPECIFICATION CompilerSpec
INVARIANT GrammarCompiles
CHECK_DEADLOCK FALSE
