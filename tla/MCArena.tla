------------------------------ MODULE MCArena ------------------------------
\* Arena for TLC; the sizes are scaled down in MCArena.cfg and those of the
\* program in MCArenaAssert.cfg.
EXTENDS Arena, TLC
=============================================================================
