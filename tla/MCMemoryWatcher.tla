-------------------------- MODULE MCMemoryWatcher --------------------------
EXTENDS MemoryWatcher, TLC

CONSTANTS r1, r2
=============================================================================
