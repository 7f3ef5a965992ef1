------------------------------ MODULE MCLruCache ------------------------------
\* Small instances of LruCache.
EXTENDS LruCache, TLC

Blocks == Permutations(Block)
BlocksAndKeys == Permutations(Block) \cup Permutations(Key)
BlocksKeysWorkers == BlocksAndKeys \cup Permutations(Worker)
===============================================================================
