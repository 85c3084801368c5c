----------------------------- MODULE MCHeapUse ------------------------------
EXTENDS HeapUse

MCFrames == 1 .. 7

\* A small buffer, the two caches, the vocabulary's hash table.
MCBoot == <<5, 20, 20, 9>>
=============================================================================
