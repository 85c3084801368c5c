---------------------------- MODULE MCPageFrames ----------------------------
EXTENDS PageFrames

\* Two stretches of RAM with a hole between them.
MCFrames == {1, 2, 3, 5, 6, 7}
=============================================================================
