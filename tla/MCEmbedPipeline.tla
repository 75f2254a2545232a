--------------------------- MODULE MCEmbedPipeline ---------------------------
EXTENDS EmbedPipeline, TLC

CONSTANTS j1, j2, m1, m2

Symmetry == Permutations({j1, j2}) \cup Permutations({m1, m2})
=============================================================================
