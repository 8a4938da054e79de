---------------------------- MODULE MCPayloadStreams ---------------------------
EXTENDS PayloadStreams, TLC

\* The consumers are alike, and only states are looked at.
Symmetry == Permutations(Readers)

=============================================================================
