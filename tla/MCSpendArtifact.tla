-------------------------- MODULE MCSpendArtifact --------------------------
\* SpendArtifact for TLC: a reference that is absent and one of two groups.
EXTENDS SpendArtifact

MCReferences == {<<NUL, NUL, NUL, NUL>>, <<Upper, Dash, Digit, NUL>>}
=============================================================================
