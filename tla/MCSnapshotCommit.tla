-------------------------- MODULE MCSnapshotCommit --------------------------
\* SnapshotCommit for TLC; the bounds are in the configurations.
EXTENDS SnapshotCommit
=============================================================================
