---------------------------- MODULE MCSlotCommit ----------------------------
\* SlotCommit for TLC; the bounds are in the configuration.
EXTENDS SlotCommit
=============================================================================
