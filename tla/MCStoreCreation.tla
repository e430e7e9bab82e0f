--------------------------- MODULE MCStoreCreation ---------------------------
\* StoreCreation for TLC; the bounds are in the configurations.
EXTENDS StoreCreation
=============================================================================
