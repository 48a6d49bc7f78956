----------------------------- MODULE MCSnapshot -----------------------------
EXTENDS SnapshotInv, MCMachineIdentifier
=============================================================================
