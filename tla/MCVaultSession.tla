---------------------------- MODULE MCVaultSession ----------------------------
EXTENDS VaultSession
=============================================================================
