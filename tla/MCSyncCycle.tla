---------------------------- MODULE MCSyncCycle ----------------------------
EXTENDS SyncCycle
=============================================================================
