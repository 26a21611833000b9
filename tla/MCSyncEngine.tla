---------------------------- MODULE MCSyncEngine ----------------------------
EXTENDS SyncEngine
=============================================================================
