----------------------------- MODULE MCSyncCache -----------------------------
EXTENDS SyncCache

\* Bound: a behaviour is followed up to its first lost update of the metadata.
Followed == ~lost
=============================================================================
