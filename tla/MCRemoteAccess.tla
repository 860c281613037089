---------------------------- MODULE MCRemoteAccess ----------------------------
EXTENDS RemoteAccess

MCOwner == [r \in Routers |-> CHOOSE t \in Tenants : TRUE]
MCStart == [r \in {"r1"} |-> 1]
=============================================================================
