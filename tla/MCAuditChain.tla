---------------------------- MODULE MCAuditChain ----------------------------
EXTENDS AuditChain
CONSTANTS daemon, cli, replica
Symmetric == {daemon, cli, replica}
=============================================================================
