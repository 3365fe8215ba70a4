------------------------------- MODULE MCTcp -------------------------------
EXTENDS TcpProps
=============================================================================
