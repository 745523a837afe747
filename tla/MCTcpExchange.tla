---------------------------- MODULE MCTcpExchange ----------------------------
EXTENDS TcpExchange
=============================================================================
