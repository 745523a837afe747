------------------------- MODULE MCTcpExchangeProofs -------------------------
(* TLC instance of TcpExchange that also checks the inductive invariant   *)
(* of TcpExchangeProofs.                                                  *)
EXTENDS TcpExchangeProofs
=============================================================================
