--------------------------- MODULE MCEthTxManager ---------------------------
(* Instances of EthTxManager for TLC; the configurations pick the constants. *)
EXTENDS EthTxManager
=============================================================================
