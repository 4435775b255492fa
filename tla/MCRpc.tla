------------------------------- MODULE MCRpc --------------------------------
(* A small instance of the RPC transport.                                  *)
EXTENDS RpcTransport, TLC

=============================================================================
