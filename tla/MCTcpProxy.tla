----------------------------- MODULE MCTcpProxy -----------------------------
(* Small instances of TcpProxy for TLC; the bounds are in the .cfg files.   *)
EXTENDS TcpProxy
=============================================================================
