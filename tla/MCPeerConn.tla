------------------------------ MODULE MCPeerConn ------------------------------
(* Instances of PeerConn for TLC.                                              *)
EXTENDS PeerConn

===============================================================================
