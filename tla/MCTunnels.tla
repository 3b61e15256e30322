------------------------------ MODULE MCTunnels ------------------------------
(* Instances of Tunnels for TLC.                                           *)
EXTENDS Tunnels
=============================================================================
