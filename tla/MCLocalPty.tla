------------------------------ MODULE MCLocalPty ------------------------------
(* Instances of LocalPty for TLC.                                          *)
EXTENDS LocalPty
=============================================================================
