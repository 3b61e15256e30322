----------------------------- MODULE MCSshRuntime -----------------------------
(* Instances of SshRuntime for TLC.                                        *)
EXTENDS SshRuntime
=============================================================================
