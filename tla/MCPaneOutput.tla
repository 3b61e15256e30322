----------------------------- MODULE MCPaneOutput -----------------------------
(* Instances of PaneOutput for TLC.                                        *)
EXTENDS PaneOutput
=============================================================================
