--------------------------- MODULE MCBrowserRuntime ---------------------------
(* Instances of BrowserRuntime for TLC.                                     *)
EXTENDS BrowserRuntime
=============================================================================
