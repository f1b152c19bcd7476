-------------------------- MODULE MCBrowserSession --------------------------
(* BrowserSession on small sets. *)
EXTENDS BrowserSession, TLC

CONSTANTS t1, t2, a1
=============================================================================
