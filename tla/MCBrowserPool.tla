--------------------------- MODULE MCBrowserPool ---------------------------
(***************************************************************************)
(* More calls than pages, so that one waits, or comes later, while others  *)
(* fail or end.                                                            *)
(***************************************************************************)
EXTENDS BrowserPool

CONSTANTS f1, f2, f3
============================================================================
