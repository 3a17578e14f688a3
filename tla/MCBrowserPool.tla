--------------------------- MODULE MCBrowserPool ---------------------------
(* BrowserPool with model values: one small payload, one large, one large and *)
(* malformed.                                                                 *)
EXTENDS BrowserPool

CONSTANTS r1, r2, r3, small, large, bad
=============================================================================
