----------------------------- MODULE MCNodePool -----------------------------
(* NodePool with model values: one small payload, one large that may be       *)
(* malformed, one large in a SharedArrayBuffer.                               *)
EXTENDS NodePool

CONSTANTS r1, r2, r3, small, large, shared
=============================================================================
