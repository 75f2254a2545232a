------------------------- MODULE MCNormalizeResponse -------------------------
(* Every completion of up to six characters of the classes.                 *)
EXTENDS NormalizeResponse
=============================================================================
