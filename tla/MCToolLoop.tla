----------------------------- MODULE MCToolLoop -----------------------------
(* A loop of at most four calls over two bound keys and one that is not.    *)
EXTENDS ToolLoop

MCKeys == {"search", "lookup", "foreign"}
MCAllowedKeys == {"search", "lookup"}
MCFirstPrompts == {2, 9}
MCStepTokens == {1, 4}
=============================================================================
