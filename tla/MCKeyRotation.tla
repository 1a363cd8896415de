--------------------------- MODULE MCKeyRotation ---------------------------
(* KeyRotation with few kids and pairs.                                    *)
EXTENDS KeyRotation
=============================================================================
