---------------------------- MODULE MCClipboard -----------------------------
(* Two machines; x and z are copied on one, y on the other.                *)
EXTENDS Clipboard

CONSTANTS a, b, x, y, z

Copier == [d \in Payload |-> IF d = y THEN b ELSE a]
=============================================================================
