--------------------------- MODULE MCSSTMetaSwap ---------------------------
(* Three contents tell an update from the state before it and from the one *)
(* before that; the swap count rolls over after a few updates.             *)
EXTENDS SSTMetaSwap
=============================================================================
