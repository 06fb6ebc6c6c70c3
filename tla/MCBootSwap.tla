----------------------------- MODULE MCBootSwap ------------------------------
(***************************************************************************)
(* Three images for slots of three sectors: B reaches into the last sector, *)
(* where the trailer is, A and C do not.  A scratch area of one sector     *)
(* makes a swap of three groups, one of two sectors a swap of two; one of  *)
(* three sectors is as large as a slot, as on the targets of the           *)
(* repository, and makes a swap of one.                                    *)
(***************************************************************************)
EXTENDS BootSwap

CONSTANTS A, B, C

Mixed == {[id |-> A, len |-> 2], [id |-> B, len |-> 3], [id |-> C, len |-> 2]}
==============================================================================
