----------------------------- MODULE MCSSTObject -----------------------------
(***************************************************************************)
(* Two assets, of two units and of one, and an application that may do     *)
(* everything with the first and only refer to the second.                 *)
(***************************************************************************)
EXTENDS SSTObject, TLC

CONSTANTS large, small, v1, v2

MCAssets == {large, small}
MCMaxSize == (large :> 2) @@ (small :> 1)
MCApps == {"app"}
MCPerms ==
    (large :> ("app" :> all_perms)) @@ (small :> ("app" :> {SST_PERM_REFERENCE}))
MCSymmetry == Permutations({v1, v2})
==============================================================================
