----------------------------- MODULE AssetStore ------------------------------
(***************************************************************************)
(* What the secure storage service promises the owners of assets           *)
(* (interface/include/psa_sst_api.h): an asset has attributes and data,    *)
(* and create, write, set_attributes and delete each change one asset in   *)
(* one indivisible step.                                                   *)
(***************************************************************************)
EXTENDS Naturals, Sequences

CONSTANTS
    Assets,          \* identifiers of the assets
    MaxSize,         \* the policy's maximum size of each
    Values,          \* what a caller writes into a unit of an asset
    Attributes       \* attributes of an asset, 0 when it is created

VARIABLE assets

NoAsset == [attr |-> 0, data |-> <<"absent">>]
NoAssets == [u \in Assets |-> NoAsset]

(* units written over data from offset on. *)
Overwrite(data, offset, units) ==
    LET end == offset + Len(units)
    IN  [k \in 1 .. IF end > Len(data) THEN end ELSE Len(data) |->
            IF k \in offset + 1 .. end THEN units[k - offset] ELSE data[k]]

Units(n) == [1 .. n -> Values]

Create(u) ==
    /\ assets[u] = NoAsset
    /\ assets' = [assets EXCEPT ![u] = [attr |-> 0, data |-> <<>>]]

Write(u) ==
    /\ assets[u] # NoAsset
    /\ \E offset \in 0 .. Len(assets[u].data), size \in 1 .. MaxSize[u] :
          /\ offset + size <= MaxSize[u]
          /\ \E units \in Units(size) :
                assets' = [assets EXCEPT ![u].data = Overwrite(@, offset, units)]

SetAttributes(u) ==
    /\ assets[u] # NoAsset
    /\ \E attr \in Attributes : assets' = [assets EXCEPT ![u].attr = attr]

Delete(u) == assets' = [assets EXCEPT ![u] = NoAsset]

Init == assets = NoAssets

Next ==
    \E u \in Assets :
        /\ assets'[u] # assets[u]
        /\ Create(u) \/ Write(u) \/ SetAttributes(u) \/ Delete(u)

Spec == Init /\ [][Next]_assets
==============================================================================
