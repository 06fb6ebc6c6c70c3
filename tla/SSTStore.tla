------------------------------ MODULE SSTStore ------------------------------
(***************************************************************************)
(* What the secure storage core promises its callers (sst_core.h): a map   *)
(* from object identifiers to objects that create, write, delete and wipe  *)
(* change in one indivisible step, whatever happens to the power.          *)
(***************************************************************************)
EXTENDS Naturals, Sequences

CONSTANTS
    Uuids,           \* object identifiers
    Sizes,           \* maximum sizes callers ask for
    Values           \* what a caller writes into a unit of an object

VARIABLE store       \* the objects, or Unformatted

(* No object has maximum size 0, and no store is without identifiers. *)
NoObject == [size_max |-> 0, data |-> <<>>]
Unformatted == <<>>
EmptyStore == [u \in Uuids |-> NoObject]

Exists(s, u) == s # Unformatted /\ s[u] # NoObject

(* sst_core_object_create: the object exists and has no content yet. *)
CreateObject(s, u, size) ==
    [s EXCEPT ![u] = [size_max |-> size, data |-> <<>>]]

(* sst_core_object_write: size units of value v from offset on. *)
WriteObject(s, u, v, offset, size) ==
    LET old == s[u].data
        len == IF offset + size > Len(old) THEN offset + size ELSE Len(old)
    IN  [s EXCEPT ![u].data =
            [k \in 1 .. len |->
                IF k \in offset + 1 .. offset + size THEN v ELSE old[k]]]

(* sst_core_object_delete *)
DeleteObject(s, u) == [s EXCEPT ![u] = NoObject]

Init == store = Unformatted

Create(u, size) ==
    /\ store # Unformatted /\ ~Exists(store, u)
    /\ store' = CreateObject(store, u, size)

Write(u, v, offset, size) ==
    /\ Exists(store, u)
    /\ offset <= Len(store[u].data)
    /\ offset + size <= store[u].size_max
    /\ store' = WriteObject(store, u, v, offset, size)

Delete(u) ==
    /\ Exists(store, u)
    /\ store' = DeleteObject(store, u)

(* sst_core_wipe_all first gives up the old content, then formats. *)
Wipe == store' = Unformatted

Format == store = Unformatted /\ store' = EmptyStore

Next ==
    \/ \E u \in Uuids, size \in Sizes : Create(u, size)
    \/ \E u \in Uuids :
          /\ Exists(store, u)
          /\ \E v \in Values, size \in Sizes, offset \in 0 .. Len(store[u].data) :
                Write(u, v, offset, size)
    \/ \E u \in Uuids : Delete(u)
    \/ Wipe
    \/ Format

Spec == Init /\ [][Next]_store
=============================================================================
