------------------------------ MODULE SSTObject ------------------------------
(***************************************************************************)
(* The two upper layers of the secure storage service: the access policy   *)
(* (sst_asset_management.c) and the object layer (sst_object_system.c), on *)
(* top of the core as SSTStore promises it: each core call changes the     *)
(* store at once or not at all.  A core object holds a header, one unit    *)
(* here, and then the data of the asset.                                   *)
(*                                                                         *)
(* Calls do not overlap: the storage partition is not entered again while  *)
(* it runs (SecureCall).  Creating an object takes two core calls, and the *)
(* power may fail in between.                                              *)
(***************************************************************************)
EXTENDS Integers, Sequences

CONSTANTS
    Assets,          \* identifiers in the policy database
    OtherAsset,      \* one that is not in it
    MaxSize,         \* asset_perms: maximum size of each
    Apps, Perms,     \* asset_perms_modes: what each application may do
    Values, Attributes

S_APP_ID == "S_APP_ID"
SST_PERM_REFERENCE == "reference"
SST_PERM_READ == "read"
SST_PERM_WRITE == "write"

(* Who calls: secure code, and on whose behalf. *)
Callers == [secure : BOOLEAN, app : Apps \cup {S_APP_ID}]

(* The last two keep apart what marks the absence of an asset or a call.    *)
ASSUME PolicyAssumption ==
    /\ OtherAsset \notin Assets
    /\ MaxSize \in [Assets -> Nat \ {0}]
    /\ S_APP_ID \notin Apps
    /\ Perms \in [Assets -> [Apps ->
                    SUBSET {SST_PERM_REFERENCE, SST_PERM_READ, SST_PERM_WRITE}]]
    /\ \E u \in Assets : \A v \in Assets : MaxSize[v] <= MaxSize[u]
    /\ 0 \in Attributes
    /\ "absent" \notin Values
    /\ OtherAsset \notin [c : Callers, u : Assets]

VARIABLES
    store,               \* the core's objects, or Unformatted
    g_sst_object,        \* the object layer's buffer
    sst_system_ready,
    creating,            \* the create between its two core calls, if any
    torn,                \* assets whose creation was not finished
    last                 \* the last call that changed or returned something

vars == <<store, g_sst_object, sst_system_ready, creating, torn, last>>

CoreStore == INSTANCE SSTStore WITH Uuids <- Assets, Sizes <- {}
Unformatted == CoreStore!Unformatted
Exists(u) == CoreStore!Exists(store, u)

SST_OBJECT_HEADER_SIZE == 1
SST_OBJECT_SIZE(max_size) == SST_OBJECT_HEADER_SIZE + max_size
Nothing == OtherAsset
NoCall == [name |-> "none"]
Zero == "zero"
LargestSize == CHOOSE n \in {MaxSize[u] : u \in Assets} : \A u \in Assets : MaxSize[u] <= n
Blank(u, size) ==
    [header |-> [uuid |-> u, size_max |-> size, size_current |-> 0, attr |-> 0],
     data |-> [k \in 1 .. LargestSize |-> Zero]]

Init ==
    /\ store = Unformatted
    /\ g_sst_object = Blank(Nothing, 0)
    /\ sst_system_ready = FALSE
    /\ creating = Nothing /\ torn = {} /\ last = NoCall
------------------------------------------------------------------------------
(* What is left of a request: a secure caller has every permission of its   *)
(* own and may read by reference for an application; nobody else may use    *)
(* the secure side's identifier.                                            *)
sst_am_check_s_ns_policy(c, request_type) ==
    IF c.secure
    THEN IF c.app = S_APP_ID THEN {"bypass"}
         ELSE IF SST_PERM_READ \in request_type THEN {SST_PERM_REFERENCE} ELSE {}
    ELSE IF c.app = S_APP_ID THEN {} ELSE request_type

(* Slip: an application that claims to be secure is believed. *)
PolicyBelievesCaller(c, u, request_type) ==
    LET request == IF c.app = S_APP_ID THEN {"bypass"} ELSE request_type
    IN  /\ u \in Assets
        /\ request # {"bypass"} => Perms[u][c.app] \cap request # {}

(* Whether the policy has an entry for u that lets the caller do this. *)
sst_am_get_db_entry(c, u, request_type) ==
    LET request == sst_am_check_s_ns_policy(c, request_type)
    IN  /\ request # {}
        /\ u \in Assets
        /\ request # {"bypass"} => Perms[u][c.app] \cap request # {}

all_perms == {SST_PERM_REFERENCE, SST_PERM_READ, SST_PERM_WRITE}
------------------------------------------------------------------------------
(* The core's calls: what reads return, and how a change may end: done,     *)
(* failed, or failed after it was committed (to the store that is done).    *)
Outcomes == {"done", "failed"}
CreateOutcomes == Outcomes \cup {"late"}

sst_core_object_read(u, offset, size) ==
    IF ~Exists(u) THEN "ASSET_NOT_FOUND"
    ELSE IF offset + size > Len(store[u].data) THEN "PARAM_ERROR"
    ELSE "SUCCESS"

(* A write at the start of the object. *)
Written(u, units) ==
    [store EXCEPT ![u].data =
        units \o SubSeq(@, Len(units) + 1, Len(@))]
Core(outcome, new) == store' = IF outcome = "failed" THEN store ELSE new
------------------------------------------------------------------------------
(* The header of u is read, or the header and then the data: the error, and *)
(* the buffer afterwards.                                                   *)
HeaderError(u) == sst_core_object_read(u, 0, SST_OBJECT_HEADER_SIZE)
WithHeader(u) == [g_sst_object EXCEPT !.header = store[u].data[1]]

ObjectError(u) ==
    IF HeaderError(u) # "SUCCESS" THEN HeaderError(u)
    ELSE sst_core_object_read(u, SST_OBJECT_HEADER_SIZE, store[u].data[1].size_current)
WithObject(u) ==
    LET header == store[u].data[1]
    IN  [header |-> header,
         data |-> [k \in 1 .. LargestSize |->
                     IF k <= header.size_current THEN store[u].data[k + 1]
                     ELSE g_sst_object.data[k]]]

(* Slip: the data is not read, the buffer still has another object's. *)
LoadedHeaderOnly(u) ==
    IF HeaderError(u) # "SUCCESS" THEN g_sst_object ELSE WithHeader(u)

Loaded(u) ==
    IF HeaderError(u) # "SUCCESS" THEN g_sst_object
    ELSE IF ObjectError(u) # "SUCCESS" THEN WithHeader(u)
    ELSE WithObject(u)

Call(name, c, u, offset, data) ==
    last' = [name |-> name, c |-> c, u |-> u, offset |-> offset, data |-> data]
(* A change the core refused is not a call that changed something. *)
Change(outcome, new, name, c, u, offset, data) ==
    /\ Core(outcome, new)
    /\ IF outcome = "failed" THEN last' = NoCall ELSE Call(name, c, u, offset, data)
Idle == creating = Nothing

(* sst_am_prepare in a build with SST_RAM_FS: a store that is not formatted *)
(* is wiped.                                                                *)
sst_am_prepare ==
    /\ Idle /\ ~sst_system_ready
    /\ store' = IF store = Unformatted THEN CoreStore!EmptyStore ELSE store
    /\ sst_system_ready' = TRUE
    /\ UNCHANGED <<g_sst_object, creating, torn, last>>

(* A call of the service gets this far when the policy lets the caller make *)
(* it; before that, and when a check below fails, it returns an error and   *)
(* changes nothing.                                                         *)
Allowed(c, u, request_type) ==
    /\ Idle /\ sst_system_ready
    /\ sst_am_get_db_entry(c, u, request_type)

(* sst_object_create, up to the first core call.  An object that exists is  *)
(* left as it is, and the caller told SUCCESS.                              *)
sst_object_create(c, u, outcome) ==
    IF Exists(u)
    THEN /\ Call("create", c, u, 0, <<>>)
         /\ UNCHANGED <<store, g_sst_object, sst_system_ready, creating, torn>>
    ELSE /\ g_sst_object' = Blank(u, MaxSize[u])
         /\ Core(outcome, CoreStore!CreateObject(store, u, SST_OBJECT_SIZE(MaxSize[u])))
         /\ creating' = IF outcome = "done" THEN [c |-> c, u |-> u] ELSE Nothing
         /\ torn' = IF outcome = "late" THEN torn \cup {u} ELSE torn
         /\ last' = NoCall
         /\ UNCHANGED sst_system_ready

sst_am_create(c, u, outcome) ==
    /\ Allowed(c, u, {SST_PERM_WRITE})
    /\ sst_object_create(c, u, outcome)

(* Slip: the header is not written. *)
CreateWithoutHeader(outcome) ==
    /\ ~Idle
    /\ creating' = Nothing
    /\ Call("create", creating.c, creating.u, 0, <<>>)
    /\ UNCHANGED <<store, g_sst_object, sst_system_ready, torn>>

(* The second core call of sst_object_create. *)
CreateHeader(outcome) ==
    /\ ~Idle
    /\ Change(outcome, Written(creating.u, <<g_sst_object.header>>),
              "create", creating.c, creating.u, 0, <<>>)
    /\ creating' = Nothing
    /\ torn' = IF outcome = "failed" THEN torn \cup {creating.u} ELSE torn
    /\ UNCHANGED <<g_sst_object, sst_system_ready>>

(* The caller's buffer has passed tfm_core_memory_permission_check          *)
(* (MemCheck), which an empty one never does.                               *)
sst_object_read(c, u, offset, size) ==
    LET object == Loaded(u)
        err == IF ObjectError(u) # "SUCCESS" THEN ObjectError(u)
               ELSE IF offset + size > object.header.size_current THEN "PARAM_ERROR"
               ELSE "SUCCESS"
    IN  /\ g_sst_object' = object
        /\ IF err = "SUCCESS"
           THEN Call("read", c, u, offset,
                     [k \in 1 .. size |-> object.data[offset + k]])
           ELSE last' = NoCall
        /\ UNCHANGED <<store, sst_system_ready, creating, torn>>

sst_am_read(c, u) ==
    /\ Allowed(c, u, {SST_PERM_READ})
    /\ \E offset \in 0 .. LargestSize, size \in 1 .. LargestSize :
          sst_object_read(c, u, offset, size)

(* Slip: only the new data is written. *)
WriteNewOnly(c, u, offset, units, outcome) ==
    LET object == Loaded(u)
        end == offset + Len(units)
        header == [object.header EXCEPT !.size_current = IF end > @ THEN end ELSE @]
    IN  /\ UNCHANGED <<g_sst_object, sst_system_ready, creating, torn>>
        /\ IF ObjectError(u) = "SUCCESS" /\ offset <= object.header.size_current
           THEN Change(outcome, Written(u, <<header>> \o units), "write", c, u, offset, units)
           ELSE UNCHANGED store /\ last' = NoCall

(* The object is read, changed in the buffer, and written as a whole. *)
sst_object_write(c, u, offset, units, outcome) ==
    LET object == Loaded(u)
        end == offset + Len(units)
        size_current == IF end > object.header.size_current THEN end
                        ELSE object.header.size_current
        changed == [header |-> [object.header EXCEPT !.size_current = size_current],
                    data |-> [k \in 1 .. LargestSize |->
                                IF k \in offset + 1 .. end THEN units[k - offset]
                                ELSE object.data[k]]]
    IN  /\ IF ObjectError(u) = "SUCCESS" /\ offset <= object.header.size_current
           THEN /\ g_sst_object' = changed
                /\ Change(outcome, Written(u, <<changed.header>> \o
                                              SubSeq(changed.data, 1, size_current)),
                          "write", c, u, offset, units)
           ELSE /\ g_sst_object' = object
                /\ UNCHANGED store /\ last' = NoCall
        /\ UNCHANGED <<sst_system_ready, creating, torn>>

(* Slip: the bound is that of the buffer, not of the asset. *)
WriteBoundOfBuffer(c, u, outcome) ==
    /\ Allowed(c, u, {SST_PERM_WRITE})
    /\ \E offset \in 0 .. LargestSize, size \in 1 .. LargestSize :
          /\ offset + size <= LargestSize
          /\ \E units \in [1 .. size -> Values] :
                sst_object_write(c, u, offset, units, outcome)

sst_am_write(c, u, outcome) ==
    /\ Allowed(c, u, {SST_PERM_WRITE})
    /\ \E offset \in 0 .. MaxSize[u], size \in 1 .. MaxSize[u] :
          /\ offset + size <= MaxSize[u]
          /\ \E units \in [1 .. size -> Values] :
                sst_object_write(c, u, offset, units, outcome)

(* sst_object_read or sst_object_write when the flash fails the read of the *)
(* data: the buffer is left with the header of u and the data of another    *)
(* object.  (When it fails the read of the header, nothing has changed.)    *)
DataUnread(c, u) ==
    /\ Allowed(c, u, {SST_PERM_READ}) \/ Allowed(c, u, {SST_PERM_WRITE})
    /\ HeaderError(u) = "SUCCESS"
    /\ store[u].data[1].size_current > 0
    /\ g_sst_object' = WithHeader(u)
    /\ last' = NoCall
    /\ UNCHANGED <<store, sst_system_ready, creating, torn>>

(* The header is read for the caller: get_info and get_attributes. *)
sst_object_get(name, c, u) ==
    /\ IF HeaderError(u) = "SUCCESS"
       THEN /\ g_sst_object' = WithHeader(u)
            /\ Call(name, c, u, 0,
                    IF name = "get_info"
                    THEN <<store[u].data[1].size_max, store[u].data[1].size_current>>
                    ELSE <<store[u].data[1].attr>>)
       ELSE UNCHANGED g_sst_object /\ last' = NoCall
    /\ UNCHANGED <<store, sst_system_ready, creating, torn>>

sst_am_get_info(c, u) ==
    /\ Allowed(c, u, all_perms)
    /\ sst_object_get("get_info", c, u)

sst_am_get_attributes(c, u) ==
    /\ Allowed(c, u, all_perms)
    /\ sst_object_get("get_attributes", c, u)

sst_object_set_attributes(c, u, attr, outcome) ==
    /\ IF HeaderError(u) = "SUCCESS"
       THEN LET changed == [WithHeader(u) EXCEPT !.header.attr = attr]
            IN  /\ g_sst_object' = changed
                /\ Change(outcome, Written(u, <<changed.header>>),
                          "set_attributes", c, u, 0, <<attr>>)
       ELSE UNCHANGED <<store, g_sst_object>> /\ last' = NoCall
    /\ UNCHANGED <<sst_system_ready, creating, torn>>

(* Attributes are the ones whose validity period is 0, the only ones the    *)
(* service takes.                                                           *)
sst_am_set_attributes(c, u, outcome) ==
    /\ Allowed(c, u, all_perms)
    /\ \E attr \in Attributes : sst_object_set_attributes(c, u, attr, outcome)

sst_object_delete(c, u, outcome) ==
    /\ IF Exists(u)
       THEN /\ Change(outcome, CoreStore!DeleteObject(store, u), "delete", c, u, 0, <<>>)
            /\ torn' = IF outcome = "failed" THEN torn ELSE torn \ {u}
       ELSE UNCHANGED <<store, torn>> /\ last' = NoCall
    /\ UNCHANGED <<g_sst_object, sst_system_ready, creating>>

sst_am_delete(c, u, outcome) ==
    /\ Allowed(c, u, {SST_PERM_WRITE})
    /\ sst_object_delete(c, u, outcome)

PowerFail ==
    /\ sst_system_ready
    /\ sst_system_ready' = FALSE
    /\ g_sst_object' = Blank(Nothing, 0)
    /\ creating' = Nothing
    /\ torn' = IF Idle THEN torn ELSE torn \cup {creating.u}
    /\ last' = NoCall
    /\ UNCHANGED store

Next ==
    \/ sst_am_prepare
    \/ PowerFail
    \/ \E outcome \in Outcomes : CreateHeader(outcome)
    \/ \E c \in Callers, u \in Assets \cup {OtherAsset} :
          \/ \E outcome \in CreateOutcomes : sst_am_create(c, u, outcome)
          \/ \E outcome \in Outcomes :
                \/ sst_am_write(c, u, outcome)
                \/ sst_am_set_attributes(c, u, outcome)
                \/ sst_am_delete(c, u, outcome)
          \/ sst_am_read(c, u)
          \/ sst_am_get_info(c, u)
          \/ sst_am_get_attributes(c, u)
          \/ DataUnread(c, u)

Spec == Init /\ [][Next]_vars
------------------------------------------------------------------------------
(* What the owner of an asset sees.  An object without a header is not an   *)
(* asset yet.                                                               *)
NoAsset == [attr |-> 0, data |-> <<"absent">>]
Content(u) ==
    IF ~Exists(u) \/ store[u].data = <<>> THEN NoAsset
    ELSE [attr |-> store[u].data[1].attr, data |-> Tail(store[u].data)]

Service == INSTANCE AssetStore WITH assets <- [u \in Assets |-> Content(u)]

(* The policy as assets/sst_asset_defs.c and the comments of               *)
(* sst_am_check_s_ns_policy give it: secure code may do everything in its   *)
(* own name; an application what its entry says; and secure code for an     *)
(* application only what a reference allows, which is to read.              *)
MayChange(c, u) ==
    \/ c.secure /\ c.app = S_APP_ID
    \/ ~c.secure /\ c.app \in Apps /\ SST_PERM_WRITE \in Perms[u][c.app]
MayRead(c, u) ==
    \/ c.secure /\ c.app = S_APP_ID
    \/ c.app \in Apps /\ (IF c.secure THEN SST_PERM_REFERENCE ELSE SST_PERM_READ)
                             \in Perms[u][c.app]

(* What a request for any of all_perms is let through for, in the code:     *)
(* secure code acting for an application needs the reference, an            *)
(* application any permission at all.                                       *)
HasAny(c, u) ==
    \/ c.secure /\ c.app = S_APP_ID
    \/ c.app \in Apps /\ (IF c.secure THEN SST_PERM_REFERENCE \in Perms[u][c.app]
                         ELSE Perms[u][c.app] # {})
------------------------------------------------------------------------------
(* Every variable has its type; the buffer holds a header of some asset and *)
(* as many units as the largest asset needs.                                *)
TypeOK ==
    /\ store # Unformatted =>
          \A u \in Assets : Len(store[u].data) <= store[u].size_max
    /\ g_sst_object.header.uuid \in Assets \cup {Nothing}
    /\ g_sst_object.header.size_current \in 0 .. LargestSize
    /\ g_sst_object.data \in [1 .. LargestSize -> Values \cup {Zero}]
    /\ sst_system_ready \in BOOLEAN
    /\ creating # Nothing => creating \in [c : Callers, u : Assets]
    /\ torn \subseteq Assets

(* Whatever calls were made, failed or were cut by the power, variables     *)
(* keep their types and the header stored in an object belongs to that      *)
(* object and gives the length of the data behind it: sst_object_read and   *)
(* sst_object_write size their core calls and their bound checks by it.     *)
(* The buffer g_sst_object is shared by all assets and never cleared        *)
(* between calls.                                                           *)
HeaderMatches ==
    /\ TypeOK
    /\ \A u \in Assets : Exists(u) =>
          /\ store[u].size_max = SST_OBJECT_SIZE(MaxSize[u])
          /\ store[u].data # <<>> =>
                LET header == store[u].data[1]
                IN  /\ header.uuid = u /\ header.size_max = MaxSize[u]
                    /\ header.size_current = Len(store[u].data) - 1
                    /\ \A k \in 2 .. Len(store[u].data) : store[u].data[k] \in Values

(* A call that returns SUCCESS with data returns what the asset holds, to a *)
(* caller the policy lets read it (sst_am_get_info and                      *)
(* sst_am_get_attributes: to a caller with any permission on it): never     *)
(* units of the asset that was in the buffer before.  Data that was written *)
(* is there to be read.                                                     *)
ReturnsContent ==
    (last.name \in {"read", "write", "get_info", "get_attributes"}) =>
        LET now == Content(last.u)
        IN  /\ now # NoAsset
            /\ last.name = "read" => MayRead(last.c, last.u)
            /\ last.name \in {"get_info", "get_attributes"} => HasAny(last.c, last.u)
            /\ last.name \in {"read", "write"} =>
                  last.data = SubSeq(now.data, last.offset + 1,
                                     last.offset + Len(last.data))
            /\ last.name = "get_info" => last.data = <<MaxSize[last.u], Len(now.data)>>
            /\ last.name = "get_attributes" => last.data = <<now.attr>>

(* A create that returned SUCCESS left an asset that can be written and     *)
(* read, as psa_sst_create promises, unless an earlier creation of it was   *)
(* cut or failed between its two core calls (torn): then sst_object_create  *)
(* finds the object in place, and does not see that it has no header.       *)
(* Nothing else leaves an object without a header, and deleting it makes    *)
(* the identifier good again.                                               *)
UsableUnlessTorn ==
    /\ last.name = "create" => Exists(last.u)
    /\ \A u \in Assets : (Exists(u) /\ Content(u) = NoAsset) =>
          u \in torn \/ (~Idle /\ creating.u = u)

(* The step is that of a call for u that the code lets the caller make, and *)
(* leaves of u what the call asked for.                                     *)
AsAsked(u) ==
    LET call == last'
        old == Content(u)
    IN  /\ call.u = u
        /\ \/ MayChange(call.c, u)
           \/ call.name = "set_attributes" /\ HasAny(call.c, u)
        /\ Content(u)' =
             CASE call.name = "create" -> [attr |-> 0, data |-> <<>>]
               [] call.name = "write" ->
                    [old EXCEPT !.data =
                        Service!Overwrite(@, call.offset, call.data)]
               [] call.name = "set_attributes" -> [old EXCEPT !.attr = call.data[1]]
               [] call.name = "delete" -> NoAsset

(* An asset changes only in a call for it, and as that call asked: nothing  *)
(* of the asset that was in the buffer before gets into it, a write leaves  *)
(* the units outside its range alone, and a call that failed or was cut has *)
(* no part of its effect.  Only who may change the asset creates, writes or *)
(* deletes it; its attributes are set by whoever has any permission on it,  *)
(* as sst_am_set_attributes asks for all_perms.  That is more than the      *)
(* comments on the policy allow (OnlyWritersChange).                        *)
ChangesAsAsked ==
    [][\A u \in Assets : Content(u)' # Content(u) => AsAsked(u)]_vars

(* Secure code that acts for an application is only allowed "read by        *)
(* reference", and "other permissions can not be delegated" (comments in    *)
(* sst_am_check_s_ns_policy); an application creates, writes and deletes    *)
(* with SST_PERM_WRITE only.  So nobody else changes any part of an asset,  *)
(* its attributes included.                                                 *)
OnlyWritersChange ==
    [][\A u \in Assets : Content(u)' # Content(u) => MayChange(last'.c, u)]_vars

(* The service implements AssetStore: power cuts, medium errors and the     *)
(* shared buffer included, an asset is created empty, grows to its maximum  *)
(* size at most and without gaps, and is changed in single steps, although  *)
(* a creation takes two.                                                    *)
ImplementsAssets == Service!Spec
==============================================================================
