--------------------------- MODULE SSTObjectProofs ---------------------------
(***************************************************************************)
(* Proofs about SSTObject, for every policy: the header stored in an       *)
(* object always gives the length of the data behind it, an object without *)
(* a header is one whose creation was not finished, what a call returns is *)
(* what the asset holds, an asset changes only as a permitted call asked,  *)
(* and the service implements AssetStore.                                  *)
(***************************************************************************)
EXTENDS SSTObject, SequenceTheorems, TLAPS

Headers == [uuid : Assets, size_max : Nat, size_current : Nat, attr : Attributes]
Cells == Headers \cup Values

(* The units of an object of u: a header, and as many units of data as it   *)
(* says.                                                                    *)
Matches(u, d) ==
    /\ d \in Seq(Cells) /\ d # <<>>
    /\ d[1] \in Headers
    /\ d[1].uuid = u /\ d[1].size_max = MaxSize[u]
    /\ d[1].size_current = Len(d) - 1
    /\ d[1].size_current <= MaxSize[u]
    /\ \A k \in 2 .. Len(d) : d[k] \in Values

(* new is d with units written over its start. *)
Overwritten(new, units, d) ==
    /\ Len(new) = units[1].size_current + 1
    /\ \A k \in 1 .. Len(new) : new[k] = IF k <= Len(units) THEN units[k] ELSE d[k]

(* Whatever is written over the start of such an object leaves one, if it   *)
(* begins with a header for the longer of the two.                          *)
LEMMA OverwriteMatches ==
    ASSUME NEW u \in Assets, NEW d, d = <<>> \/ Matches(u, d),
           NEW units \in Seq(Cells), units # <<>>, units[1] \in Headers,
           units[1].uuid = u, units[1].size_max = MaxSize[u],
           units[1].size_current <= MaxSize[u],
           units[1].size_current =
               (IF Len(units) > Len(d) THEN Len(units) ELSE Len(d)) - 1,
           \A k \in 2 .. Len(units) : units[k] \in Values
    PROVE  LET new == units \o SubSeq(d, Len(units) + 1, Len(d))
           IN  Matches(u, new) /\ Overwritten(new, units, d)
<1> DEFINE rest == SubSeq(d, Len(units) + 1, Len(d))
           new == units \o rest
<1>1. /\ Len(units) \in Nat \ {0}
      /\ d \in Seq(Cells) /\ Len(d) \in Nat
      /\ \A k \in 2 .. Len(d) : d[k] \in Values
  <2>1. Len(units) \in Nat \ {0}
    BY EmptySeq
  <2>2. CASE d = <<>>
    BY <2>1, <2>2, EmptySeq
  <2>3. CASE Matches(u, d)
    BY <2>1, <2>3, LenProperties DEF Matches
  <2> QED
    BY <2>2, <2>3
<1>2. \A i \in Len(units) + 1 .. Len(d) : d[i] \in Cells
  BY <1>1, ElementOfSeq
<1>3. /\ rest \in Seq(Cells)
      /\ Len(rest) = IF Len(units) + 1 <= Len(d) THEN Len(d) - Len(units) ELSE 0
      /\ \A i \in 1 .. Len(d) - Len(units) : rest[i] = d[Len(units) + i]
  <2>1. /\ rest \in Seq(Cells)
        /\ Len(rest) = IF Len(units) + 1 <= Len(d) THEN Len(d) - (Len(units) + 1) + 1 ELSE 0
        /\ \A i \in 1 .. Len(d) - (Len(units) + 1) + 1 : rest[i] = d[Len(units) + 1 + i - 1]
    <3> HIDE DEF Cells
    <3> QED
      BY <1>1, <1>2, SubSeqProperties
  <2> HIDE DEF rest
  <2> QED
    BY <1>1, <2>1
<1> HIDE DEF rest
<1>4. /\ new \in Seq(Cells)
      /\ Len(new) = Len(units) + Len(rest)
      /\ \A i \in 1 .. Len(units) + Len(rest) :
            new[i] = IF i <= Len(units) THEN units[i] ELSE rest[i - Len(units)]
  BY <1>3, ConcatProperties, Zenon
<1> HIDE DEF new
<1>5. Len(new) = units[1].size_current + 1
  BY <1>1, <1>3, <1>4
<1>6. \A k \in 1 .. Len(new) : new[k] = IF k <= Len(units) THEN units[k] ELSE d[k]
  BY <1>1, <1>3, <1>4
<1>7. new[1] = units[1] /\ new # <<>> /\ Len(new) \in Nat
  BY <1>1, <1>4, <1>6, EmptySeq, LenProperties
<1>8. \A k \in 2 .. Len(new) : new[k] \in Values
  BY <1>1, <1>3, <1>4, <1>6
<1>9. units[1].size_current = Len(new) - 1
  BY <1>5, <1>7 DEF Headers
<1>10. Matches(u, new)
  BY <1>4, <1>7, <1>8, <1>9 DEF Matches
<1> QED
  BY <1>5, <1>6, <1>10 DEF new, rest, Overwritten
------------------------------------------------------------------------------
(* The core's store as this layer leaves it. *)
Objects == [size_max : Nat, data : Seq(Cells)]
Holds(s) ==
    /\ s \in [Assets -> Objects]
    /\ \A u \in Assets : s[u] # CoreStore!NoObject =>
          /\ s[u].size_max = SST_OBJECT_SIZE(MaxSize[u])
          /\ s[u].data = <<>> \/ Matches(u, s[u].data)

(* The sizes of the policy. *)
LEMMA Sizes ==
    /\ LargestSize \in Nat
    /\ \A u \in Assets : MaxSize[u] \in Nat \ {0} /\ MaxSize[u] <= LargestSize
<1>1. PICK u \in Assets : \A v \in Assets : MaxSize[v] <= MaxSize[u]
  BY PolicyAssumption
<1>2. LargestSize \in {MaxSize[v] : v \in Assets} /\ \A v \in Assets : MaxSize[v] <= LargestSize
  <2>1. \E n \in {MaxSize[v] : v \in Assets} : \A v \in Assets : MaxSize[v] <= n
    BY <1>1
  <2> QED
    BY <2>1 DEF LargestSize
<1> QED
  BY <1>2, PolicyAssumption

(* A store that is formatted has an entry for each asset. *)
LEMMA FormattedStore ==
    ASSUME NEW s, Holds(s)
    PROVE  s # Unformatted
<1>1. \E u \in Assets : TRUE
  BY PolicyAssumption
<1>2. DOMAIN s = Assets
  BY DEF Holds
<1>3. DOMAIN Unformatted = {}
  BY DEF Unformatted, CoreStore!Unformatted
<1> QED
  BY <1>1, <1>2, <1>3

(* The store that formatting leaves has no objects. *)
LEMMA HoldsEmpty == Holds(CoreStore!EmptyStore)
<1>1. CoreStore!NoObject \in Objects
  BY EmptySeq DEF CoreStore!NoObject, Objects
<1> QED
  BY <1>1 DEF Holds, CoreStore!EmptyStore

(* The first core call of sst_object_create leaves an object without units. *)
LEMMA HoldsCreate ==
    ASSUME NEW s, Holds(s), NEW u \in Assets
    PROVE  LET new == CoreStore!CreateObject(s, u, SST_OBJECT_SIZE(MaxSize[u]))
           IN  /\ Holds(new)
               /\ new[u] # CoreStore!NoObject /\ new[u].data = <<>>
               /\ \A v \in Assets \ {u} : new[v] = s[v]
<1> DEFINE new == CoreStore!CreateObject(s, u, SST_OBJECT_SIZE(MaxSize[u]))
           object == [size_max |-> SST_OBJECT_SIZE(MaxSize[u]), data |-> <<>>]
<1>1. SST_OBJECT_SIZE(MaxSize[u]) \in Nat \ {0}
  BY Sizes DEF SST_OBJECT_SIZE, SST_OBJECT_HEADER_SIZE
<1>2. object \in Objects /\ object # CoreStore!NoObject
  BY <1>1, EmptySeq DEF Objects, CoreStore!NoObject
<1>3. /\ new \in [Assets -> Objects]
      /\ new[u] = object
      /\ \A v \in Assets \ {u} : new[v] = s[v]
  BY <1>2 DEF CoreStore!CreateObject, Holds
<1> QED
  BY <1>2, <1>3 DEF Holds

(* sst_core_object_delete leaves the other objects alone. *)
LEMMA HoldsDelete ==
    ASSUME NEW s, Holds(s), NEW u \in Assets
    PROVE  LET new == CoreStore!DeleteObject(s, u)
           IN  /\ Holds(new)
               /\ new[u] = CoreStore!NoObject
               /\ \A v \in Assets \ {u} : new[v] = s[v]
<1> DEFINE new == CoreStore!DeleteObject(s, u)
<1>1. CoreStore!NoObject \in Objects
  BY EmptySeq DEF CoreStore!NoObject, Objects
<1>2. /\ new \in [Assets -> Objects]
      /\ new[u] = CoreStore!NoObject
      /\ \A v \in Assets \ {u} : new[v] = s[v]
  BY <1>1 DEF CoreStore!DeleteObject, Holds
<1> QED
  BY <1>2 DEF Holds

(* sst_core_object_write with a header in front leaves a sound object. *)
LEMMA HoldsWrite ==
    ASSUME Holds(store), NEW u \in Assets, store[u] # CoreStore!NoObject,
           NEW units \in Seq(Cells), units # <<>>, units[1] \in Headers,
           units[1].uuid = u, units[1].size_max = MaxSize[u],
           units[1].size_current <= MaxSize[u],
           units[1].size_current =
               (IF Len(units) > Len(store[u].data) THEN Len(units)
                ELSE Len(store[u].data)) - 1,
           \A k \in 2 .. Len(units) : units[k] \in Values
    PROVE  LET new == Written(u, units)
           IN  /\ Holds(new)
               /\ new[u] # CoreStore!NoObject /\ Matches(u, new[u].data)
               /\ \A v \in Assets \ {u} : new[v] = store[v]
               /\ Overwritten(new[u].data, units, store[u].data)
<1> DEFINE d == store[u].data
           data == units \o SubSeq(d, Len(units) + 1, Len(d))
           new == Written(u, units)
<1>1. store \in [Assets -> Objects] /\ (d = <<>> \/ Matches(u, d))
  BY DEF Holds
<1>2. Matches(u, data) /\ Overwritten(data, units, d)
  <2> HIDE DEF d
  <2>1. d = <<>> \/ Matches(u, d)
    BY <1>1
  <2>2. units[1].size_current = (IF Len(units) > Len(d) THEN Len(units) ELSE Len(d)) - 1
    BY DEF d
  <2> QED
    BY <2>1, <2>2, OverwriteMatches
<1>3. data \in Seq(Cells) /\ data # <<>>
  BY <1>2 DEF Matches
<1>4. new = [store EXCEPT ![u].data = data]
  BY DEF Written
<1> HIDE DEF new, data
<1>5. new \in [Assets -> Objects]
  BY <1>1, <1>3, <1>4, Zenon DEF Objects
<1>6. new[u].data = data /\ new[u].size_max = store[u].size_max
  BY <1>1, <1>4 DEF Objects
<1>7. \A v \in Assets \ {u} : new[v] = store[v]
  BY <1>1, <1>4
<1>8. new[u] # CoreStore!NoObject
  BY <1>3, <1>6 DEF CoreStore!NoObject
<1>9. Holds(new)
  BY <1>2, <1>5, <1>6, <1>7 DEF Holds
<1> QED
  BY <1>2, <1>6, <1>7, <1>8, <1>9 DEF new, d
------------------------------------------------------------------------------
Buffers ==
    [header : [uuid : Assets \cup {Nothing}, size_max : Nat,
               size_current : 0 .. LargestSize, attr : Attributes],
     data : [1 .. LargestSize -> Values \cup {Zero}]]

(* The inductive invariant.  Between the two core calls of a creation the   *)
(* object is there without a header, and the header is in the buffer.       *)
ObjectInv ==
    /\ sst_system_ready \in BOOLEAN
    /\ torn \subseteq Assets
    /\ g_sst_object \in Buffers
    /\ store = Unformatted \/ Holds(store)
    /\ sst_system_ready => store # Unformatted
    /\ ~Idle =>
          /\ creating \in [c : Callers, u : Assets]
          /\ store # Unformatted
          /\ store[creating.u] # CoreStore!NoObject
          /\ store[creating.u].data = <<>>
          /\ g_sst_object.header = Blank(creating.u, MaxSize[creating.u]).header
    /\ \A u \in Assets :
          (Exists(u) /\ store[u].data = <<>>) => u \in torn \/ (~Idle /\ creating.u = u)
    /\ last.name = "create" => last.u \in Assets /\ Exists(last.u)

(* A buffer just cleared has its type. *)
LEMMA BlankBuffer ==
    /\ Blank(Nothing, 0) \in Buffers
    /\ \A u \in Assets : Blank(u, MaxSize[u]) \in Buffers
  BY Sizes, PolicyAssumption DEF Blank, Buffers

(* The invariant holds at first. *)
LEMMA ObjectInit == Init => ObjectInv
<1> SUFFICES ASSUME Init PROVE ObjectInv
  OBVIOUS
<1>1. ~Exists(last.u) /\ \A u \in Assets : ~Exists(u)
  BY DEF Init, Exists, CoreStore!Exists, Unformatted
<1>2. last.name # "create"
  BY DEF Init, NoCall
<1> QED
  BY <1>1, <1>2, BlankBuffer, Zenon DEF Init, ObjectInv, Idle

(* What a call finds when it has read the header of u. *)
LEMMA HeaderRead ==
    ASSUME ObjectInv, NEW u \in Assets, HeaderError(u) = "SUCCESS"
    PROVE  /\ Exists(u) /\ store # Unformatted /\ Holds(store)
           /\ store[u] # CoreStore!NoObject
           /\ Matches(u, store[u].data)
           /\ WithHeader(u) \in Buffers
           /\ WithHeader(u).header = store[u].data[1]
           /\ WithHeader(u).data = g_sst_object.data
<1>1. Exists(u) /\ ~(0 + 1 > Len(store[u].data))
  BY DEF HeaderError, sst_core_object_read, SST_OBJECT_HEADER_SIZE
<1>2. store # Unformatted /\ store[u] # CoreStore!NoObject
  BY <1>1 DEF Exists, CoreStore!Exists, Unformatted
<1>3. Holds(store)
  BY <1>2 DEF ObjectInv
<1>4. Matches(u, store[u].data)
  <2>1. store[u].data # <<>>
    BY <1>1, EmptySeq
  <2> QED
    BY <1>2, <1>3, <2>1 DEF Holds
<1>5. store[u].data[1].size_current \in 0 .. LargestSize
  BY <1>4, Sizes DEF Matches, Headers
<1>6. g_sst_object \in Buffers
  BY DEF ObjectInv
<1> DEFINE h == store[u].data[1]
<1>7. /\ h \in Headers /\ h.size_current \in 0 .. LargestSize
  BY <1>4, <1>5 DEF Matches
<1> HIDE DEF h
<1>8. WithHeader(u) = [g_sst_object EXCEPT !.header = h]
  BY DEF WithHeader, h
<1>9. /\ WithHeader(u) \in Buffers
      /\ WithHeader(u).header = h
      /\ WithHeader(u).data = g_sst_object.data
  BY <1>6, <1>7, <1>8 DEF Buffers, Headers
<1> QED
  BY <1>1, <1>2, <1>3, <1>4, <1>9 DEF h

(* What a call finds when it has read the header and the data of u. *)
LEMMA ObjectRead ==
    ASSUME ObjectInv, NEW u \in Assets
    PROVE  /\ Loaded(u) \in Buffers
           /\ ObjectError(u) = "SUCCESS" =>
                 /\ HeaderError(u) = "SUCCESS"
                 /\ Loaded(u).header = store[u].data[1]
                 /\ \A k \in 1 .. store[u].data[1].size_current :
                       Loaded(u).data[k] = store[u].data[k + 1]
<1>1. CASE HeaderError(u) # "SUCCESS"
  BY <1>1 DEF Loaded, ObjectError, ObjectInv
<1>2. CASE HeaderError(u) = "SUCCESS" /\ ObjectError(u) # "SUCCESS"
  BY <1>2, HeaderRead DEF Loaded
<1>3. CASE HeaderError(u) = "SUCCESS" /\ ObjectError(u) = "SUCCESS"
  <2> DEFINE d == store[u].data
             h == d[1]
             f == [k \in 1 .. LargestSize |->
                     IF k <= h.size_current THEN d[k + 1] ELSE g_sst_object.data[k]]
  <2>1. Loaded(u) = [header |-> h, data |-> f]
    BY <1>3 DEF Loaded, WithObject
  <2>2. Matches(u, d)
    BY <1>3, HeaderRead
  <2> HIDE DEF d
  <2>3. /\ h \in Headers /\ h.size_current \in 0 .. LargestSize
        /\ \A k \in 1 .. h.size_current : d[k + 1] \in Values
    BY <2>2, Sizes, LenProperties DEF Matches, Headers
  <2> HIDE DEF h
  <2>4. \A k \in 1 .. LargestSize : g_sst_object.data[k] \in Values \cup {Zero}
    BY Zenon DEF ObjectInv, Buffers
  <2>5. f \in [1 .. LargestSize -> Values \cup {Zero}]
    BY <2>3, <2>4, Sizes
  <2>6. \A k \in 1 .. h.size_current : f[k] = d[k + 1]
    BY <2>3, Sizes
  <2> HIDE DEF f
  <2>7. [header |-> h, data |-> f] \in Buffers
    BY <2>3, <2>5 DEF Buffers, Headers
  <2> QED
    BY <1>3, <2>1, <2>6, <2>7 DEF h, d
<1> QED
  BY <1>1, <1>2, <1>3
------------------------------------------------------------------------------
(* What the owners of the assets see, and a step of it. *)
Abs == [u \in Assets |-> Content(u)]
Refines == Service!Next \/ Abs' = Abs

(* What changes is what the call asked for. *)
Changes == \A u \in Assets : Content(u)' # Content(u) => AsAsked(u)

(* What a step must do. *)
Sound == ObjectInv' /\ Refines /\ Changes /\ ReturnsContent'

(* A step that changes no asset. *)
LEMMA NoneChanged ==
    ASSUME \A u \in Assets : Content(u)' = Content(u)
    PROVE  Abs' = Abs /\ Refines /\ Changes
  BY DEF Abs, Refines, Changes

(* A call that changes one asset. *)
LEMMA OneChanged ==
    ASSUME NEW u \in Assets, \A v \in Assets \ {u} : Content(v)' = Content(v), AsAsked(u)
    PROVE  Changes
  BY DEF Changes

(* A call that returned no data. *)
LEMMA NothingReturned ==
    ASSUME last'.name \notin {"read", "write", "get_info", "get_attributes"}
    PROVE  ReturnsContent'
  BY DEF ReturnsContent

(* The asset a call was for, as it is when the call returns. *)
LEMMA AssetOfCall ==
    ASSUME NEW u, last'.u = u
    PROVE  Content(last.u)' = Content(u)'
  BY DEF Content, Exists, CoreStore!Exists, NoAsset

(* Who calls has been let through by the policy. *)
LEMMA PolicyKept ==
    ASSUME NEW c \in Callers, NEW u
    PROVE  /\ Allowed(c, u, {SST_PERM_WRITE}) => MayChange(c, u)
           /\ Allowed(c, u, {SST_PERM_READ}) => MayRead(c, u)
           /\ Allowed(c, u, all_perms) => HasAny(c, u)
<1> USE DEF Allowed, sst_am_get_db_entry, sst_am_check_s_ns_policy, Callers,
            SST_PERM_REFERENCE, SST_PERM_READ, SST_PERM_WRITE
<1>1. Allowed(c, u, {SST_PERM_WRITE}) => MayChange(c, u)
  BY DEF MayChange
<1>2. Allowed(c, u, {SST_PERM_READ}) => MayRead(c, u)
  BY DEF MayRead
<1>3. Allowed(c, u, all_perms) => HasAny(c, u)
  BY DEF HasAny, all_perms
<1> QED
  BY <1>1, <1>2, <1>3

(* Units of data are not the mark of an asset that is not there. *)
LEMMA DataPresent ==
    ASSUME NEW u, NEW d, Matches(u, d)
    PROVE  Tail(d) # <<"absent">>
<1> SUFFICES ASSUME Tail(d) = <<"absent">> PROVE FALSE
  OBVIOUS
<1>1. /\ Len(Tail(d)) = Len(d) - 1 /\ Len(d) \in Nat
      /\ \A i \in 1 .. Len(Tail(d)) : Tail(d)[i] = d[i + 1]
  BY HeadTailProperties, LenProperties DEF Matches
<1>2. Len(<<"absent">>) >= 1 /\ <<"absent">>[1] = "absent"
  OBVIOUS
<1>3. Len(Tail(d)) >= 1 /\ Tail(d)[1] = "absent"
  BY <1>2, Zenon
<1>4. d[2] = "absent" /\ 2 \in 2 .. Len(d)
  BY <1>1, <1>3
<1> QED
  BY <1>4, PolicyAssumption DEF Matches

(* An object with a header is an asset, before a step and after it. *)
LEMMA AssetSeen ==
    ASSUME NEW u \in Assets, Holds(store), Matches(u, store[u].data)
    PROVE  /\ Content(u) = [attr |-> store[u].data[1].attr, data |-> Tail(store[u].data)]
           /\ Content(u) # NoAsset
<1>1. store[u].data # <<>>
  BY DEF Matches
<1>2. Exists(u)
  BY <1>1, FormattedStore DEF Exists, CoreStore!Exists, CoreStore!NoObject, Unformatted
<1>3. Content(u) = [attr |-> store[u].data[1].attr, data |-> Tail(store[u].data)]
  BY <1>1, <1>2 DEF Content
<1>4. Content(u).data = Tail(store[u].data) /\ NoAsset.data = <<"absent">>
  BY <1>3 DEF NoAsset
<1>5. Content(u).data # NoAsset.data
  BY <1>4, DataPresent
<1> QED
  BY <1>3, <1>5, Zenon

(* The same after a step. *)
LEMMA AssetSeenNext ==
    ASSUME NEW u \in Assets, Holds(store'), Matches(u, store'[u].data)
    PROVE  Content(u)' = [attr |-> store'[u].data[1].attr, data |-> Tail(store'[u].data)]
<1>1. store'[u].data # <<>>
  BY DEF Matches
<1>2. Exists(u)'
  BY <1>1, FormattedStore DEF Exists, CoreStore!Exists, CoreStore!NoObject, Unformatted
<1> QED
  BY <1>1, <1>2 DEF Content

(* One without a header is not. *)
LEMMA NoAssetSeen ==
    ASSUME NEW u \in Assets
    PROVE  /\ store = Unformatted \/ store[u].data = <<>> => Content(u) = NoAsset
           /\ store' = Unformatted \/ store'[u].data = <<>> => Content(u)' = NoAsset
  BY DEF Content, NoAsset, Exists, CoreStore!Exists, Unformatted

(* What is not changed in the store looks the same. *)
LEMMA SeenAlike ==
    ASSUME NEW u \in Assets, store # Unformatted, store' # Unformatted,
           store'[u] = store[u]
    PROVE  Content(u)' = Content(u)
<1>1. Exists(u)' <=> Exists(u)
  BY DEF Exists, CoreStore!Exists, Unformatted
<1> QED
  BY <1>1 DEF Content, NoAsset

(* One asset changed as AssetStore allows is a step of it. *)
LEMMA AssetStep ==
    ASSUME NEW u \in Assets, \A v \in Assets \ {u} : Content(v)' = Content(v),
           \/ Content(u)' = Content(u)
           \/ Content(u) = NoAsset /\ Content(u)' = [attr |-> 0, data |-> <<>>]
           \/ Content(u)' = NoAsset
           \/ /\ Content(u) # NoAsset
              /\ \E attr \in Attributes : Content(u)' = [Content(u) EXCEPT !.attr = attr]
           \/ /\ Content(u) # NoAsset
              /\ \E offset \in 0 .. Len(Content(u).data), size \in 1 .. MaxSize[u] :
                    /\ offset + size <= MaxSize[u]
                    /\ \E units \in [1 .. size -> Values] :
                          Content(u)' = [Content(u) EXCEPT !.data =
                                            Service!Overwrite(@, offset, units)]
    PROVE  Refines
<1>1. /\ Abs \in [Assets -> {Abs[v] : v \in Assets}]
      /\ Abs[u] = Content(u) /\ Abs'[u] = Content(u)'
      /\ Abs' = [Abs EXCEPT ![u] = Content(u)']
  BY Zenon DEF Abs
<1>2. CASE Content(u)' = Content(u)
  BY <1>1, <1>2 DEF Refines, Abs
<1>3. ASSUME Content(u)' # Content(u),
             Service!Create(u) \/ Service!Write(u) \/ Service!SetAttributes(u) \/ Service!Delete(u)
      PROVE  Refines
  BY <1>1, <1>3 DEF Refines, Service!Next, Abs
<1>4. CASE Content(u) = NoAsset /\ Content(u)' = [attr |-> 0, data |-> <<>>]
  <2>1. Service!Create(u)
    BY <1>1, <1>4 DEF Service!Create, Service!NoAsset, NoAsset, Abs
  <2> QED
    BY <1>2, <1>3, <2>1
<1>5. CASE Content(u)' = NoAsset
  <2>1. Service!Delete(u)
    BY <1>1, <1>5 DEF Service!Delete, Service!NoAsset, NoAsset, Abs
  <2> QED
    BY <1>2, <1>3, <2>1
<1>6. CASE /\ Content(u) # NoAsset
           /\ \E attr \in Attributes : Content(u)' = [Content(u) EXCEPT !.attr = attr]
  <2>1. Service!SetAttributes(u)
    BY <1>1, <1>6, Zenon DEF Service!SetAttributes, Service!NoAsset, NoAsset, Abs
  <2> QED
    BY <1>2, <1>3, <2>1
<1>7. CASE /\ Content(u) # NoAsset
           /\ \E offset \in 0 .. Len(Content(u).data), size \in 1 .. MaxSize[u] :
                 /\ offset + size <= MaxSize[u]
                 /\ \E units \in [1 .. size -> Values] :
                       Content(u)' = [Content(u) EXCEPT !.data =
                                         Service!Overwrite(@, offset, units)]
  <2>1. PICK offset \in 0 .. Len(Content(u).data), size \in 1 .. MaxSize[u] :
           /\ offset + size <= MaxSize[u]
           /\ \E units \in [1 .. size -> Values] :
                 Content(u)' = [Content(u) EXCEPT !.data =
                                   Service!Overwrite(@, offset, units)]
    BY <1>7, Zenon
  <2>2. PICK units \in [1 .. size -> Values] :
           Content(u)' = [Content(u) EXCEPT !.data = Service!Overwrite(@, offset, units)]
    BY <2>1, Zenon
  <2>3. Abs' = [Abs EXCEPT ![u].data = Service!Overwrite(@, offset, units)]
    BY <1>1, <2>2
  <2>4. /\ Abs[u] # Service!NoAsset
        /\ offset \in 0 .. Len(Abs[u].data) /\ size \in 1 .. MaxSize[u]
        /\ offset + size <= MaxSize[u] /\ units \in Service!Units(size)
    BY <1>1, <1>7, <2>1 DEF Service!NoAsset, NoAsset, Service!Units
  <2>5. /\ Abs[u] # Service!NoAsset
        /\ \E o \in 0 .. Len(Abs[u].data), n \in 1 .. MaxSize[u] :
              /\ o + n <= MaxSize[u]
              /\ \E x \in Service!Units(n) :
                    Abs' = [Abs EXCEPT ![u].data = Service!Overwrite(@, o, x)]
    BY <2>3, <2>4, Zenon
  <2>6. Service!Write(u)
    BY <2>5, Zenon DEF Service!Write, Abs
  <2> QED
    BY <1>2, <1>3, <2>6
<1> QED
  BY <1>2, <1>4, <1>5, <1>6, <1>7

(* A call that leaves the store alone. *)
LEMMA StoreKept ==
    ASSUME ObjectInv, Idle,
           UNCHANGED <<store, creating, torn, sst_system_ready>>,
           g_sst_object' \in Buffers,
           last'.name = "create" => last'.u \in Assets /\ Exists(last'.u)
    PROVE  ObjectInv' /\ Refines /\ Changes
<1>1. Idle'
  BY DEF Idle
<1>2. \A u : Exists(u)' <=> Exists(u)
  BY DEF Exists, CoreStore!Exists
<1>3. last'.name = "create" => last'.u \in Assets /\ Exists(last.u)'
  BY DEF Exists, CoreStore!Exists
<1>4. Refines /\ Changes
  <2>1. \A u \in Assets : Content(u)' = Content(u)
    BY DEF Content, NoAsset, Exists, CoreStore!Exists
  <2> QED
    BY <2>1, NoneChanged
<1> QED
  BY <1>1, <1>2, <1>3, <1>4 DEF ObjectInv

(* A call that changes the object u. *)
LEMMA StoreChanged ==
    ASSUME ObjectInv, Idle', sst_system_ready' \in BOOLEAN,
           NEW u \in Assets, Holds(store), Holds(store'),
           \A v \in Assets \ {u} : store'[v] = store[v],
           (store'[u] # CoreStore!NoObject /\ store'[u].data = <<>>) => u \in torn',
           ~Idle => creating.u = u,
           torn \ {u} \subseteq torn', torn' \subseteq Assets,
           g_sst_object' \in Buffers,
           last'.name = "create" => last'.u = u /\ store'[u] # CoreStore!NoObject
    PROVE  /\ ObjectInv'
           /\ \A v \in Assets \ {u} : Content(v)' = Content(v)
<1>1. store' # Unformatted /\ store # Unformatted
  BY FormattedStore
<1>2. \A v \in Assets : Exists(v)' <=> store'[v] # CoreStore!NoObject
  BY <1>1 DEF Exists, CoreStore!Exists, Unformatted
<1>3. \A v \in Assets : Exists(v) <=> store[v] # CoreStore!NoObject
  BY <1>1 DEF Exists, CoreStore!Exists, Unformatted
<1>4. \A v \in Assets : Exists(v)' /\ store'[v].data = <<>> => v \in torn'
  BY <1>2, <1>3 DEF ObjectInv
<1>5. last'.name = "create" => last'.u \in Assets /\ Exists(last.u)'
  BY <1>1 DEF Exists, CoreStore!Exists, Unformatted
<1>6. Holds(store)'
  BY DEF Holds
<1>7. (store # Unformatted)'
  BY <1>1 DEF Unformatted, CoreStore!Unformatted
<1>8. (g_sst_object \in Buffers)'
  BY DEF Buffers, Nothing, LargestSize, Zero
<1>9. \A v \in Assets \ {u} : Content(v)' = Content(v)
  BY <1>1, SeenAlike
<1> QED
  BY <1>4, <1>5, <1>6, <1>7, <1>8, <1>9 DEF ObjectInv

(* Until the service is ready it has returned nothing, and a creation goes  *)
(* on only for a caller who may change the asset.                           *)
CallInv ==
    /\ ~sst_system_ready => last = NoCall /\ Idle
    /\ ~Idle => MayChange(creating.c, creating.u)

(* Start-up formats a store at most once, and no asset changes. *)
LEMMA PrepareInv == ObjectInv /\ CallInv /\ sst_am_prepare => Sound
<1> SUFFICES ASSUME ObjectInv, CallInv, sst_am_prepare PROVE Sound
  OBVIOUS
<1>1. Holds(store') /\ store' # Unformatted
  BY HoldsEmpty, FormattedStore DEF sst_am_prepare, ObjectInv
<1>2. \A u \in Assets : Content(u)' = Content(u)
  <2>1. CASE store # Unformatted
    BY <2>1 DEF sst_am_prepare, Content, NoAsset, Exists, CoreStore!Exists
  <2>2. CASE store = Unformatted
    <3>1. \A u \in Assets : store'[u].data = <<>>
      BY <2>2 DEF sst_am_prepare, CoreStore!EmptyStore, CoreStore!NoObject
    <3> QED
      BY <2>2, <3>1, NoAssetSeen
  <2> QED
    BY <2>1, <2>2
<1>3. Refines /\ Changes
  BY <1>2, NoneChanged
<1>4. ReturnsContent'
  BY NothingReturned DEF sst_am_prepare, CallInv, NoCall
<1>5. CASE store # Unformatted
  <2>1. store' = store
    BY <1>5 DEF sst_am_prepare
  <2>2. \A u : Exists(u)' <=> Exists(u)
    BY <2>1 DEF Exists, CoreStore!Exists
  <2> QED
    BY <1>1, <1>3, <1>4, <2>1, <2>2 DEF sst_am_prepare, ObjectInv, Idle, Sound
<1>6. CASE store = Unformatted
  <2>1. store' = CoreStore!EmptyStore
    BY <1>6 DEF sst_am_prepare
  <2>2. \A u \in Assets : ~Exists(u)'
    BY <2>1 DEF Exists, CoreStore!Exists, CoreStore!EmptyStore
  <2>3. last.name # "create"
    BY <1>6 DEF ObjectInv, Exists, CoreStore!Exists, Unformatted
  <2>4. Holds(store)'
    BY <1>1 DEF Holds
  <2> QED
    BY <1>1, <1>3, <1>4, <2>2, <2>3, <2>4 DEF sst_am_prepare, ObjectInv, Idle, Sound
<1> QED
  BY <1>5, <1>6

(* A power cut leaves the store; a creation under way stays unfinished. *)
LEMMA PowerFailInv == ObjectInv /\ PowerFail => Sound
<1> SUFFICES ASSUME ObjectInv, PowerFail PROVE Sound
  OBVIOUS
<1>1. \A u : Exists(u)' <=> Exists(u)
  BY DEF PowerFail, Exists, CoreStore!Exists
<1>2. Idle' /\ last'.name # "create" /\ g_sst_object' \in Buffers
  BY BlankBuffer DEF PowerFail, Idle, NoCall
<1>3. /\ torn' \subseteq Assets
      /\ \A u \in Assets : u \in torn \/ (~Idle /\ creating.u = u) => u \in torn'
  BY DEF PowerFail, ObjectInv
<1>4. Refines /\ Changes
  <2>1. \A u \in Assets : Content(u)' = Content(u)
    BY DEF PowerFail, Content, NoAsset, Exists, CoreStore!Exists
  <2> QED
    BY <2>1, NoneChanged
<1>5. ReturnsContent'
  BY NothingReturned DEF PowerFail, NoCall
<1>6. ObjectInv'
  BY <1>1, <1>2, <1>3, Zenon DEF PowerFail, ObjectInv
<1> QED
  BY <1>4, <1>5, <1>6 DEF Sound

(* The policy names only its own assets, and a store that is in use is      *)
(* formatted.                                                               *)
LEMMA AllowedFacts ==
    ASSUME ObjectInv, NEW c, NEW u, NEW request, Allowed(c, u, request)
    PROVE  u \in Assets /\ Idle /\ sst_system_ready /\ Holds(store)
  BY DEF Allowed, sst_am_get_db_entry, ObjectInv

(* The first half of a creation: no asset is seen yet. *)
LEMMA CreateInv ==
    ASSUME ObjectInv, NEW c \in Callers, NEW u, NEW outcome \in CreateOutcomes,
           sst_am_create(c, u, outcome)
    PROVE  Sound
<1>1. u \in Assets /\ Idle /\ sst_system_ready /\ Holds(store)
  BY AllowedFacts DEF sst_am_create
<1>2. sst_object_create(c, u, outcome)
  BY DEF sst_am_create
<1>3. CASE Exists(u)
  <2>1. last'.name = "create" /\ last'.u = u
    BY <1>2, <1>3 DEF sst_object_create, Call
  <2>2. ReturnsContent'
    BY <2>1, NothingReturned
  <2>3. ObjectInv' /\ Refines /\ Changes
    BY <1>1, <1>2, <1>3, <2>1, StoreKept, Zenon DEF sst_object_create, ObjectInv
  <2> QED
    BY <2>2, <2>3 DEF Sound
<1>4. CASE ~Exists(u)
  <2> DEFINE new == CoreStore!CreateObject(store, u, SST_OBJECT_SIZE(MaxSize[u]))
  <2>1. /\ Holds(new)
        /\ new[u] # CoreStore!NoObject /\ new[u].data = <<>>
        /\ \A v \in Assets \ {u} : new[v] = store[v]
    BY <1>1, HoldsCreate, Zenon
  <2>2. /\ store' = IF outcome = "failed" THEN store ELSE new
        /\ g_sst_object' = Blank(u, MaxSize[u])
        /\ creating' = IF outcome = "done" THEN [c |-> c, u |-> u] ELSE Nothing
        /\ torn' = IF outcome = "late" THEN torn \cup {u} ELSE torn
        /\ last' = NoCall
        /\ sst_system_ready' = sst_system_ready
    BY <1>2, <1>4 DEF sst_object_create, Core
  <2> HIDE DEF new
  <2>3. g_sst_object' \in Buffers /\ last'.name # "create" /\ ReturnsContent'
    BY <1>1, <2>2, BlankBuffer, NothingReturned DEF NoCall
  <2>4. store # Unformatted /\ store[u] = CoreStore!NoObject
    BY <1>1, <1>4, FormattedStore DEF Exists, CoreStore!Exists, Unformatted
  <2>5. Content(u) = NoAsset
    BY <1>1, <2>4, NoAssetSeen DEF CoreStore!NoObject
  <2>6. CASE outcome = "failed"
    <3>1. UNCHANGED <<store, creating, torn, sst_system_ready>>
      BY <1>1, <2>2, <2>6 DEF Idle
    <3> QED
      BY <1>1, <2>3, <3>1, StoreKept DEF Sound
  <2>7. CASE outcome = "late"
    <3>1. store' = new /\ torn' = torn \cup {u} /\ Idle'
      BY <2>2, <2>7 DEF Idle
    <3>2. torn' \subseteq Assets
      BY <1>1, <3>1 DEF ObjectInv
    <3>3. ObjectInv' /\ \A v \in Assets \ {u} : Content(v)' = Content(v)
      BY <1>1, <2>1, <2>2, <2>3, <3>1, <3>2, StoreChanged
    <3>4. Content(u)' = NoAsset
      BY <1>1, <2>1, <3>1, NoAssetSeen
    <3> QED
      BY <1>1, <2>3, <2>5, <3>3, <3>4, NoneChanged DEF Sound
  <2>8. CASE outcome = "done"
    <3>1. store' = new /\ torn' = torn /\ creating' = [c |-> c, u |-> u]
      BY <2>2, <2>8
    <3>2. creating' \in [c : Callers, u : Assets] /\ creating'.u = u /\ ~Idle'
      BY <1>1, <3>1, PolicyAssumption DEF Idle, Nothing
    <3>3. store' # Unformatted
      BY <2>1, <3>1, FormattedStore
    <3>4. \A v \in Assets : Exists(v)' /\ store'[v].data = <<>> => v \in torn' \/ v = u
      BY <1>1, <2>1, <2>4, <3>1 DEF ObjectInv, Exists, CoreStore!Exists, Unformatted
    <3>5. g_sst_object'.header = Blank(u, MaxSize[u]).header
      BY <2>2
    <3>6. ObjectInv'
      BY <1>1, <2>1, <2>2, <2>3, <3>1, <3>2, <3>3, <3>4, <3>5 DEF ObjectInv
    <3>7. \A v \in Assets \ {u} : Content(v)' = Content(v)
      BY <2>1, <2>4, <3>1, <3>3, SeenAlike
    <3>8. Content(u)' = NoAsset
      BY <1>1, <2>1, <3>1, NoAssetSeen
    <3> QED
      BY <1>1, <2>3, <2>5, <3>6, <3>7, <3>8, NoneChanged DEF Sound
  <2> QED
    BY <2>6, <2>7, <2>8 DEF CreateOutcomes, Outcomes
<1> QED
  BY <1>3, <1>4

(* The second half: the asset is there, and empty, or torn. *)
LEMMA CreateHeaderInv ==
    ASSUME ObjectInv, CallInv, NEW outcome \in Outcomes, CreateHeader(outcome)
    PROVE  Sound
<1>1. PICK u \in Assets : u = creating.u
  BY DEF ObjectInv, CreateHeader
<1> DEFINE h == Blank(u, MaxSize[u]).header
           units == <<h>>
           new == Written(u, units)
<1>2. /\ ~Idle /\ store # Unformatted /\ Holds(store)
      /\ store[u] # CoreStore!NoObject /\ store[u].data = <<>>
      /\ g_sst_object.header = h
  BY <1>1 DEF ObjectInv, CreateHeader
<1>3. /\ store' = IF outcome = "failed" THEN store ELSE new
      /\ outcome = "failed" => last' = NoCall
      /\ outcome # "failed" =>
            last'.name = "create" /\ last'.u = u /\ MayChange(last'.c, u)
      /\ torn' = IF outcome = "failed" THEN torn \cup {u} ELSE torn
      /\ Idle' /\ UNCHANGED <<g_sst_object, sst_system_ready>>
  <2>1. store' = IF outcome = "failed" THEN store ELSE new
    BY <1>1, <1>2, Zenon DEF CreateHeader, Change, Core
  <2>2. last' = IF outcome = "failed" THEN NoCall
                ELSE [name |-> "create", c |-> creating.c, u |-> u, offset |-> 0, data |-> <<>>]
    BY <1>1 DEF CreateHeader, Change, Call
  <2>3. MayChange(creating.c, u)
    BY <1>1, <1>2 DEF CallInv
  <2>4. /\ torn' = IF outcome = "failed" THEN torn \cup {u} ELSE torn
        /\ Idle' /\ UNCHANGED <<g_sst_object, sst_system_ready>>
    BY <1>1 DEF CreateHeader, Idle
  <2> QED
    BY <2>1, <2>2, <2>3, <2>4
<1>4. /\ h \in Headers /\ h.uuid = u /\ h.size_max = MaxSize[u]
      /\ h.size_current = 0 /\ h.attr = 0
  BY Sizes, PolicyAssumption DEF Blank, Headers
<1> HIDE DEF h
<1>5. /\ units \in Seq(Cells) /\ units # <<>> /\ units[1] = h /\ Len(units) = 1
      /\ Len(store[u].data) = 0
  BY <1>2, <1>4, EmptySeq DEF Cells
<1> HIDE DEF units
<1>6. /\ Holds(new)
      /\ new[u] # CoreStore!NoObject /\ Matches(u, new[u].data)
      /\ \A v \in Assets \ {u} : new[v] = store[v]
      /\ Len(new[u].data) = 1 /\ new[u].data[1] = h
  <2>1. units[1].size_current = (IF Len(units) > Len(store[u].data) THEN Len(units)
                                 ELSE Len(store[u].data)) - 1
    BY <1>4, <1>5
  <2>2. \A k \in 2 .. Len(units) : units[k] \in Values
    BY <1>5
  <2>3. units[1].size_current <= MaxSize[u]
    BY <1>4, <1>5, Sizes
  <2>4. /\ Holds(new)
        /\ new[u] # CoreStore!NoObject /\ Matches(u, new[u].data)
        /\ \A v \in Assets \ {u} : new[v] = store[v]
        /\ Overwritten(new[u].data, units, store[u].data)
    BY <1>2, <1>4, <1>5, <2>1, <2>2, <2>3, HoldsWrite
  <2> HIDE DEF new
  <2> QED
    BY <1>4, <1>5, <2>4 DEF Overwritten
<1> HIDE DEF new
<1>7. /\ torn' \subseteq Assets /\ torn \ {u} \subseteq torn'
      /\ g_sst_object' \in Buffers /\ sst_system_ready' \in BOOLEAN
  BY <1>3, Zenon DEF ObjectInv
<1>8. ReturnsContent' /\ Content(u) = NoAsset
  BY <1>2, <1>3, NothingReturned, NoAssetSeen DEF NoCall
<1>9. CASE outcome = "failed"
  <2>1. store' = store /\ u \in torn' /\ last'.name # "create"
    BY <1>3, <1>9 DEF NoCall
  <2>2. ObjectInv' /\ \A v \in Assets \ {u} : Content(v)' = Content(v)
    BY <1>1, <1>2, <1>3, <1>7, <2>1, StoreChanged
  <2>3. Content(u)' = NoAsset
    BY <1>2, <2>1, NoAssetSeen
  <2> QED
    BY <1>8, <2>2, <2>3, NoneChanged DEF Sound
<1>10. CASE outcome # "failed"
  <2>1. store' = new /\ last'.u = u
    BY <1>3, <1>10
  <2>2. new[u].data # <<>>
    BY <1>6 DEF Matches
  <2>3. ObjectInv' /\ \A v \in Assets \ {u} : Content(v)' = Content(v)
    BY <1>1, <1>2, <1>3, <1>6, <1>7, <2>1, <2>2, StoreChanged
  <2>4. Content(u)' = [attr |-> new[u].data[1].attr, data |-> Tail(new[u].data)]
    BY <1>6, <2>1, AssetSeenNext
  <2>5. new[u].data[1].attr = 0 /\ Tail(new[u].data) = <<>>
    <3> DEFINE d == new[u].data
    <3>1. d \in Seq(Cells) /\ d # <<>> /\ Len(d) = 1 /\ d[1] = h
      BY <1>6 DEF Matches
    <3> HIDE DEF d
    <3>2. Tail(d) \in Seq(Cells) /\ Len(Tail(d)) = 0
      BY <3>1, HeadTailProperties
    <3>3. Tail(d) = <<>>
      BY <3>2, EmptySeq, Zenon
    <3> QED
      BY <1>4, <3>1, <3>3 DEF d
  <2>6. AsAsked(u)
    BY <1>3, <1>10, <2>4, <2>5, Zenon DEF AsAsked
  <2> QED
    BY <1>8, <2>3, <2>4, <2>5, <2>6, AssetStep, OneChanged, Zenon DEF Sound
<1> QED
  BY <1>9, <1>10

(* A function on 1 .. n is a sequence of length n. *)
LEMMA UnitsLen ==
    ASSUME NEW S, NEW n \in Nat, NEW f \in [1 .. n -> S]
    PROVE  f \in Seq(S) /\ Len(f) = n
<1>1. f \in Seq(S)
  OBVIOUS
<1> QED
  BY <1>1, LenProperties

(* A stretch of t that starts behind o. *)
LEMMA Stretch ==
    ASSUME NEW S, NEW t \in Seq(S), NEW o \in Nat, NEW n \in Nat, o + n <= Len(t),
           NEW x \in [1 .. n -> S], \A k \in 1 .. n : x[k] = t[o + k]
    PROVE  Len(x) = n /\ x = SubSeq(t, o + 1, o + Len(x))
<1>1. x \in Seq(S) /\ Len(x) = n
  BY UnitsLen
<1> DEFINE y == SubSeq(t, o + 1, o + n)
<1>2. \A i \in o + 1 .. o + n : t[i] \in S
  BY ElementOfSeq, LenProperties
<1>3. /\ y \in Seq(S)
      /\ Len(y) = IF o + 1 <= o + n THEN o + n - (o + 1) + 1 ELSE 0
      /\ \A i \in 1 .. o + n - (o + 1) + 1 : y[i] = t[o + 1 + i - 1]
  BY <1>2, SubSeqProperties
<1> HIDE DEF y
<1>4. Len(y) = n /\ \A i \in 1 .. n : y[i] = t[o + i]
  BY <1>3
<1>5. x = y
  BY <1>1, <1>3, <1>4, SeqEqual
<1> QED
  BY <1>1, <1>5 DEF y

(* The data of an asset. *)
LEMMA DataOf ==
    ASSUME NEW u \in Assets, NEW d, Matches(u, d)
    PROVE  /\ Tail(d) \in Seq(Values) /\ Len(d) \in Nat
           /\ Len(Tail(d)) = Len(d) - 1 /\ Len(Tail(d)) = d[1].size_current
           /\ \A i \in 1 .. Len(d) - 1 : Tail(d)[i] = d[i + 1]
<1>1. /\ Tail(d) \in Seq(Cells) /\ Len(Tail(d)) = Len(d) - 1
      /\ \A i \in 1 .. Len(Tail(d)) : Tail(d)[i] = d[i + 1]
  BY HeadTailProperties DEF Matches
<1>2. Len(d) \in Nat /\ d[1].size_current = Len(d) - 1
  BY LenProperties DEF Matches
<1>3. \A i \in 1 .. Len(Tail(d)) : Tail(d)[i] \in Values
  BY <1>1, <1>2 DEF Matches
<1>4. Tail(d) \in Seq(Values)
  <2> DEFINE t == Tail(d)
             n == Len(d) - 1
  <2>1. t \in Seq(Cells) /\ Len(t) = n /\ n \in Nat /\ \A i \in 1 .. n : t[i] \in Values
    BY <1>1, <1>3, LenProperties
  <2> HIDE DEF t, n
  <2>2. t \in [1 .. n -> Cells]
    BY <2>1, LenProperties
  <2>3. t \in [1 .. n -> Values]
    BY <2>1, <2>2
  <2>4. t \in Seq(Values)
    BY <2>1, <2>3, UnitsLen
  <2> QED
    BY <2>4 DEF t
<1> QED
  BY <1>1, <1>2, <1>4

(* A call that returned units of an asset, or left them there. *)
LEMMA UnitsReturned ==
    ASSUME NEW u \in Assets, last'.u = u, last'.name \in {"read", "write"},
           last'.name = "read" => MayRead(last'.c, u),
           Content(u)' # NoAsset,
           last'.data = SubSeq(Content(u)'.data, last'.offset + 1,
                               last'.offset + Len(last'.data))
    PROVE  ReturnsContent'
<1>1. Content(last.u)' = Content(u)'
  BY AssetOfCall
<1>2. last'.name = "read" => MayRead(last.c, last.u)'
  BY DEF MayRead
<1>3. Content(last.u)' # NoAsset'
  BY <1>1 DEF NoAsset
<1> QED
  BY <1>1, <1>2, <1>3 DEF ReturnsContent

(* Reading changes the buffer only, and returns units of the asset. *)
LEMMA ReadInv ==
    ASSUME ObjectInv, NEW c \in Callers, NEW u, sst_am_read(c, u)
    PROVE  Sound
<1>1. u \in Assets /\ Idle
  BY AllowedFacts DEF sst_am_read
<1>2. PICK offset \in 0 .. LargestSize, size \in 1 .. LargestSize :
         sst_object_read(c, u, offset, size)
  BY DEF sst_am_read
<1>3. g_sst_object' \in Buffers
  BY <1>1, <1>2, ObjectRead DEF sst_object_read
<1>4. last'.name # "create"
  BY <1>2 DEF sst_object_read, Call, NoCall
<1>5. UNCHANGED <<store, creating, torn, sst_system_ready>>
  BY <1>2 DEF sst_object_read
<1>6. ObjectInv' /\ Refines /\ Changes
  BY <1>1, <1>3, <1>4, <1>5, StoreKept
<1> DEFINE h == Loaded(u).header
           x == [k \in 1 .. size |-> Loaded(u).data[offset + k]]
<1>7. CASE ~(ObjectError(u) = "SUCCESS" /\ ~(offset + size > h.size_current))
  <2>1. last' = NoCall
    BY <1>2, <1>7 DEF sst_object_read
  <2>2. ReturnsContent'
    BY <2>1, NothingReturned DEF NoCall
  <2> QED
    BY <1>6, <2>2 DEF Sound
<1>8. CASE ObjectError(u) = "SUCCESS" /\ ~(offset + size > h.size_current)
  <2> DEFINE d == store[u].data
  <2>1. last' = [name |-> "read", c |-> c, u |-> u, offset |-> offset, data |-> x]
    BY <1>2, <1>8 DEF sst_object_read, Call
  <2>2. /\ Holds(store) /\ Matches(u, d) /\ h = d[1]
        /\ \A k \in 1 .. d[1].size_current : Loaded(u).data[k] = d[k + 1]
    BY <1>1, <1>8, ObjectRead, HeaderRead, Zenon
  <2>3. Content(u).data = Tail(d) /\ Content(u) # NoAsset
    <3>1. Content(u) = [attr |-> d[1].attr, data |-> Tail(d)] /\ Content(u) # NoAsset
      BY <1>1, <2>2, AssetSeen
    <3> HIDE DEF d
    <3> QED
      BY <3>1
  <2>4. Content(u)' = Content(u)
    BY <1>5 DEF Content, NoAsset, Exists, CoreStore!Exists
  <2> HIDE DEF d
  <2>5. /\ Tail(d) \in Seq(Values) /\ Len(d) \in Nat
        /\ Len(Tail(d)) = Len(d) - 1 /\ Len(Tail(d)) = d[1].size_current
        /\ \A i \in 1 .. Len(d) - 1 : Tail(d)[i] = d[i + 1]
    BY <1>1, <2>2, DataOf
  <2>6. offset \in Nat /\ size \in Nat /\ offset + size <= Len(Tail(d))
    BY <1>2, <1>8, <2>2, <2>5, Sizes
  <2>7. \A k \in 1 .. size : x[k] = Tail(d)[offset + k]
    <3> SUFFICES ASSUME NEW k \in 1 .. size PROVE x[k] = Tail(d)[offset + k]
      BY Zenon
    <3>1. offset + k \in 1 .. d[1].size_current /\ offset + k \in 1 .. Len(d) - 1
      BY <2>5, <2>6
    <3> QED
      BY <2>2, <2>5, <3>1
  <2>8. x \in [1 .. size -> Values]
    <3>1. \A k \in 1 .. size : Tail(d)[offset + k] \in Values
      BY <2>5, <2>6, ElementOfSeq
    <3>2. x = [k \in 1 .. size |-> Tail(d)[offset + k]]
      BY <2>7, Zenon
    <3> HIDE DEF x
    <3> QED
      BY <3>1, <3>2, Zenon
  <2> HIDE DEF x
  <2>9. x = SubSeq(Tail(d), offset + 1, offset + Len(x))
    <3> DEFINE t == Tail(d)
    <3>1. /\ t \in Seq(Values) /\ offset \in Nat /\ size \in Nat
          /\ offset + size <= Len(t) /\ x \in [1 .. size -> Values]
          /\ \A k \in 1 .. size : x[k] = t[offset + k]
      BY <2>5, <2>6, <2>7, <2>8
    <3> HIDE DEF t
    <3>2. x = SubSeq(t, offset + 1, offset + Len(x))
      BY <3>1, Stretch
    <3> QED
      BY <3>2, Zenon DEF t
  <2>10. MayRead(c, u)
    BY PolicyKept DEF sst_am_read
  <2>11. ReturnsContent'
    BY <1>1, <2>1, <2>3, <2>4, <2>9, <2>10, UnitsReturned
  <2> QED
    BY <1>6, <2>11 DEF Sound
<1> QED
  BY <1>7, <1>8

(* A read that fails changes the buffer, and returns nothing. *)
LEMMA DataUnreadInv ==
    ASSUME ObjectInv, NEW c, NEW u, DataUnread(c, u)
    PROVE  Sound
<1>1. u \in Assets /\ Idle
  BY AllowedFacts DEF DataUnread
<1>2. g_sst_object' \in Buffers
  BY <1>1, HeaderRead DEF DataUnread
<1>3. last' = NoCall /\ UNCHANGED <<store, creating, torn, sst_system_ready>>
  BY DEF DataUnread
<1>4. last'.name = "none"
  BY <1>3 DEF NoCall
<1> QED
  BY <1>1, <1>2, <1>3, <1>4, NothingReturned, StoreKept DEF Sound

(* get_info and get_attributes return what the header of the asset says. *)
LEMMA GetInv ==
    ASSUME ObjectInv, NEW c \in Callers, NEW u,
           sst_am_get_info(c, u) \/ sst_am_get_attributes(c, u)
    PROVE  Sound
<1>1. PICK name \in {"get_info", "get_attributes"} : sst_object_get(name, c, u)
  BY DEF sst_am_get_info, sst_am_get_attributes
<1>2. u \in Assets /\ Idle
  BY AllowedFacts DEF sst_am_get_info, sst_am_get_attributes
<1>3. UNCHANGED <<store, creating, torn, sst_system_ready>>
  BY <1>1 DEF sst_object_get
<1>4. CASE HeaderError(u) = "SUCCESS"
  <2> DEFINE d == store[u].data
             x == IF name = "get_info" THEN <<d[1].size_max, d[1].size_current>>
                  ELSE <<d[1].attr>>
  <2>1. g_sst_object' = WithHeader(u)
    BY <1>1, <1>4 DEF sst_object_get
  <2>2. last' = [name |-> name, c |-> c, u |-> u, offset |-> 0, data |-> x]
    BY <1>1, <1>4 DEF sst_object_get, Call
  <2>3. Holds(store) /\ Matches(u, d) /\ g_sst_object' \in Buffers
    BY <1>2, <1>4, <2>1, HeaderRead
  <2>4. last'.name = name /\ last'.u = u /\ last'.c = c /\ last'.data = x
    BY <2>2
  <2>5. HasAny(last.c, last.u)'
    <3>1. HasAny(c, u)
      BY PolicyKept DEF sst_am_get_info, sst_am_get_attributes
    <3> QED
      BY <2>4, <3>1 DEF HasAny
  <2>6. ObjectInv' /\ Refines /\ Changes
    BY <1>2, <1>3, <2>3, <2>4, StoreKept
  <2>7. Content(u) = [attr |-> d[1].attr, data |-> Tail(d)] /\ Content(u) # NoAsset
    BY <1>2, <2>3, AssetSeen
  <2>8. Content(u)' = Content(u)
    BY <1>3 DEF Content, NoAsset, Exists, CoreStore!Exists
  <2> HIDE DEF d
  <2>9. Len(Tail(d)) = d[1].size_current /\ d[1].size_max = MaxSize[u]
    BY <1>2, <2>3, DataOf DEF Matches
  <2>10. Content(last.u)' = Content(u)
    BY <2>4, <2>8, AssetOfCall
  <2>11. /\ Content(last.u)' # NoAsset'
         /\ Content(last.u)'.data = Tail(d) /\ Content(last.u)'.attr = d[1].attr
    BY <2>7, <2>10 DEF NoAsset
  <2>12. CASE name = "get_info"
    <3>1. x = <<MaxSize[u], Len(Tail(d))>>
      BY <2>9, <2>12
    <3> HIDE DEF x
    <3>2. ReturnsContent'
      BY <2>4, <2>11, <2>12, <2>5, <3>1 DEF ReturnsContent
    <3> QED
      BY <2>6, <3>2 DEF Sound
  <2>13. CASE name = "get_attributes"
    <3>1. x = <<d[1].attr>>
      BY <2>13
    <3> HIDE DEF x
    <3>2. ReturnsContent'
      BY <2>4, <2>11, <2>13, <2>5, <3>1 DEF ReturnsContent
    <3> QED
      BY <2>6, <3>2 DEF Sound
  <2> QED
    BY <2>12, <2>13
<1>5. CASE HeaderError(u) # "SUCCESS"
  <2>1. g_sst_object' = g_sst_object /\ last' = NoCall
    BY <1>1, <1>5 DEF sst_object_get
  <2>2. g_sst_object' \in Buffers /\ last'.name = "none"
    BY <2>1 DEF ObjectInv, NoCall
  <2> QED
    BY <1>2, <1>3, <2>2, NothingReturned, StoreKept DEF Sound
<1> QED
  BY <1>4, <1>5

(* Changing one field of an asset. *)
LEMMA OneField ==
    ASSUME NEW a, NEW d, NEW x
    PROVE  /\ [[attr |-> a, data |-> d] EXCEPT !.attr = x] = [attr |-> x, data |-> d]
           /\ [[attr |-> a, data |-> d] EXCEPT !.data = x] = [attr |-> a, data |-> x]
  OBVIOUS

(* Objects that differ in their headers only have the same data. *)
LEMMA SameTail ==
    ASSUME NEW u, NEW d, NEW e, Matches(u, d), Matches(u, e), Len(d) = Len(e),
           \A k \in 2 .. Len(e) : d[k] = e[k]
    PROVE  Tail(d) = Tail(e)
<1>1. /\ Tail(d) \in Seq(Cells) /\ Len(Tail(d)) = Len(d) - 1
      /\ \A i \in 1 .. Len(Tail(d)) : Tail(d)[i] = d[i + 1]
  BY HeadTailProperties DEF Matches
<1>2. /\ Tail(e) \in Seq(Cells) /\ Len(Tail(e)) = Len(e) - 1
      /\ \A i \in 1 .. Len(Tail(e)) : Tail(e)[i] = e[i + 1]
  BY HeadTailProperties DEF Matches
<1>3. Len(e) \in Nat
  BY LenProperties DEF Matches
<1>4. \A i \in 1 .. Len(Tail(d)) : Tail(d)[i] = Tail(e)[i]
  BY <1>1, <1>2, <1>3
<1> QED
  BY <1>1, <1>2, <1>4, SeqEqual

(* Setting attributes rewrites the header and keeps the data. *)
LEMMA SetAttributesInv ==
    ASSUME ObjectInv, NEW c \in Callers, NEW u, NEW outcome \in Outcomes,
           sst_am_set_attributes(c, u, outcome)
    PROVE  Sound
<1>1. u \in Assets /\ Idle /\ Holds(store)
  BY AllowedFacts DEF sst_am_set_attributes
<1>2. PICK attr \in Attributes : sst_object_set_attributes(c, u, attr, outcome)
  BY DEF sst_am_set_attributes
<1>3. /\ UNCHANGED <<sst_system_ready, creating, torn>>
      /\ last'.name # "create" /\ ReturnsContent'
  <2>1. UNCHANGED <<sst_system_ready, creating, torn>>
    BY <1>2 DEF sst_object_set_attributes
  <2>2. last'.name \in {"none", "set_attributes"}
    BY <1>2 DEF sst_object_set_attributes, Change, Call, NoCall
  <2> QED
    BY <2>1, <2>2, NothingReturned
<1>4. CASE HeaderError(u) # "SUCCESS"
  <2>1. store' = store /\ g_sst_object' = g_sst_object /\ g_sst_object \in Buffers
    BY <1>2, <1>4 DEF sst_object_set_attributes, ObjectInv
  <2> QED
    BY <1>1, <1>3, <2>1, StoreKept DEF Sound
<1>5. CASE HeaderError(u) = "SUCCESS"
  <2> DEFINE d == store[u].data
             b == WithHeader(u)
             h == [d[1] EXCEPT !.attr = attr]
             units == <<h>>
             new == Written(u, units)
  <2>1. /\ b \in Buffers /\ b.header = d[1]
        /\ store[u] # CoreStore!NoObject /\ Matches(u, d)
    BY <1>1, <1>5, HeaderRead
  <2>2. /\ g_sst_object' = [b EXCEPT !.header.attr = attr]
        /\ store' = IF outcome = "failed" THEN store
                    ELSE Written(u, <<[b EXCEPT !.header.attr = attr].header>>)
    BY <1>2, <1>5 DEF sst_object_set_attributes, Change, Core
  <2> HIDE DEF b
  <2>3. g_sst_object' \in Buffers /\ [b EXCEPT !.header.attr = attr].header = h
    BY <2>1, <2>2 DEF Buffers
  <2>4. /\ h \in Headers /\ h.uuid = u /\ h.size_max = MaxSize[u]
        /\ h.size_current = Len(d) - 1 /\ h.size_current <= MaxSize[u]
    BY <2>1 DEF Matches, Headers
  <2> HIDE DEF h
  <2>5. /\ units \in Seq(Cells) /\ units # <<>> /\ units[1] = h /\ Len(units) = 1
        /\ Len(d) \in Nat /\ Len(d) >= 1
    BY <2>1, <2>4, EmptySeq, LenProperties DEF Cells, Matches
  <2> HIDE DEF units
  <2>6. /\ Holds(new)
        /\ new[u] # CoreStore!NoObject /\ Matches(u, new[u].data)
        /\ \A v \in Assets \ {u} : new[v] = store[v]
        /\ Len(new[u].data) = Len(d) /\ new[u].data[1] = h
        /\ \A k \in 2 .. Len(d) : new[u].data[k] = d[k]
    <3>1. units[1].size_current = (IF Len(units) > Len(d) THEN Len(units) ELSE Len(d)) - 1
      BY <2>4, <2>5
    <3>2. \A k \in 2 .. Len(units) : units[k] \in Values
      BY <2>5
    <3>3. /\ Holds(new)
          /\ new[u] # CoreStore!NoObject /\ Matches(u, new[u].data)
          /\ \A v \in Assets \ {u} : new[v] = store[v]
          /\ Overwritten(new[u].data, units, d)
      BY <1>1, <2>1, <2>4, <2>5, <3>1, <3>2, HoldsWrite
    <3> HIDE DEF new, d
    <3> QED
      BY <2>4, <2>5, <3>3 DEF Overwritten
  <2> HIDE DEF new
  <2>7. CASE outcome = "failed"
    BY <1>1, <1>3, <2>2, <2>3, <2>7, StoreKept DEF Sound
  <2>8. CASE outcome # "failed"
    <3>1. store' = new
      BY <2>2, <2>3, <2>8 DEF new, units
    <3>2. new[u].data # <<>>
      BY <2>6, Zenon DEF Matches
    <3>3. torn' \subseteq Assets /\ sst_system_ready' \in BOOLEAN /\ Idle'
      BY <1>1, <1>3, Zenon DEF ObjectInv, Idle
    <3>4. ObjectInv' /\ \A v \in Assets \ {u} : Content(v)' = Content(v)
      BY <1>1, <1>3, <2>3, <2>6, <3>1, <3>2, <3>3, StoreChanged
    <3>5. Content(u)' = [attr |-> attr, data |-> Tail(new[u].data)]
      BY <1>1, <2>1, <2>6, <3>1, AssetSeenNext DEF h, Matches, Headers
    <3>6. Content(u) = [attr |-> d[1].attr, data |-> Tail(d)] /\ Content(u) # NoAsset
      BY <1>1, <2>1, AssetSeen
    <3>7. Tail(new[u].data) = Tail(d)
      <4> HIDE DEF d
      <4> QED
        BY <2>1, <2>6, SameTail
    <3>8. Content(u)' = [Content(u) EXCEPT !.attr = attr]
      <4> DEFINE a == d[1].attr
                 t == Tail(d)
      <4>1. Content(u) = [attr |-> a, data |-> t] /\ Content(u)' = [attr |-> attr, data |-> t]
        BY <3>5, <3>6, <3>7, Zenon
      <4> HIDE DEF a, t
      <4> QED
        BY <4>1
    <3>9. AsAsked(u)
      <4>1. last' = [name |-> "set_attributes", c |-> c, u |-> u, offset |-> 0, data |-> <<attr>>]
        BY <1>2, <1>5, <2>8 DEF sst_object_set_attributes, Change, Call
      <4>2. HasAny(c, u)
        BY PolicyKept DEF sst_am_set_attributes
      <4>3. last'.name = "set_attributes" /\ last'.u = u /\ last'.c = c /\ last'.data[1] = attr
        BY <4>1
      <4> QED
        BY <3>8, <4>2, <4>3 DEF AsAsked
    <3> QED
      BY <1>1, <1>3, <3>4, <3>6, <3>8, <3>9, AssetStep, OneChanged DEF Sound
  <2> QED
    BY <2>7, <2>8
<1> QED
  BY <1>4, <1>5

(* Deleting an object ends its being torn. *)
LEMMA DeleteInv ==
    ASSUME ObjectInv, NEW c \in Callers, NEW u, NEW outcome \in Outcomes,
           sst_am_delete(c, u, outcome)
    PROVE  Sound
<1>1. u \in Assets /\ Idle /\ Holds(store)
  BY AllowedFacts DEF sst_am_delete
<1>2. sst_object_delete(c, u, outcome)
  BY DEF sst_am_delete
<1>3. /\ UNCHANGED <<g_sst_object, sst_system_ready, creating>>
      /\ last'.name # "create" /\ ReturnsContent'
  <2>1. UNCHANGED <<g_sst_object, sst_system_ready, creating>>
    BY <1>2 DEF sst_object_delete
  <2>2. last'.name \in {"none", "delete"}
    <3>1. \/ last' = NoCall
          \/ last' = [name |-> "delete", c |-> c, u |-> u, offset |-> 0, data |-> <<>>]
      BY <1>2, Zenon DEF sst_object_delete, Change, Call
    <3> QED
      BY ONLY <3>1 DEF NoCall
  <2> QED
    BY <2>1, <2>2, NothingReturned
<1>4. g_sst_object' \in Buffers /\ Idle' /\ sst_system_ready' \in BOOLEAN
  BY <1>1, <1>3, Zenon DEF ObjectInv, Idle
<1>5. CASE store' = store /\ torn' = torn
  BY <1>1, <1>3, <1>4, <1>5, StoreKept DEF Sound
<1>6. CASE /\ store' = CoreStore!DeleteObject(store, u) /\ torn' = torn \ {u}
           /\ last' = [name |-> "delete", c |-> c, u |-> u, offset |-> 0, data |-> <<>>]
  <2>1. torn' \subseteq Assets
    BY <1>6, Zenon DEF ObjectInv
  <2>2. /\ Holds(store') /\ store'[u] = CoreStore!NoObject
        /\ \A v \in Assets \ {u} : store'[v] = store[v]
    BY <1>1, <1>6, HoldsDelete
  <2>3. ObjectInv' /\ \A v \in Assets \ {u} : Content(v)' = Content(v)
    BY <1>1, <1>3, <1>4, <1>6, <2>1, <2>2, StoreChanged
  <2>4. Content(u)' = NoAsset
    <3>1. store'[u] = CoreStore!NoObject
      BY <2>2, Zenon
    <3>2. CoreStore!NoObject.data = <<>>
      BY DEF CoreStore!NoObject
    <3>3. store'[u].data = <<>>
      BY ONLY <3>1, <3>2
    <3> QED
      BY <1>1, <3>3, NoAssetSeen, Zenon
  <2>5. AsAsked(u)
    <3>1. MayChange(c, u)
      BY PolicyKept DEF sst_am_delete
    <3>2. last'.name = "delete" /\ last'.u = u /\ last'.c = c
      BY <1>6
    <3> QED
      BY <2>4, <3>1, <3>2 DEF AsAsked
  <2> QED
    BY <1>1, <1>3, <2>3, <2>4, <2>5, AssetStep, OneChanged DEF Sound
<1> QED
  BY <1>2, <1>5, <1>6 DEF sst_object_delete, Change, Core, Call

(* The size, the header and the data in the buffer when a write has changed *)
(* it.                                                                      *)
NewSize(u, offset, size) ==
    IF offset + size > store[u].data[1].size_current THEN offset + size
    ELSE store[u].data[1].size_current
NewHeader(u, offset, size) ==
    [store[u].data[1] EXCEPT !.size_current = NewSize(u, offset, size)]
NewData(u, offset, size, units) ==
    [k \in 1 .. LargestSize |->
        IF k \in offset + 1 .. offset + size THEN units[k - offset]
        ELSE Loaded(u).data[k]]

(* The units up to the new size are the caller's or the object's own, never *)
(* those of another asset.                                                  *)
BufferChanged(u, offset, size, units) ==
    LET sc == NewSize(u, offset, size)
        h == NewHeader(u, offset, size)
        f == NewData(u, offset, size, units)
    IN  /\ sc \in Nat /\ sc <= MaxSize[u] /\ sc >= Len(store[u].data) - 1
        /\ [header |-> h, data |-> f] \in Buffers
        /\ h \in Headers /\ h.uuid = u /\ h.size_max = MaxSize[u]
        /\ h.size_current = sc /\ h.attr = store[u].data[1].attr
        /\ \A k \in 1 .. sc :
              /\ f[k] \in Values
              /\ f[k] = IF k \in offset + 1 .. offset + size THEN units[k - offset]
                        ELSE store[u].data[k + 1]

(* So it is when a write has changed the buffer. *)
LEMMA ChangedBuffer ==
    ASSUME ObjectInv, NEW u \in Assets, ObjectError(u) = "SUCCESS",
           NEW offset \in Nat, NEW size \in Nat, offset + size <= MaxSize[u],
           NEW units \in [1 .. size -> Values],
           offset <= store[u].data[1].size_current
    PROVE  BufferChanged(u, offset, size, units)
<1> DEFINE end == offset + size
           d == store[u].data
           old == d[1].size_current
           sc == IF end > old THEN end ELSE old
           h == [d[1] EXCEPT !.size_current = sc]
           b == Loaded(u)
           f == [k \in 1 .. LargestSize |->
                   IF k \in offset + 1 .. end THEN units[k - offset] ELSE b.data[k]]
<1>1. /\ b \in Buffers /\ Matches(u, d)
      /\ \A k \in 1 .. old : b.data[k] = d[k + 1]
  BY ObjectRead, HeaderRead
<1> HIDE DEF b, d
<1>2. /\ old \in Nat /\ old <= MaxSize[u] /\ old = Len(d) - 1 /\ Len(d) \in Nat
      /\ \A k \in 1 .. old : d[k + 1] \in Values
  <2>1. /\ d[1] \in Headers /\ old <= MaxSize[u] /\ old = Len(d) - 1 /\ d \in Seq(Cells)
        /\ \A k \in 2 .. Len(d) : d[k] \in Values
    BY <1>1 DEF Matches
  <2>2. old \in Nat /\ Len(d) \in Nat
    BY <2>1, LenProperties DEF Headers
  <2> HIDE DEF old
  <2>3. \A k \in 1 .. old : d[k + 1] \in Values
    BY <2>1, <2>2
  <2> QED
    BY <2>1, <2>2, <2>3
<1>3. offset <= old
  BY DEF d
<1> HIDE DEF old
<1>4. MaxSize[u] \in Nat /\ LargestSize \in Nat /\ MaxSize[u] <= LargestSize
  BY Sizes
<1>5. sc \in Nat /\ sc <= MaxSize[u] /\ sc >= Len(d) - 1 /\ sc \in 0 .. LargestSize
  BY <1>2, <1>4
<1>6. \A k \in 1 .. LargestSize : b.data[k] \in Values \cup {Zero}
  BY <1>1 DEF Buffers
<1>7. \A k \in offset + 1 .. end : units[k - offset] \in Values
  OBVIOUS
<1>8. f \in [1 .. LargestSize -> Values \cup {Zero}]
  BY <1>6, <1>7
<1>9. \A k \in 1 .. sc :
         /\ f[k] \in Values
         /\ f[k] = IF k \in offset + 1 .. end THEN units[k - offset] ELSE d[k + 1]
  <2> SUFFICES ASSUME NEW k \in 1 .. sc
               PROVE  /\ f[k] \in Values
                      /\ f[k] = IF k \in offset + 1 .. end THEN units[k - offset]
                                ELSE d[k + 1]
    BY Zenon
  <2>1. k \in 1 .. LargestSize
    BY <1>4, <1>5
  <2>2. CASE k \in offset + 1 .. end
    BY <1>7, <2>1, <2>2
  <2>3. CASE k \notin offset + 1 .. end
    <3>1. k \in 1 .. old
      BY <1>2, <1>3, <2>3
    <3> QED
      BY <1>1, <1>2, <2>1, <2>3, <3>1
  <2> QED
    BY <2>2, <2>3
<1> HIDE DEF sc, f
<1>10. /\ h \in Headers /\ h.uuid = u /\ h.size_max = MaxSize[u]
       /\ h.size_current = sc /\ h.attr = d[1].attr
  BY <1>1, <1>5 DEF Matches, Headers
<1> HIDE DEF h
<1>11. [header |-> h, data |-> f] \in Buffers
  BY <1>5, <1>8, <1>10, Zenon DEF Buffers, Headers
<1> QED
  BY <1>5, <1>9, <1>10, <1>11
     DEF h, f, sc, old, d, b, end, NewSize, NewHeader, NewData, BufferChanged

(* n is d with units written over its data from offset on. *)
Spliced(n, d, offset, size, units) ==
    /\ Len(n) - 1 = IF offset + size > Len(d) - 1 THEN offset + size ELSE Len(d) - 1
    /\ \A k \in 1 .. Len(n) - 1 :
          n[k + 1] = IF k \in offset + 1 .. offset + size THEN units[k - offset]
                     ELSE d[k + 1]

(* That is what the owner of the asset sees. *)
LEMMA TailOverwritten ==
    ASSUME NEW u, NEW d, NEW n, Matches(u, d), Matches(u, n),
           NEW offset \in Nat, NEW size \in Nat, NEW units \in [1 .. size -> Values],
           offset <= Len(d) - 1, Spliced(n, d, offset, size, units)
    PROVE  Tail(n) = Service!Overwrite(Tail(d), offset, units)
<1>1. /\ Tail(d) \in Seq(Cells) /\ Len(Tail(d)) = Len(d) - 1
      /\ \A i \in 1 .. Len(Tail(d)) : Tail(d)[i] = d[i + 1]
  BY HeadTailProperties DEF Matches
<1>2. /\ Tail(n) \in Seq(Cells) /\ Len(Tail(n)) = Len(n) - 1
      /\ \A i \in 1 .. Len(Tail(n)) : Tail(n)[i] = n[i + 1]
  BY HeadTailProperties DEF Matches
<1>3. Len(d) \in Nat /\ Len(n) \in Nat /\ Len(units) = size
  BY LenProperties, UnitsLen DEF Matches
<1>4. Tail(n) = [k \in 1 .. Len(n) - 1 |-> Tail(n)[k]]
  BY <1>2, LenProperties, Zenon
<1>5. \A k \in 1 .. Len(n) - 1 :
         Tail(n)[k] = IF k \in offset + 1 .. offset + size THEN units[k - offset]
                      ELSE Tail(d)[k]
  <2> SUFFICES ASSUME NEW k \in 1 .. Len(n) - 1
               PROVE  Tail(n)[k] = IF k \in offset + 1 .. offset + size
                                   THEN units[k - offset] ELSE Tail(d)[k]
    BY Zenon
  <2>1. Tail(n)[k] = n[k + 1]
    BY <1>2
  <2>2. k \notin offset + 1 .. offset + size => k \in 1 .. Len(d) - 1
    BY <1>3 DEF Spliced
  <2> QED
    BY <1>1, <2>1, <2>2, Zenon DEF Spliced
<1>6. Service!Overwrite(Tail(d), offset, units) =
        [k \in 1 .. Len(n) - 1 |->
           IF k \in offset + 1 .. offset + size THEN units[k - offset] ELSE Tail(d)[k]]
  BY <1>1, <1>3 DEF Service!Overwrite, Spliced
<1>7. [k \in 1 .. Len(n) - 1 |-> Tail(n)[k]] =
        [k \in 1 .. Len(n) - 1 |->
           IF k \in offset + 1 .. offset + size THEN units[k - offset] ELSE Tail(d)[k]]
  BY ONLY <1>5
<1> QED
  BY ONLY <1>4, <1>6, <1>7

(* cells are h and the first sc units of f behind it. *)
Composed(cells, h, sc, f) ==
    /\ cells \in Seq(Cells) /\ Len(cells) = sc + 1
    /\ cells[1] = h
    /\ \A k \in 2 .. sc + 1 : cells[k] \in Values
    /\ \A k \in 1 .. sc : cells[k + 1] = f[k]

(* What a write hands to the core. *)
LEMMA HeaderAndData ==
    ASSUME NEW h \in Headers, NEW sc \in Nat, NEW f, \A k \in 1 .. sc : f[k] \in Values
    PROVE  Composed(<<h>> \o SubSeq(f, 1, sc), h, sc, f)
<1> DEFINE tail == SubSeq(f, 1, sc)
           cells == <<h>> \o tail
<1>1. /\ tail \in Seq(Values) /\ Len(tail) = IF 1 <= sc THEN sc - 1 + 1 ELSE 0
      /\ \A i \in 1 .. sc - 1 + 1 : tail[i] = f[1 + i - 1]
  BY SubSeqProperties
<1> HIDE DEF tail
<1>2. /\ tail \in Seq(Values) /\ Len(tail) = sc
      /\ \A i \in 1 .. sc : tail[i] = f[i]
  BY <1>1
<1>3. <<h>> \in Seq(Cells) /\ tail \in Seq(Cells) /\ Len(<<h>>) = 1 /\ <<h>>[1] = h
  BY <1>2 DEF Cells
<1>4. /\ cells \in Seq(Cells)
      /\ Len(cells) = 1 + sc
      /\ \A i \in 1 .. 1 + sc : cells[i] = IF i <= 1 THEN <<h>>[i] ELSE tail[i - 1]
  BY <1>2, <1>3, ConcatProperties
<1> HIDE DEF cells
<1>5. \A k \in 1 .. sc : cells[k + 1] = f[k]
  BY <1>2, <1>4
<1>6. \A k \in 2 .. sc + 1 : cells[k] \in Values
  BY <1>2, <1>4
<1>7. Composed(cells, h, sc, f)
  BY <1>3, <1>4, <1>5, <1>6 DEF Composed
<1> QED
  BY <1>7 DEF cells, tail

(* A write is an overwrite of the data, as the owner asked. *)
LEMMA WriteInv ==
    ASSUME ObjectInv, NEW c \in Callers, NEW u, NEW outcome \in Outcomes,
           sst_am_write(c, u, outcome)
    PROVE  Sound
<1>1. u \in Assets /\ Idle /\ Holds(store)
  BY AllowedFacts DEF sst_am_write
<1>2. PICK offset \in 0 .. MaxSize[u], size \in 1 .. MaxSize[u] :
         /\ offset + size <= MaxSize[u]
         /\ \E units \in [1 .. size -> Values] :
               sst_object_write(c, u, offset, units, outcome)
  BY DEF sst_am_write
<1>3. PICK units \in [1 .. size -> Values] :
         sst_object_write(c, u, offset, units, outcome)
  BY <1>2
<1>4. offset \in Nat /\ size \in Nat /\ Len(units) = size
  BY <1>1, <1>2, Sizes, UnitsLen
<1>5. UNCHANGED <<sst_system_ready, creating, torn>> /\ last'.name # "create"
  BY <1>3 DEF sst_object_write, Change, Call, NoCall
<1>6. CASE ~(ObjectError(u) = "SUCCESS" /\ offset <= Loaded(u).header.size_current)
  <2>1. g_sst_object' = Loaded(u) /\ store' = store /\ last' = NoCall
    BY <1>3, <1>6 DEF sst_object_write
  <2>2. last'.name = "none"
    BY <2>1 DEF NoCall
  <2> QED
    BY <1>1, <1>5, <2>1, <2>2, ObjectRead, NothingReturned, StoreKept DEF Sound
<1>7. CASE ObjectError(u) = "SUCCESS" /\ offset <= Loaded(u).header.size_current
  <2> DEFINE d == store[u].data
             sc == NewSize(u, offset, size)
             h == NewHeader(u, offset, size)
             f == NewData(u, offset, size, units)
             cells == <<h>> \o SubSeq(f, 1, sc)
             new == Written(u, cells)
  <2>1. /\ Loaded(u).header = d[1] /\ HeaderError(u) = "SUCCESS"
        /\ store[u] # CoreStore!NoObject /\ Matches(u, d)
    BY <1>1, <1>7, ObjectRead, HeaderRead
  <2>2. /\ g_sst_object' = [header |-> h, data |-> f]
        /\ store' = IF outcome = "failed" THEN store ELSE new
    BY <1>3, <1>4, <1>7, <2>1
       DEF sst_object_write, Change, Core, NewSize, NewHeader, NewData
  <2>3. /\ sc \in Nat /\ sc <= MaxSize[u] /\ sc >= Len(d) - 1
        /\ [header |-> h, data |-> f] \in Buffers
        /\ h \in Headers /\ h.uuid = u /\ h.size_max = MaxSize[u]
        /\ h.size_current = sc /\ h.attr = d[1].attr
        /\ \A k \in 1 .. sc :
              /\ f[k] \in Values
              /\ f[k] = IF k \in offset + 1 .. offset + size THEN units[k - offset]
                        ELSE d[k + 1]
    <3>1. offset <= store[u].data[1].size_current
      BY <1>7, <2>1
    <3>2. BufferChanged(u, offset, size, units)
      BY <1>1, <1>2, <1>3, <1>4, <1>7, <3>1, ChangedBuffer
    <3> QED
      BY <3>2 DEF BufferChanged
  <2> HIDE DEF h, f, sc
  <2>4. /\ cells \in Seq(Cells) /\ Len(cells) = sc + 1
        /\ cells[1] = h
        /\ \A k \in 2 .. sc + 1 : cells[k] \in Values
        /\ \A k \in 1 .. sc : cells[k + 1] = f[k]
    <3>1. /\ h \in Headers /\ sc \in Nat
          /\ \A k \in 1 .. sc : f[k] \in Values
      BY <2>3
    <3>2. Composed(cells, h, sc, f)
      BY <3>1, HeaderAndData
    <3> QED
      BY <3>2, Zenon DEF Composed
  <2> HIDE DEF cells
  <2>5. cells # <<>> /\ Len(d) \in Nat
    <3>1. Len(d) \in Nat
      BY <2>1, LenProperties, Zenon DEF Matches
    <3>2. cells # <<>>
      <4>1. Len(cells) = sc + 1 /\ sc \in Nat
        BY <2>3, <2>4
      <4>2. Len(cells) # 0
        BY <4>1
      <4> QED
        BY <4>2, EmptySeq
    <3> QED
      BY <3>1, <3>2
  <2>6. /\ cells[1] \in Headers /\ cells[1].uuid = u /\ cells[1].size_max = MaxSize[u]
        /\ cells[1].size_current <= MaxSize[u]
        /\ cells[1].size_current =
              (IF Len(cells) > Len(store[u].data) THEN Len(cells)
               ELSE Len(store[u].data)) - 1
        /\ \A k \in 2 .. Len(cells) : cells[k] \in Values
    <3> HIDE DEF d
    <3>1. sc = (IF Len(cells) > Len(d) THEN Len(cells) ELSE Len(d)) - 1
      <4>1. sc \in Nat /\ sc >= Len(d) - 1 /\ Len(d) \in Nat /\ Len(cells) = sc + 1
        BY <2>3, <2>4, <2>5
      <4> QED
        BY <4>1
    <3>2. \A k \in 2 .. Len(cells) : cells[k] \in Values
      BY <2>4
    <3> QED
      BY <2>3, <2>4, <3>1, <3>2, Zenon DEF d
  <2>7. /\ Holds(new)
        /\ new[u] # CoreStore!NoObject /\ Matches(u, new[u].data)
        /\ \A v \in Assets \ {u} : new[v] = store[v]
        /\ Overwritten(new[u].data, cells, d)
    BY <1>1, <2>1, <2>4, <2>5, <2>6, HoldsWrite
  <2> HIDE DEF new
  <2>8. g_sst_object' \in Buffers
    BY <2>2, <2>3
  <2>9. CASE outcome = "failed"
    <3>1. last' = NoCall
      BY <1>3, <1>7, <2>9 DEF sst_object_write, Change
    <3>2. last'.name = "none"
      BY <3>1 DEF NoCall
    <3> QED
      BY <1>1, <1>5, <2>2, <2>8, <2>9, <3>2, NothingReturned, StoreKept DEF Sound
  <2>10. CASE outcome # "failed"
    <3>1. store' = new /\ new[u].data # <<>>
      BY <2>2, <2>7, <2>10, Zenon DEF Matches
    <3>2. torn' \subseteq Assets /\ sst_system_ready' \in BOOLEAN /\ Idle'
      BY <1>1, <1>5 DEF ObjectInv, Idle
    <3>3. ObjectInv' /\ \A v \in Assets \ {u} : Content(v)' = Content(v)
      BY <1>1, <1>5, <2>7, <2>8, <3>1, <3>2, StoreChanged
    <3> DEFINE n == new[u].data
    <3>4. Content(u) = [attr |-> d[1].attr, data |-> Tail(d)] /\ Content(u) # NoAsset
      BY <1>1, <2>1, AssetSeen
    <3>5. Content(u)' = [attr |-> n[1].attr, data |-> Tail(n)]
      BY <1>1, <2>7, <3>1, AssetSeenNext
    <3>6. offset <= d[1].size_current /\ d[1].size_current = Len(d) - 1
      BY <1>7, <2>1 DEF Matches
    <3>7. sc = IF offset + size > d[1].size_current THEN offset + size
               ELSE d[1].size_current
      BY DEF sc, NewSize
    <3>8. Matches(u, n) /\ Overwritten(n, cells, d) /\ Matches(u, d)
      BY <2>1, <2>7
    <3> HIDE DEF n, d
    <3>9. Len(n) = sc + 1 /\ sc \in Nat /\ n[1] = h
      <4>1. cells[1] = h /\ Len(cells) = sc + 1 /\ sc \in Nat /\ h.size_current = sc
        BY <2>3, <2>4
      <4>2. /\ Len(n) = cells[1].size_current + 1
            /\ \A k \in 1 .. Len(n) : n[k] = IF k <= Len(cells) THEN cells[k] ELSE d[k]
        BY <3>8 DEF Overwritten
      <4>3. Len(n) = sc + 1
        BY <4>1, <4>2
      <4> QED
        BY <4>1, <4>2, <4>3
    <3>10. \A k \in 1 .. Len(n) - 1 :
             n[k + 1] = IF k \in offset + 1 .. offset + size THEN units[k - offset]
                        ELSE d[k + 1]
      <4> SUFFICES ASSUME NEW k \in 1 .. sc
                   PROVE  n[k + 1] = IF k \in offset + 1 .. offset + size
                                     THEN units[k - offset] ELSE d[k + 1]
        BY <3>9
      <4>1. k + 1 \in 1 .. Len(n) /\ k + 1 <= Len(cells)
        BY <2>4, <3>9
      <4>2. n[k + 1] = cells[k + 1]
        BY <3>8, <4>1 DEF Overwritten
      <4>3. cells[k + 1] = f[k]
        BY <2>4
      <4>4. f[k] = IF k \in offset + 1 .. offset + size THEN units[k - offset]
                   ELSE d[k + 1]
        BY <2>3
      <4> QED
        BY <4>2, <4>3, <4>4, Zenon
    <3>11. Len(n) - 1 = IF offset + size > Len(d) - 1 THEN offset + size ELSE Len(d) - 1
      <4>1. Len(n) - 1 = sc
        BY <3>9
      <4> QED
        BY <3>6, <3>7, <4>1
    <3>12. Tail(n) = Service!Overwrite(Tail(d), offset, units)
      <4>1. offset <= Len(d) - 1
        BY <3>6
      <4>2. Spliced(n, d, offset, size, units)
        BY <3>10, <3>11 DEF Spliced
      <4> QED
        BY <1>3, <1>4, <3>8, <4>1, <4>2, TailOverwritten
    <3>13. Content(u)' = [Content(u) EXCEPT !.data = Service!Overwrite(@, offset, units)]
      <4>1. Content(u)' = [attr |-> d[1].attr,
                           data |-> Service!Overwrite(Tail(d), offset, units)]
        BY <2>3, <3>5, <3>9, <3>12
      <4>2. Content(u).data = Tail(d)
        BY <3>4
      <4> QED
        BY <3>4, <4>1, <4>2, OneField
    <3>14. offset \in 0 .. Len(Content(u).data)
      <4>1. Len(Tail(d)) = Len(d) - 1 /\ Len(d) \in Nat
        BY <3>8, HeadTailProperties, LenProperties DEF Matches
      <4>2. Content(u).data = Tail(d)
        BY <3>4
      <4> QED
        BY <1>4, <2>5, <3>6, <4>1, <4>2
    <3>15. /\ last'.name = "write" /\ last'.c = c /\ last'.u = u
           /\ last'.offset = offset /\ last'.data = units
      <4>1. last' = [name |-> "write", c |-> c, u |-> u, offset |-> offset, data |-> units]
        BY <1>3, <1>7, <2>10 DEF sst_object_write, Change, Call
      <4> QED
        BY <4>1
    <3>16. AsAsked(u)
      <4>1. MayChange(c, u)
        BY PolicyKept DEF sst_am_write
      <4> QED
        BY <3>13, <3>15, <4>1 DEF AsAsked
    <3>17. ReturnsContent'
      <4>1. Content(u)'.data = Tail(n) /\ Content(u)' # NoAsset
        <5>1. Content(u)'.data = Tail(n)
          BY <3>5
        <5>2. Tail(n) # <<"absent">>
          BY <3>8, DataPresent
        <5>3. NoAsset.data = <<"absent">>
          BY DEF NoAsset
        <5> QED
          BY <5>1, <5>2, <5>3, Zenon
      <4>2. /\ Tail(n) \in Seq(Values) /\ Len(n) \in Nat /\ Len(Tail(n)) = Len(n) - 1
            /\ \A i \in 1 .. Len(n) - 1 : Tail(n)[i] = n[i + 1]
        BY <1>1, <3>8, DataOf
      <4>3. offset + size <= Len(n) - 1
        BY <1>4, <3>7, <3>9
      <4>4. \A k \in 1 .. size : units[k] = Tail(n)[offset + k]
        <5> SUFFICES ASSUME NEW k \in 1 .. size PROVE units[k] = Tail(n)[offset + k]
          OBVIOUS
        <5> DEFINE j == offset + k
        <5>1. j \in 1 .. Len(n) - 1 /\ j \in offset + 1 .. offset + size /\ j - offset = k
          BY <1>4, <4>2, <4>3
        <5> HIDE DEF j
        <5>2. Tail(n)[j] = n[j + 1]
          BY <4>2, <5>1
        <5>3. n[j + 1] = units[j - offset]
          BY <3>10, <5>1, Zenon
        <5> QED
          BY <5>1, <5>2, <5>3 DEF j
      <4>5. units = SubSeq(Tail(n), offset + 1, offset + Len(units))
        <5> DEFINE t == Tail(n)
        <5>1. /\ t \in Seq(Values) /\ offset + size <= Len(t)
              /\ \A k \in 1 .. size : units[k] = t[offset + k]
          BY <4>2, <4>3, <4>4
        <5> HIDE DEF t
        <5>2. units = SubSeq(t, offset + 1, offset + Len(units))
          BY <1>4, <5>1, Stretch
        <5> QED
          BY <5>2, Zenon DEF t
      <4> QED
        BY <1>1, <3>15, <4>1, <4>5, UnitsReturned, Zenon
    <3> QED
      BY <1>1, <1>2, <3>3, <3>4, <3>13, <3>14, <3>16, <3>17, AssetStep, OneChanged
         DEF Sound
  <2> QED
    BY <2>9, <2>10
<1> QED
  BY <1>6, <1>7
------------------------------------------------------------------------------
(* A step that is neither a creation's first half nor a power cut leaves no *)
(* creation under way, and the service ready.                               *)
LEMMA CallInvStep ==
    ASSUME ObjectInv, CallInv, Next
    PROVE  CallInv'
<1>1. CASE sst_am_prepare
  BY <1>1 DEF sst_am_prepare, CallInv, Idle
<1>2. CASE PowerFail
  BY <1>2 DEF PowerFail, CallInv, Idle
<1>3. ASSUME sst_system_ready', Idle'
      PROVE  CallInv'
  BY <1>3 DEF CallInv
<1>4. ASSUME NEW outcome \in Outcomes, CreateHeader(outcome)
      PROVE  CallInv'
  <2>1. sst_system_ready' = sst_system_ready /\ Idle' /\ ~Idle
    BY <1>4 DEF CreateHeader, Idle
  <2>2. sst_system_ready
    BY <2>1 DEF CallInv
  <2> QED
    BY <1>3, <2>1, <2>2
<1>5. ASSUME NEW c \in Callers, NEW u, NEW outcome \in CreateOutcomes,
             sst_am_create(c, u, outcome)
      PROVE  CallInv'
  <2>1. u \in Assets /\ Idle /\ sst_system_ready
    BY <1>5, AllowedFacts DEF sst_am_create
  <2>2. sst_system_ready' = sst_system_ready
    BY <1>5 DEF sst_am_create, sst_object_create
  <2>3. CASE Idle'
    BY <1>3, <2>1, <2>2, <2>3
  <2>4. CASE ~Idle'
    <3>1. creating' = [c |-> c, u |-> u]
      BY <1>5, <2>1, <2>4, Zenon DEF sst_am_create, sst_object_create, Idle
    <3>2. MayChange(c, u)
      BY <1>5, PolicyKept, Zenon DEF sst_am_create
    <3>3. MayChange(creating'.c, creating'.u)
      BY <3>1, <3>2
    <3> QED
      BY <2>1, <2>2, <3>3 DEF CallInv, MayChange
  <2> QED
    BY <2>3, <2>4
<1>6. ASSUME Idle, sst_system_ready, UNCHANGED <<sst_system_ready, creating>>
      PROVE  CallInv'
  BY <1>3, <1>6 DEF Idle
<1>7. ASSUME NEW c \in Callers, NEW u, NEW outcome \in Outcomes,
             \/ sst_am_write(c, u, outcome)
             \/ sst_am_set_attributes(c, u, outcome)
             \/ sst_am_delete(c, u, outcome)
      PROVE  CallInv'
  <2>1. Idle /\ sst_system_ready
    BY <1>7, AllowedFacts DEF sst_am_write, sst_am_set_attributes, sst_am_delete
  <2>2. CASE sst_am_write(c, u, outcome)
    <3>1. UNCHANGED <<sst_system_ready, creating>>
      BY <2>2 DEF sst_am_write, sst_object_write
    <3> QED
      BY <1>6, <2>1, <3>1
  <2>3. CASE sst_am_set_attributes(c, u, outcome)
    <3>1. UNCHANGED <<sst_system_ready, creating>>
      BY <2>3 DEF sst_am_set_attributes, sst_object_set_attributes
    <3> QED
      BY <1>6, <2>1, <3>1
  <2>4. CASE sst_am_delete(c, u, outcome)
    <3>1. UNCHANGED <<sst_system_ready, creating>>
      BY <2>4 DEF sst_am_delete, sst_object_delete
    <3> QED
      BY <1>6, <2>1, <3>1
  <2> QED
    BY <1>7, <2>2, <2>3, <2>4
<1>8. ASSUME NEW c \in Callers, NEW u,
             \/ sst_am_read(c, u) \/ sst_am_get_info(c, u)
             \/ sst_am_get_attributes(c, u) \/ DataUnread(c, u)
      PROVE  CallInv'
  <2>1. Idle /\ sst_system_ready
    BY <1>8, AllowedFacts
       DEF sst_am_read, sst_am_get_info, sst_am_get_attributes, DataUnread
  <2>2. UNCHANGED <<sst_system_ready, creating>>
    BY <1>8, Zenon DEF sst_am_read, sst_object_read, sst_am_get_info, sst_am_get_attributes,
                sst_object_get, DataUnread
  <2> QED
    BY <1>6, <2>1, <2>2
<1> QED
  BY <1>1, <1>2, <1>4, <1>5, <1>7, <1>8 DEF Next

(* The inductive invariant of the service. *)
ServiceInv == ObjectInv /\ CallInv /\ ReturnsContent

(* Every step keeps the invariant, is a step of AssetStore or none, and     *)
(* changes what was asked for.                                              *)
LEMMA ObjectStep == ServiceInv /\ [Next]_vars => ServiceInv' /\ Refines /\ Changes
<1> SUFFICES ASSUME ServiceInv, [Next]_vars PROVE ServiceInv' /\ Refines /\ Changes
  OBVIOUS
<1>1. ObjectInv /\ CallInv /\ ReturnsContent
  BY DEF ServiceInv
<1>2. CASE UNCHANGED vars
  <2>1. ObjectInv'
    BY <1>1, <1>2 DEF vars, ObjectInv, Exists, CoreStore!Exists, Idle, Holds, Buffers
  <2>2. \A u \in Assets : Content(u)' = Content(u)
    BY <1>2, Zenon DEF vars, Content, NoAsset, Exists, CoreStore!Exists
  <2>3. CallInv'
    BY <1>1, <1>2 DEF vars, CallInv, Idle
  <2>4. ReturnsContent'
    <3>1. last' = last /\ Content(last.u)' = Content(last.u) /\ NoAsset' = NoAsset
      BY <1>2, Zenon DEF vars, Content, NoAsset, Exists, CoreStore!Exists
    <3> QED
      BY <1>1, <3>1 DEF ReturnsContent, MayRead, HasAny
  <2> QED
    BY <2>1, <2>2, <2>3, <2>4, NoneChanged DEF ServiceInv
<1>3. CASE Next
  <2>1. Sound
    BY <1>1, <1>3, PrepareInv, PowerFailInv, CreateInv, CreateHeaderInv, ReadInv,
       DataUnreadInv, GetInv, SetAttributesInv, DeleteInv, WriteInv DEF Next
  <2>2. CallInv'
    BY <1>1, <1>3, CallInvStep
  <2> QED
    BY <2>1, <2>2 DEF Sound, ServiceInv
<1> QED
  BY <1>2, <1>3

(* The invariant holds in every reachable state. *)
THEOREM ObjectSafety == Spec => []ServiceInv
<1>1. Init => ServiceInv
  BY ObjectInit DEF Init, ServiceInv, CallInv, Idle, ReturnsContent, NoCall
<1>2. ServiceInv /\ [Next]_vars => ServiceInv'
  BY ObjectStep
<1> QED
  BY <1>1, <1>2, PTL DEF Spec

(* A call that returns SUCCESS with data returns what the asset holds, to a *)
(* caller the policy lets read it, or for its sizes and attributes to one   *)
(* with any permission on it, and what a write left is there to be read     *)
(* (sst_am_read, sst_am_write, sst_am_get_info, sst_am_get_attributes): the *)
(* shared buffer g_sst_object never lets units of another asset through,    *)
(* for every policy and size of an asset.                                   *)
THEOREM ContentReturned == Spec => []ReturnsContent
<1>1. ServiceInv => ReturnsContent
  BY DEF ServiceInv
<1> QED
  BY <1>1, ObjectSafety, PTL

(* An asset changes only in a call for it and as that call asked; it is     *)
(* created, written and deleted only by a caller who may change it, and its *)
(* attributes are set only by one with any permission on it; a call that    *)
(* failed or was cut by the power has no part of its effect (sst_am_create, *)
(* sst_am_write, sst_am_set_attributes, sst_am_delete).                     *)
THEOREM ChangedAsAsked == Spec => ChangesAsAsked
<1>1. ServiceInv /\ [Next]_vars =>
         [\A u \in Assets : Content(u)' # Content(u) => AsAsked(u)]_vars
  BY ObjectStep DEF Changes
<1> QED
  BY <1>1, ObjectSafety, PTL DEF Spec, ChangesAsAsked

(* The service implements AssetStore, for every policy: each asset is       *)
(* created empty, changed and deleted in single steps, whatever core calls  *)
(* fail and wherever the power is cut (sst_object_create, sst_object_write, *)
(* sst_object_set_attributes, sst_object_delete).                           *)
THEOREM AssetsImplemented == Spec => ImplementsAssets
<1>1. Init => Service!Init
  <2> SUFFICES ASSUME Init PROVE Service!Init
    OBVIOUS
  <2>1. \A u \in Assets : Content(u) = NoAsset
    BY NoAssetSeen DEF Init
  <2> QED
    BY <2>1 DEF Service!Init, Service!NoAssets, Service!NoAsset, NoAsset
<1>2. ServiceInv /\ [Next]_vars => [Service!Next]_Abs
  BY ObjectStep DEF Refines
<1> QED
  BY <1>1, <1>2, ObjectSafety, PTL DEF Spec, ImplementsAssets, Service!Spec, Abs

(* The header stored in an object belongs to it and gives the length of its *)
(* data (sst_object_create, sst_object_write, sst_object_set_attributes),   *)
(* for every policy, size of an asset and number of power cuts.             *)
THEOREM HeaderMatchesHolds == Spec => []HeaderMatches
<1>1. ServiceInv => HeaderMatches
  <2> SUFFICES ASSUME ObjectInv PROVE HeaderMatches
    BY DEF ServiceInv
  <2>1. store # Unformatted => Holds(store)
    BY DEF ObjectInv
  <2>2. \A u \in Assets : store # Unformatted => Len(store[u].data) <= store[u].size_max
    <3> SUFFICES ASSUME NEW u \in Assets, Holds(store)
                 PROVE  Len(store[u].data) <= store[u].size_max
      BY <2>1
    <3>1. CASE store[u] = CoreStore!NoObject
      BY <3>1, EmptySeq DEF CoreStore!NoObject
    <3>2. CASE store[u] # CoreStore!NoObject
      <4>1. store[u].size_max = 1 + MaxSize[u] /\ MaxSize[u] \in Nat
        BY <3>2, Sizes DEF Holds, SST_OBJECT_SIZE, SST_OBJECT_HEADER_SIZE
      <4>2. CASE store[u].data = <<>>
        BY <4>1, <4>2, EmptySeq
      <4>3. CASE Matches(u, store[u].data)
        BY <4>1, <4>3, LenProperties DEF Matches
      <4> QED
        BY <3>2, <4>2, <4>3 DEF Holds
    <3> QED
      BY <3>1, <3>2
  <2>3. TypeOK
    BY <2>2 DEF TypeOK, ObjectInv, Buffers, Idle
  <2>4. \A u \in Assets : Exists(u) =>
          /\ store[u].size_max = SST_OBJECT_SIZE(MaxSize[u])
          /\ store[u].data = <<>> \/ Matches(u, store[u].data)
    BY <2>1 DEF Exists, CoreStore!Exists, Unformatted, Holds
  <2> QED
    BY <2>3, <2>4, Zenon DEF HeaderMatches, Matches
<1> QED
  BY <1>1, ObjectSafety, PTL

(* A create that returned SUCCESS left an object, and one without a header  *)
(* only where a creation was cut or failed between its two core calls       *)
(* (sst_object_create).                                                     *)
THEOREM UsableUnlessTornHolds == Spec => []UsableUnlessTorn
<1>1. ServiceInv => UsableUnlessTorn
  <2> SUFFICES ASSUME ObjectInv PROVE UsableUnlessTorn
    BY DEF ServiceInv
  <2>1. ASSUME NEW u \in Assets, Exists(u), Content(u) = NoAsset
        PROVE  store[u].data = <<>>
    <3>1. Holds(store) /\ (store[u].data = <<>> \/ Matches(u, store[u].data))
      BY <2>1 DEF ObjectInv, Exists, CoreStore!Exists, Unformatted, Holds
    <3> QED
      BY <2>1, <3>1, AssetSeen
  <2> QED
    BY <2>1 DEF UsableUnlessTorn, ObjectInv
<1> QED
  BY <1>1, ObjectSafety, PTL
==============================================================================
