--------------------------- MODULE MemCheckProofs ----------------------------
(***************************************************************************)
(* Proofs about MemCheck: what a partition is told of its caller and of a  *)
(* buffer is right in every reachable state, for every memory map and any  *)
(* width of an address.                                                    *)
(***************************************************************************)
EXTENDS MemCheck, SecureCallProofs, FiniteSetTheorems

(* A partition that runs has a caller, and the database names it. *)
LEMMA CallerFacts ==
    ASSUME CallInv, Executing \in User
    PROVE  /\ running_partition_idx = Executing
           /\ Secure(running_partition_idx)
           /\ caller_partition_idx[Executing] = frames[Len(frames) - 1]
<1>1. /\ frames \in Seq(Partitions) /\ Len(frames) \in Nat /\ Len(frames) >= 1
      /\ running_partition_idx = Executing
  BY DEF CallInv, TypeOK, ChainMatches, Executing
<1>2. Executing # 0 /\ Executing # 1
  BY DEF User
<1>3. frames[1] \in {0, 1}
  BY DEF CallInv, ChainMatches, TFM_SP_CORE_ID, TFM_SP_NON_SECURE_ID
<1>4. Len(frames) \in 2 .. Len(frames)
  BY <1>1, <1>2, <1>3 DEF Executing
<1>5. caller_partition_idx[frames[Len(frames)]] = frames[Len(frames) - 1]
  BY <1>4 DEF CallInv, ChainMatches
<1> QED
  BY <1>1, <1>2, <1>5 DEF Secure, TFM_SP_NON_SECURE_ID, Executing

(* A partition is told that its caller is secure exactly when it is         *)
(* (tfm_core_validate_secure_caller_handler).                               *)
THEOREM CallerKnownHolds == Spec => []CallerKnown
<1>1. CallInv => CallerKnown
  BY CallerFacts DEF CallerKnown, tfm_core_validate_secure_caller
<1> QED
  BY <1>1, CallSafety, PTL
------------------------------------------------------------------------------
(* The ends and the size of an interval. *)
LEMMA IntervalEnds ==
    ASSUME NEW lo \in Int, NEW hi \in Int, lo <= hi
    PROVE  /\ Min(lo .. hi) = lo /\ Max(lo .. hi) = hi
           /\ Cardinality(lo .. hi) = hi - lo + 1
<1>1. lo \in lo .. hi /\ \A y \in lo .. hi : lo =< y
  OBVIOUS
<1>2. hi \in lo .. hi /\ \A y \in lo .. hi : hi >= y
  OBVIOUS
<1>3. Min(lo .. hi) = lo
  <2>1. /\ Min(lo .. hi) \in lo .. hi
        /\ \A y \in lo .. hi : Min(lo .. hi) =< y
    BY <1>1 DEF Min
  <2> QED
    BY <1>1, <2>1
<1>4. Max(lo .. hi) = hi
  <2>1. /\ Max(lo .. hi) \in lo .. hi
        /\ \A y \in lo .. hi : Max(lo .. hi) >= y
    BY <1>2 DEF Max
  <2> QED
    BY <1>2, <2>1
<1>5. Cardinality(lo .. hi) = hi - lo + 1
  BY FS_Interval
<1> QED
  BY <1>3, <1>4, <1>5

(* A buffer that is not empty lies in an interval when its ends do. *)
Ends(ptr, size, S) == ptr \in S /\ ptr + size - 1 \in S
LEMMA BufferIn ==
    ASSUME NEW S, Interval(S), AddressCount \in Nat,
           NEW ptr \in Nat, NEW size \in Nat, size # 0
    PROVE  ptr .. (ptr + size - 1) \subseteq S <=> Ends(ptr, size, S)
<1>1. PICK lo \in Addresses, hi \in Addresses : lo <= hi /\ S = lo .. hi
  BY DEF Interval
<1> QED
  BY <1>1 DEF Addresses, Ends

(* The comparison in unsigned words is exact for a buffer that does not     *)
(* wrap.                                                                    *)
LEMMA RangeExact ==
    ASSUME NEW S, Interval(S), AddressCount \in Nat,
           NEW ptr \in Nat, NEW size \in Nat, size # 0
    PROVE  InRange(ptr, size, S) <=> Ends(ptr, size, S)
<1>1. PICK lo \in Addresses, hi \in Addresses : lo <= hi /\ S = lo .. hi
  BY DEF Interval
<1>2. Min(S) = lo /\ Max(S) = hi /\ Cardinality(S) = hi - lo + 1
  BY <1>1, IntervalEnds DEF Addresses
<1>3. CASE size > hi - lo + 1
  BY <1>1, <1>2, <1>3 DEF Addresses, InRange, Ends
<1>4. CASE size <= hi - lo + 1
  <2>1. hi + 1 - size \in 0 .. (AddressCount - 1)
    BY <1>1, <1>4 DEF Addresses
  <2>2. (hi + 1 - size) % AddressCount = hi + 1 - size
    BY <2>1
  <2> QED
    BY <1>1, <1>2, <1>4, <2>2 DEF Addresses, InRange, Ends
<1> QED
  BY <1>1, <1>3, <1>4 DEF Addresses

(* The memory map, and the regions an address is in. *)
LEMMA MapFacts ==
    /\ AddressCount \in Nat
    /\ Interval(NsCode) /\ Interval(NsData) /\ Interval(SData) /\ Interval(Scratch)
    /\ \A a : a \in NsCode \/ a \in NsData \/ a \in SData => a \in Addresses
    /\ \A a : a \in Scratch => a \in SData
    /\ \A a : /\ a \in NsData => a \notin NsCode
              /\ a \in NsOther => a \notin NsCode /\ a \notin NsData
              /\ a \in SData => SecureAddress(a)
              /\ a \in NsCode \/ a \in NsData => ~SecureAddress(a)
<1>1. /\ AddressCount \in Nat
      /\ Interval(NsCode) /\ Interval(NsData) /\ Interval(SData) /\ Interval(Scratch)
  BY MemoryAssumption
<1>2. \A a : a \in NsCode \/ a \in NsData \/ a \in SData => a \in Addresses
  BY <1>1 DEF Interval, Addresses
<1>3. \A a : /\ a \in NsData => a \notin NsCode
             /\ a \in NsOther => a \notin NsCode /\ a \notin NsData
             /\ a \in SData => SecureAddress(a)
             /\ a \in NsCode \/ a \in NsData => ~SecureAddress(a)
             /\ a \in Scratch => a \in SData
  BY MemoryAssumption DEF SecureAddress
<1> QED
  BY <1>1, <1>2, <1>3

(* What the intrinsic asks of the two ends of a buffer. *)
LEMMA RangeFacts ==
    ASSUME NEW ptr, NEW size, NEW access
    PROVE  cmse_check_address_range(ptr, size, access) <=>
               /\ ptr + size - 1 < AddressCount
               /\ SecureAddress(ptr) <=> SecureAddress(ptr + size - 1)
               /\ sau_region(ptr) = sau_region(ptr + size - 1)
               /\ level # 1 =>
                     /\ mpu_region(ptr) = mpu_region(ptr + size - 1)
                     /\ mpu_region(ptr) # "none"
                     /\ mpu_region(ptr) = "ns_code" => access = "RO"
<1>1. \A a : SecureAddress(a) \in BOOLEAN
  BY DEF SecureAddress
<1>2. MayAccess(ptr, access) <=>
        (level # 1 => /\ mpu_region(ptr) # "none"
                      /\ mpu_region(ptr) = "ns_code" => access = "RO")
  BY DEF MayAccess
<1>3. (SecureAddress(ptr) = SecureAddress(ptr + size - 1)) <=>
        (SecureAddress(ptr) <=> SecureAddress(ptr + size - 1))
  BY <1>1
<1> QED
  BY <1>2, <1>3 DEF cmse_check_address_range

(* The SAU regions of the non-secure memories are apart. *)
LEMMA SauFacts ==
    ASSUME NEW a
    PROVE  /\ sau_region(a) = "TFM_NS_REGION_CODE" <=> a \in NsCode
           /\ sau_region(a) = "TFM_NS_REGION_DATA" <=> a \in NsData
           /\ SecureAddress(a) => sau_region(a) = "none"
<1>1. SecureAddress(a) => a \notin NsOther /\ a \notin NsCode /\ a \notin NsData
  BY DEF SecureAddress
<1> QED
  BY <1>1, MapFacts DEF sau_region

(* So are the MPU regions, and the scratch area and the non-secure code are *)
(* open only while they are the shared region.                              *)
LEMMA MpuFacts ==
    ASSUME NEW a
    PROVE  /\ mpu_region(a) = "ns_data" <=> a \in NsData
           /\ mpu_region(a) = "ns_code" <=> a \in NsCode /\ mpu.share = "ns_code"
           /\ a \in NsCode /\ mpu.share # "ns_code" => mpu_region(a) = "none"
           /\ a \in Scratch =>
                 mpu_region(a) = IF mpu.share = "scratch" THEN "scratch" ELSE "none"
<1>1. PICK lo \in Addresses, hi \in Addresses : lo <= hi /\ Scratch = lo .. hi
  BY MapFacts DEF Interval
<1>2. Min(Scratch) = lo /\ Max(Scratch) = hi /\ lo \in Nat /\ hi \in Nat
  BY <1>1, IntervalEnds, MapFacts DEF Addresses
<1>3. hi + 1 \notin NsCode /\ hi + 1 \notin NsData
  BY <1>2, MemoryAssumption
<1>4. \A b : b \in NsCode \/ b \in NsData => b \notin SData /\ b \notin Scratch
  BY MapFacts
<1>5. a \in Scratch => a \in Nat /\ ~(a < lo)
  BY <1>1, <1>2
<1> QED
  BY <1>1, <1>2, <1>3, <1>4, <1>5, MapFacts DEF mpu_region
------------------------------------------------------------------------------
(* A buffer is granted exactly when all of it lies in memory the caller may *)
(* hand over (tfm_core_memory_permission_check_handler).                    *)
THEOREM PermissionExactHolds == Spec => []PermissionExact
<1>1. ASSUME CallInv, Executing \in User,
             NEW ptr \in Addresses, NEW size \in Addresses, NEW access \in Accesses
      PROVE  tfm_core_memory_permission_check(ptr, size, access) <=>
                LET buffer == ptr .. (ptr + size - 1)
                IN  /\ size # 0
                    /\ \/ buffer \subseteq NsData
                       \/ buffer \subseteq NsCode /\ access = "RO"
                          /\ (level # 1 => share[Executing] = "ns_code")
                       \/ buffer \subseteq SData /\ level = 1
                       \/ buffer \subseteq Scratch /\ share[Executing] = "scratch"
  <2> DEFINE end == ptr + size - 1
  <2>1. Secure(running_partition_idx)
    BY <1>1, CallerFacts
  <2>2. ptr \in Nat /\ size \in Nat /\ AddressCount \in Nat
    BY MapFacts DEF Addresses
  <2>3. level # 1 => mpu.share = share[Executing]
    BY <1>1 DEF CallInv, Isolated
  <2>4. CASE size = 0
    BY <2>4 DEF tfm_core_memory_permission_check
  <2>5. CASE size # 0
    <3>1. /\ ptr .. end \subseteq NsData <=> Ends(ptr, size, NsData)
          /\ ptr .. end \subseteq NsCode <=> Ends(ptr, size, NsCode)
          /\ ptr .. end \subseteq SData <=> Ends(ptr, size, SData)
          /\ ptr .. end \subseteq Scratch <=> Ends(ptr, size, Scratch)
      BY <2>2, <2>5, MapFacts, BufferIn
    <3>2. /\ InRange(ptr, size, SData) <=> Ends(ptr, size, SData)
          /\ InRange(ptr, size, Scratch) <=> Ends(ptr, size, Scratch)
      BY <2>2, <2>5, MapFacts, RangeExact
    <3>3. end \in NsCode \/ end \in NsData \/ end \in SData => end < AddressCount
      BY <2>2, MapFacts DEF Addresses
    <3> HIDE DEF end
    <3>4. CASE ptr \in NsData
      <4>1. cmse_check_address_range(ptr, size, access) <=> end \in NsData
        BY <3>3, <3>4, SauFacts, MpuFacts, MapFacts, RangeFacts DEF end
      <4> QED
        BY <2>1, <2>5, <3>1, <3>4, <4>1, SauFacts, MapFacts
           DEF tfm_core_memory_permission_check, Ends, end
    <3>5. CASE ptr \in NsCode
      <4>1. cmse_check_address_range(ptr, size, access) <=>
               /\ end \in NsCode
               /\ level # 1 => share[Executing] = "ns_code" /\ access = "RO"
        BY <2>3, <3>3, <3>5, SauFacts, MpuFacts, MapFacts, RangeFacts DEF end
      <4> QED
        BY <2>1, <2>5, <3>1, <3>5, <4>1, SauFacts, MapFacts
           DEF tfm_core_memory_permission_check, Ends, end
    <3>6. CASE ptr \notin NsData /\ ptr \notin NsCode /\ ~SecureAddress(ptr)
      BY <3>1, <3>6, SauFacts, MapFacts DEF tfm_core_memory_permission_check, Ends, end
    <3>7. CASE SecureAddress(ptr) /\ level = 1
      <4>1. Ends(ptr, size, SData) => cmse_check_address_range(ptr, size, access)
        BY <3>3, <3>7, SauFacts, MapFacts, RangeFacts DEF Ends, end
      <4>2. tfm_core_memory_permission_check(ptr, size, access) <=> Ends(ptr, size, SData)
        BY <2>1, <2>5, <3>2, <3>7, <4>1 DEF tfm_core_memory_permission_check
      <4> QED
        BY <2>5, <3>1, <3>7, <4>2, MapFacts DEF Ends, end
    <3>8. CASE SecureAddress(ptr) /\ level # 1
      <4>1. Ends(ptr, size, Scratch) =>
              (cmse_check_address_range(ptr, size, access) <=> share[Executing] = "scratch")
        BY <2>3, <3>3, <3>8, SauFacts, MpuFacts, MapFacts, RangeFacts
           DEF Ends, end
      <4>2. tfm_core_memory_permission_check(ptr, size, access) <=>
               Ends(ptr, size, Scratch) /\ share[Executing] = "scratch"
        BY <2>1, <2>5, <3>2, <3>8, <4>1 DEF tfm_core_memory_permission_check
      <4> QED
        BY <2>5, <3>1, <3>8, <4>2, MapFacts DEF Ends, end
    <3> QED
      BY <3>4, <3>5, <3>6, <3>7, <3>8
  <2> QED
    BY <2>4, <2>5
<1>2. CallInv => PermissionExact
  BY <1>1 DEF PermissionExact
<1> QED
  BY <1>2, CallSafety, PTL
==============================================================================
