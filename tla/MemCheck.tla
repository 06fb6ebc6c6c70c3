------------------------------ MODULE MemCheck -------------------------------
(***************************************************************************)
(* The questions a running partition puts to the core                      *)
(* (secure_fw/core/tfm_secure_api.c): whether its caller is secure, and    *)
(* whether it may use a buffer its caller has named.  Addresses and sizes  *)
(* are unsigned words modulo AddressCount, as in the code modulo 2^32.     *)
(***************************************************************************)
EXTENDS SecureCall, FiniteSetsExt

CONSTANTS
    AddressCount,             \* 2^w for words of w bits
    NsCode, NsData,           \* non-secure memory in SAU regions of its own
    NsOther,                  \* a third SAU region, of peripherals
    NsUnmapped,               \* non-secure, but in no SAU region
    SData, Scratch            \* secure data, and the scratch area in it

Addresses == 0 .. (AddressCount - 1)
Interval(S) == \E lo, hi \in Addresses : lo <= hi /\ S = lo .. hi

(* All else is secure code and peripherals.  What comes behind the scratch  *)
(* area is secure.                                                          *)
ASSUME MemoryAssumption ==
    /\ AddressCount \in Nat
    /\ \A S \in {NsCode, NsData, NsOther, NsUnmapped, SData, Scratch} : Interval(S)
    /\ Scratch \subseteq SData
    /\ Max(Scratch) + 1 \notin NsCode \cup NsData
    /\ NsData \cap NsCode = {}
    /\ NsOther \cap (NsCode \cup NsData) = {}
    /\ NsUnmapped \cap (NsCode \cup NsData \cup NsOther) = {}
    /\ SData \cap (NsCode \cup NsData \cup NsOther \cup NsUnmapped) = {}

Accesses == {"RO", "RW"}
SecureAddress(a) == a \notin NsCode \cup NsData \cup NsOther \cup NsUnmapped

sau_region(a) ==
    CASE a \in NsCode  -> "TFM_NS_REGION_CODE"
      [] a \in NsData  -> "TFM_NS_REGION_DATA"
      [] a \in NsOther -> "TFM_NS_REGION_PERIPH"
      [] OTHER         -> "none"

(* The MPU region that a is in, in level 3; the partition's own data is     *)
(* below the scratch area.  The limit of the scratch region is the first    *)
(* address behind it, and the MPU takes limits to be inclusive.             *)
mpu_region(a) ==
    CASE a \in NsData -> "ns_data"
      [] a \in NsCode /\ mpu.share = "ns_code" -> "ns_code"
      [] a \in Scratch \cup {Max(Scratch) + 1} /\ mpu.share = "scratch" -> "scratch"
      [] a \in SData /\ a < Min(Scratch) -> "own"
      [] OTHER -> "none"

MayAccess(a, access) ==
    level # 1 => CASE mpu_region(a) = "none" -> FALSE
                   [] mpu_region(a) = "ns_code" -> access = "RO"
                   [] OTHER -> TRUE

(* The compiler's intrinsic: the range does not wrap, lies in one region of *)
(* each kind, and may be accessed without privilege.                        *)
cmse_check_address_range(ptr, size, access) ==
    LET last == ptr + size - 1
    IN  /\ last < AddressCount
        /\ SecureAddress(ptr) = SecureAddress(last)
        /\ sau_region(ptr) = sau_region(last)
        /\ level # 1 => mpu_region(ptr) = mpu_region(last)
        /\ MayAccess(ptr, access)

(* Slip: the size of the buffer is not taken off the limit. *)
LimitIgnoresSize(ptr, size, region) ==
    /\ size <= Cardinality(region)
    /\ ptr >= Min(region)
    /\ ptr <= Max(region)

InRange(ptr, size, region) ==
    /\ size <= Cardinality(region)
    /\ ptr >= Min(region)
    /\ ptr <= (Max(region) + 1 - size) % AddressCount

tfm_core_memory_permission_check(ptr, size, access) ==
    /\ Secure(running_partition_idx)
    /\ size # 0
    /\ cmse_check_address_range(ptr, size, access)
    /\ IF SecureAddress(ptr)
       THEN InRange(ptr, size, IF level = 1 THEN SData ELSE Scratch)
       ELSE \/ sau_region(ptr) = "TFM_NS_REGION_CODE" /\ access = "RO"
            \/ sau_region(ptr) = "TFM_NS_REGION_DATA"

(* Slip: the running partition is asked about itself. *)
ValidateItself == Secure(running_partition_idx)

tfm_core_validate_secure_caller ==
    /\ Secure(running_partition_idx)
    /\ Secure(caller_partition_idx[running_partition_idx])
------------------------------------------------------------------------------
(* A partition is told that its caller is secure exactly when the function  *)
(* below it on the stacks is (tfm_core_validate_secure_caller_handler, on   *)
(* which the audit log relies).                                             *)
CallerKnown ==
    Executing \in User =>
        (tfm_core_validate_secure_caller <=> Secure(frames[Len(frames) - 1]))

(* A buffer is granted exactly when all of it lies in memory the caller may *)
(* hand over: secure data in level 1, scratch in level 3 while it is the    *)
(* shared region, non-secure data, or, to be read, non-secure code; no      *)
(* buffer that wraps or runs over an end is granted, and none that fits is  *)
(* refused (tfm_core_memory_permission_check_handler).                      *)
PermissionExact ==
    Executing \in User =>
        \A ptr \in Addresses, size \in Addresses, access \in Accesses :
            tfm_core_memory_permission_check(ptr, size, access) <=>
                LET buffer == ptr .. (ptr + size - 1)
                IN  /\ size # 0
                    /\ \/ buffer \subseteq NsData
                       \/ buffer \subseteq NsCode /\ access = "RO"
                          /\ (level # 1 => share[Executing] = "ns_code")
                       \/ buffer \subseteq SData /\ level = 1
                       \/ buffer \subseteq Scratch /\ share[Executing] = "scratch"
==============================================================================
