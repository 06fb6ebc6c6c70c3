---------------------------- MODULE NSLockProofs -----------------------------
(***************************************************************************)
(* Proofs about NSLock, for every number of threads and of partitions:     *)
(* with its threads the system still behaves as SecureCall says, and the   *)
(* thread that has the lock is the one the secure side works for.          *)
(***************************************************************************)
EXTENDS NSLock, SecureCallProofs

(* Every step of the threads is one of SecureCall or leaves it alone. *)
LEMMA ThreadStep == [NSNext]_all_vars => [Next]_vars
<1> SUFFICES ASSUME [NSNext]_all_vars PROVE [Next]_vars
  OBVIOUS
<1>1. CASE UNCHANGED all_vars
  BY <1>1 DEF all_vars
<1>2. CASE halted = "no" /\ SecureStep
  BY <1>2 DEF Next
<1>3. CASE tfm_ns_lock_init
  BY <1>3 DEF tfm_ns_lock_init
<1>4. ASSUME NEW t \in Threads, halted = "no", Thread(t) PROVE [Next]_vars
  <2>1. ASSUME NEW valid \in BOOLEAN, tfm_ns_lock_svc_dispatch(t, valid) PROVE [Next]_vars
    BY <2>1 DEF tfm_ns_lock_svc_dispatch
  <2>2. CASE osMutexAcquire(t) \/ osMutexRelease(t)
    BY <2>2 DEF osMutexAcquire, osMutexRelease
  <2>3. CASE SVC(t) \/ DirectCall(t)
    <3>1. \E p \in User, exc_num \in Exceptions : NonSecureCall(p, exc_num)
      BY <2>3 DEF SVC, DirectCall, Exceptions
    <3> QED
      BY <1>4, <3>1 DEF Next
  <2>4. CASE SVCReturn(t)
    BY <1>4, <2>4 DEF SVCReturn, Next
  <2> QED
    BY <1>4, <2>1, <2>2, <2>3, <2>4 DEF Thread
<1> QED
  BY <1>1, <1>2, <1>3, <1>4 DEF NSNext

(* With any number of threads the system implements SecureCall, so that all *)
(* that is proved of it holds with them.                                    *)
THEOREM ImplementsCalls == NSSpec => Spec
  BY ThreadStep, PTL DEF NSSpec, NSInit, Spec

(* A request of the non-secure side holds it off exactly when it is granted, *)
(* which an SVC alone can be.                                               *)
LEMMA RequestPris ==
    ASSUME NEW p \in User, NEW ns_caller \in BOOLEAN, NEW exc_num \in Exceptions,
           pris \in BOOLEAN, tfm_core_sfn_request_function(p, ns_caller, exc_num)
    PROVE  /\ ret' = "none" => pris' = (pris \/ ns_caller)
           /\ ret' # "none" => pris' = pris
           /\ ns_caller /\ exc_num # "SVCALL" => pris' = pris
<1> DEFINE rules == tfm_core_check_sfn_req_rules(ns_caller, exc_num)
           res == IF rules = "SUCCESS" THEN LockResult(p, ns_caller) ELSE rules
<1>1. LockResult(p, ns_caller) \in {"SECURE_LOCK_FAILED", "SUCCESS", "PARTITION_NON_REENTRANT"}
  BY DEF LockResult
<1>2. rules \in {"INVALID_EXC_MODE", "NS_THREAD_MODE_CALL", "SECURE_DOMAIN_LOCKED", "SUCCESS"}
  BY DEF tfm_core_check_sfn_req_rules, Exceptions
<1>3. ns_caller /\ exc_num # "SVCALL" => rules # "SUCCESS"
  BY DEF tfm_core_check_sfn_req_rules, Exceptions
<1>4. CASE res = "SUCCESS"
  BY <1>3, <1>4 DEF tfm_core_sfn_request_function, tfm_core_configure_secure_exception
<1>5. CASE res # "SUCCESS"
  BY <1>1, <1>2, <1>5 DEF tfm_core_sfn_request_function, processor
<1> QED
  BY <1>4, <1>5

(* The secure side never takes itself out of the way of the others. *)
LEMMA SecurePris ==
    ASSUME pris \in BOOLEAN, SecureStep
    PROVE  pris' = pris
<1>1. ASSUME tfm_spm_partition_init PROVE pris' = pris
  <2>1. CASE InitWithout \/ InitResult
    BY <2>1 DEF InitWithout, InitResult, processor
  <2>2. CASE InitCallee
    <3>1. idx \in User /\ "THREAD_MODE" \in Exceptions
      BY <2>2, CallAssumption DEF InitCallee, Exceptions
    <3> QED
      BY <2>2, <3>1, RequestPris DEF InitCallee
  <2> QED
    BY <1>1, <2>1, <2>2 DEF tfm_spm_partition_init
<1>2. ASSUME NEW p \in User, PartitionCall(p) PROVE pris' = pris
  <2>1. "THREAD_MODE" \in Exceptions
    BY DEF Exceptions
  <2> QED
    BY <1>2, <2>1, RequestPris DEF PartitionCall
<1>3. ASSUME NEW value \in Values, tfm_core_partition_return(value) PROVE pris' = pris
  BY <1>3 DEF tfm_core_partition_return, Halt, processor
<1> QED
  BY <1>1, <1>2, <1>3 DEF SecureStep, jump_to_ns_code, tfm_core_set_buffer_area

(* Every step keeps the invariant of the lock. *)
LEMMA LockStep == LockInv /\ TypeOK /\ [NSNext]_all_vars => LockInv'
<1> SUFFICES ASSUME LockInv, TypeOK, [NSNext]_all_vars PROVE LockInv'
  OBVIOUS
<1>1. pris \in BOOLEAN
  BY DEF TypeOK
<1>2. /\ ns_lock \in [init : BOOLEAN, owner : Threads \cup {NoThread}]
      /\ pc \in [Threads -> {"idle", "acquire", "svc", "secure", "release"}]
      /\ \A t \in Threads : pc[t] # "idle" => ns_lock.init
      /\ \A t \in Threads : pc[t] \in {"svc", "secure", "release"} <=> ns_lock.owner = t
      /\ pris <=> \E t \in Threads : pc[t] = "secure"
  BY DEF LockInv, OneCaller
<1>3. CASE UNCHANGED ns_vars /\ pris' = pris
  BY <1>3 DEF LockInv, OneCaller, ns_vars
<1>4. CASE UNCHANGED all_vars
  BY <1>3, <1>4 DEF all_vars, vars, processor
<1>5. CASE SecureStep /\ UNCHANGED ns_vars
  BY <1>1, <1>3, <1>5, SecurePris
<1>6. ASSUME tfm_ns_lock_init PROVE LockInv'
  <2>1. pris' = pris /\ pc' = pc /\ ns_lock' = [ns_lock EXCEPT !.init = TRUE]
    BY <1>6 DEF tfm_ns_lock_init, vars, processor
  <2> QED
    BY <1>2, <2>1 DEF LockInv, OneCaller
<1>7. ASSUME NEW t \in Threads, NEW valid \in BOOLEAN, tfm_ns_lock_svc_dispatch(t, valid)
      PROVE  LockInv'
  <2>1. pris' = pris /\ ns_lock' = ns_lock /\ pc[t] = "idle"
    BY <1>7 DEF tfm_ns_lock_svc_dispatch, vars, processor
  <2>2. PICK to \in {"idle", "acquire"} :
            pc' = [pc EXCEPT ![t] = to] /\ (to = "acquire" => ns_lock.init)
    BY <1>7 DEF tfm_ns_lock_svc_dispatch, Goto
  <2> QED
    BY <1>2, <2>1, <2>2 DEF LockInv, OneCaller
<1>8. ASSUME NEW t \in Threads, osMutexAcquire(t) PROVE LockInv'
  <2>1. /\ pris' = pris /\ pc[t] = "acquire" /\ pc' = [pc EXCEPT ![t] = "svc"]
        /\ ns_lock.init
    BY <1>2, <1>8 DEF osMutexAcquire, Goto, vars, processor
  <2>2. ns_lock.owner = NoThread /\ ns_lock' = [ns_lock EXCEPT !.owner = t]
    BY <1>8, <2>1 DEF osMutexAcquire
  <2>3. \A u \in Threads : u # NoThread
    BY ThreadAssumption
  <2> QED
    BY <1>2, <2>1, <2>2, <2>3 DEF LockInv, OneCaller
<1>9. ASSUME NEW t \in Threads, SVC(t) PROVE LockInv'
  <2>1. PICK p \in User : NonSecureCall(p, "SVCALL")
    BY <1>9 DEF SVC
  <2>2. /\ ~pris /\ pc[t] = "svc" /\ ns_lock' = ns_lock
        /\ pc' = [pc EXCEPT ![t] = IF ret' = "none" THEN "secure" ELSE "release"]
        /\ tfm_core_sfn_request_function(p, TRUE, "SVCALL")
    BY <1>9, <2>1 DEF SVC, Goto, NonSecureCall, NonSecure
  <2>3. /\ ret' = "none" => pris' = TRUE
        /\ ret' # "none" => pris' = pris
    BY <1>1, <2>2, RequestPris DEF Exceptions
  <2>4. CASE ret' = "none"
    BY <1>2, <2>2, <2>3, <2>4 DEF LockInv, OneCaller
  <2>5. CASE ret' # "none"
    BY <1>2, <2>2, <2>3, <2>5 DEF LockInv, OneCaller
  <2> QED
    BY <2>4, <2>5
<1>10. ASSUME NEW t \in Threads, SVCReturn(t) PROVE LockInv'
  <2>1. pris' = FALSE /\ pc[t] = "secure" /\ ns_lock' = ns_lock /\ pc' = [pc EXCEPT ![t] = "release"]
    BY <1>10 DEF SVCReturn, Goto, tfm_core_deconfigure_secure_exception
  <2>2. \A u \in Threads : pc[u] = "secure" => u = t
    BY <1>2, <2>1
  <2> QED
    BY <1>2, <2>1, <2>2 DEF LockInv, OneCaller
<1>11. ASSUME NEW t \in Threads, osMutexRelease(t) PROVE LockInv'
  <2>1. /\ pris' = pris /\ pc[t] = "release" /\ pc' = [pc EXCEPT ![t] = "idle"]
        /\ ns_lock' = [ns_lock EXCEPT !.owner = NoThread]
    BY <1>11 DEF osMutexRelease, Goto, vars, processor
  <2>2. \A u \in Threads : u # NoThread /\ (u # t => pc[u] \notin {"svc", "secure", "release"})
    BY <1>2, <2>1, ThreadAssumption
  <2> QED
    BY <1>2, <2>1, <2>2 DEF LockInv, OneCaller
<1>12. ASSUME NEW t \in Threads, DirectCall(t) PROVE LockInv'
  <2>1. PICK p \in User, exc_num \in {"THREAD_MODE", "OTHER"} :
            tfm_core_sfn_request_function(p, TRUE, exc_num)
    BY <1>12 DEF DirectCall, NonSecureCall
  <2>2. pris' = pris
    BY <1>1, <2>1, RequestPris DEF Exceptions
  <2> QED
    BY <1>3, <1>12, <2>2 DEF DirectCall
<1> QED
  BY <1>4, <1>5, <1>6, <1>7, <1>8, <1>9, <1>10, <1>11, <1>12 DEF NSNext, Thread

(* The thread a secure function runs for is the one that holds the lock. *)
THEOREM OneCallerHolds == NSSpec => []OneCaller
<1>1. NSInit => LockInv
  BY ThreadAssumption DEF NSInit, Init, LockInv, OneCaller
<1>2. Spec => []TypeOK
  <2>1. CallInv => TypeOK
    BY DEF CallInv
  <2> QED
    BY <2>1, CallSafety, PTL
<1>3. LockInv => OneCaller
  BY DEF LockInv
<1> QED
  BY <1>1, <1>2, <1>3, LockStep, ImplementsCalls, PTL DEF NSSpec
==============================================================================
