------------------------------- MODULE NSLock --------------------------------
(***************************************************************************)
(* Threads of the non-secure side that use secure services through the     *)
(* lock of interface/src/tfm_ns_lock_rtx.c, on top of SecureCall: one      *)
(* processor runs either a thread or the secure side.                      *)
(***************************************************************************)
EXTENDS SecureCall

CONSTANTS Threads, NoThread

ASSUME ThreadAssumption == NoThread \notin Threads

VARIABLES
    ns_lock,    \* init: tfm_ns_lock_init was called; owner of the mutex
    pc          \* what each thread is doing

ns_vars == <<ns_lock, pc>>
all_vars == <<vars, ns_vars>>

Goto(t, to) == pc' = [pc EXCEPT ![t] = to]

NSInit ==
    /\ Init
    /\ ns_lock = [init |-> FALSE, owner |-> NoThread]
    /\ pc = [t \in Threads |-> "idle"]

(* main of the non-secure image, before it starts the threads that wait for *)
(* the mutex.  osMutexNew is taken to succeed: the code does not look at    *)
(* its result.                                                              *)
tfm_ns_lock_init ==
    /\ NonSecure
    /\ ~ns_lock.init
    /\ ns_lock' = [ns_lock EXCEPT !.init = TRUE]
    /\ UNCHANGED <<vars, pc>>

(* Slip: nobody asks whether there is a lock. *)
DispatchUnchecked(t, valid) ==
    /\ NonSecure
    /\ pc[t] = "idle"
    /\ Goto(t, IF valid THEN "acquire" ELSE "idle")
    /\ UNCHANGED <<vars, ns_lock>>

(* A thread dispatches a request; without the lock, or with an SVC number   *)
(* that is not valid, it gets an error at once.                             *)
tfm_ns_lock_svc_dispatch(t, valid) ==
    /\ NonSecure
    /\ pc[t] = "idle"
    /\ Goto(t, IF ns_lock.init /\ valid THEN "acquire" ELSE "idle")
    /\ UNCHANGED <<vars, ns_lock>>

(* The thread waits for the mutex.  The result is not looked at, so without *)
(* a mutex it would go on at once.                                          *)
osMutexAcquire(t) ==
    /\ NonSecure
    /\ pc[t] = "acquire"
    /\ IF ns_lock.init
       THEN ns_lock.owner = NoThread /\ ns_lock' = [ns_lock EXCEPT !.owner = t]
       ELSE UNCHANGED ns_lock
    /\ Goto(t, "svc")
    /\ UNCHANGED vars

(* The SVC: its handler calls the secure function.  A request that is       *)
(* refused returns at once.                                                 *)
SVC(t) ==
    /\ pc[t] = "svc"
    /\ \E p \in User : NonSecureCall(p, "SVCALL")
    /\ Goto(t, IF ret' = "none" THEN "secure" ELSE "release")
    /\ UNCHANGED ns_lock

(* The secure function has returned to the thread that called it. *)
SVCReturn(t) ==
    /\ pc[t] = "secure"
    /\ tfm_core_deconfigure_secure_exception
    /\ Goto(t, "release")
    /\ UNCHANGED ns_lock

(* Slip: the mutex is kept. *)
ReleaseForgotten(t) ==
    /\ NonSecure
    /\ pc[t] = "release"
    /\ Goto(t, "idle")
    /\ UNCHANGED <<vars, ns_lock>>

osMutexRelease(t) ==
    /\ NonSecure
    /\ pc[t] = "release"
    /\ ns_lock' = [ns_lock EXCEPT !.owner = NoThread]
    /\ Goto(t, "idle")
    /\ UNCHANGED vars

(* A thread, or a handler that interrupts it, calls a secure function       *)
(* without the SVC.                                                         *)
DirectCall(t) ==
    /\ pc[t] = "idle"
    /\ \E p \in User, exc_num \in {"THREAD_MODE", "OTHER"} : NonSecureCall(p, exc_num)
    /\ UNCHANGED ns_vars

Thread(t) ==
    \/ \E valid \in BOOLEAN : tfm_ns_lock_svc_dispatch(t, valid)
    \/ osMutexAcquire(t) \/ SVC(t) \/ SVCReturn(t) \/ osMutexRelease(t)
    \/ DirectCall(t)

NSNext ==
    /\ halted = "no"
    /\ \/ SecureStep /\ UNCHANGED ns_vars
       \/ tfm_ns_lock_init
       \/ \E t \in Threads : Thread(t)

NSSpec == NSInit /\ [][NSNext]_all_vars

Running(A) == halted = "no" /\ A /\ UNCHANGED ns_vars
Return(depth) ==
    Len(frames) = depth /\ \E value \in Values : tfm_core_partition_return(value)

(* A secure function returns, after finitely many calls of its own; main    *)
(* goes through its loop; a thread that can run does so; the RTX kernel     *)
(* gives the mutex to each thread that waits for it in its turn.  Nothing   *)
(* obliges a thread to dispatch a request.                                  *)
NSFairness ==
    /\ WF_all_vars(Running(tfm_spm_partition_init \/ jump_to_ns_code))
    /\ \A depth \in 2 .. PartitionCount : SF_all_vars(Running(Return(depth)))
    /\ \A t \in Threads :
          /\ WF_all_vars(halted = "no" /\ (SVC(t) \/ SVCReturn(t) \/ osMutexRelease(t)))
          /\ SF_all_vars(halted = "no" /\ osMutexAcquire(t))

NSFairSpec == NSSpec /\ NSFairness
------------------------------------------------------------------------------
(* The thread a secure function runs for is the one that holds the lock:    *)
(* it alone is in its SVC, so the result goes to it                         *)
(* (tfm_ns_lock_svc_dispatch).                                              *)
OneCaller ==
    /\ \A t \in Threads : pc[t] \in {"svc", "secure", "release"} <=> ns_lock.owner = t
    /\ pris <=> \E t \in Threads : pc[t] = "secure"

(* Start-up ends, whatever the init functions return: the non-secure side   *)
(* runs or a reserved return value has stopped the core                     *)
(* (tfm_spm_partition_init).                                                *)
StartsUp == <>(~tfm_secure_api_init \/ halted # "no")

(* Every thread that waits for the lock comes back from its request, unless *)
(* the core is stopped by a reserved return value                           *)
(* (tfm_ns_lock_svc_dispatch, "osWaitForever").                             *)
DispatchReturns ==
    \A t \in Threads : pc[t] = "acquire" ~> (pc[t] = "idle" \/ halted # "no")

(* The inductive invariant of the lock: the types, that there is a lock     *)
(* once a thread goes for it, and OneCaller.                                *)
LockInv ==
    /\ ns_lock \in [init : BOOLEAN, owner : Threads \cup {NoThread}]
    /\ pc \in [Threads -> {"idle", "acquire", "svc", "secure", "release"}]
    /\ \A t \in Threads : pc[t] # "idle" => ns_lock.init
    /\ OneCaller
==============================================================================
