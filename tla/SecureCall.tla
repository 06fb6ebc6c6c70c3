----------------------------- MODULE SecureCall ------------------------------
(***************************************************************************)
(* Calls of secure functions (secure_fw/core/tfm_secure_api.c) over the    *)
(* partition database of secure_fw/spm/spm_api.c: start-up of the          *)
(* partitions, calls from the non-secure side, calls from one partition to *)
(* another, and returns.  Isolation level 1 runs all partitions privileged *)
(* on one stack; level 3 gives each its own stack and protected memory.    *)
(*                                                                         *)
(* What really runs is in `frames', the functions that are active on the   *)
(* processor's stacks, and in psp, nPRIV, mpu and pris, its registers; what *)
(* the core believes is in the database.                                   *)
(***************************************************************************)
EXTENDS Integers, Sequences

CONSTANTS
    PartitionCount,   \* entries of the database
    Trusted,          \* of these, the user partitions flagged as trusted
    WithInit,         \* and those that have an init function
    Levels            \* isolation levels (TFM_LVL) considered, 1 and 3

TFM_SP_NON_SECURE_ID == 0
TFM_SP_CORE_ID == 1
SPM_INVALID_PARTITION_IDX == -1
Partitions == 0 .. (PartitionCount - 1)
User == 2 .. (PartitionCount - 1)
Secure(p) == p # TFM_SP_NON_SECURE_ID

(* tfm_spm_db_init puts the non-secure side and the core first. *)
ASSUME CallAssumption ==
    /\ PartitionCount \in Nat /\ PartitionCount >= 2
    /\ Trusted \subseteq User /\ WithInit \subseteq User
    /\ Levels \subseteq {1, 3}

VARIABLES
    level,                  \* TFM_LVL
    frames,                 \* who called whom, the one that runs last
    psp,                    \* process stack pointer: whose stack, frames on it
    nPRIV,                  \* thread mode is unprivileged
    mpu,                    \* whose memory, and which shared region, is open
    pris,                   \* the non-secure side is held off
    partition_state, caller_partition_idx, share, stack_ptr, orig_psp,
    running_partition_idx,  \* with the above: g_spm_partition_db
    tfm_secure_lock, tfm_secure_api_init,
    idx,                    \* next partition to initialise
    ret,                    \* what the last call or handler returned
    halted                  \* why the core is in its endless loop, if it is

processor == <<frames, psp, nPRIV, mpu, pris>>
database == <<partition_state, caller_partition_idx, share, stack_ptr,
              orig_psp, running_partition_idx>>
vars == <<level, processor, database, tfm_secure_lock, tfm_secure_api_init,
          idx, ret, halted>>

Executing == frames[Len(frames)]

(* Stacks: one of each partition in level 3, one for all of them in level 1, *)
(* and the one main runs on.                                                *)
Top(owner) == [owner |-> owner, used |-> 0]
SharedStack == Top(-2)
MainStack == Top(-3)
SVC_STACK_FRAME_SIZE == 1
Pushed(sp) == [sp EXCEPT !.used = @ + SVC_STACK_FRAME_SIZE]
Popped(sp) == [sp EXCEPT !.used = @ - SVC_STACK_FRAME_SIZE]

NoShare == "disabled"
Shares == {"scratch", "ns_code"}
Nobody == SPM_INVALID_PARTITION_IDX
NoSandbox == [owner |-> Nobody, share |-> NoShare]
------------------------------------------------------------------------------
(* main, up to the loop of tfm_spm_partition_init. *)
Init ==
    /\ level \in Levels
    /\ frames = <<TFM_SP_CORE_ID>>
    /\ psp = MainStack /\ nPRIV = FALSE /\ mpu = NoSandbox /\ pris = FALSE
    /\ partition_state = [p \in Partitions |->
                            IF p = TFM_SP_CORE_ID THEN "RUNNING" ELSE "UNINIT"]
    /\ caller_partition_idx = [p \in Partitions |-> 0]
    /\ share = [p \in Partitions |-> NoShare]
    /\ stack_ptr = [p \in Partitions |-> Top(p)]
    /\ orig_psp = [p \in Partitions |-> Top(Nobody)]
    /\ running_partition_idx = TFM_SP_CORE_ID
    /\ tfm_secure_lock = 0 /\ tfm_secure_api_init = TRUE
    /\ idx = 0 /\ ret = "none" /\ halted = "no"

(* Calls of secure functions by thread mode go through an SVC exception,   *)
(* but not those of level 1 once the partitions are initialised.           *)
ViaSvc == level # 1 \/ tfm_secure_api_init

(* The exception the caller is in: none, the supervisor call, another one. *)
Exceptions == {"THREAD_MODE", "SVCALL", "OTHER"}

tfm_core_check_sfn_req_rules(ns_caller, exc_num) ==
    CASE exc_num = "OTHER" -> "INVALID_EXC_MODE"
      [] ns_caller /\ exc_num = "THREAD_MODE" -> "NS_THREAD_MODE_CALL"
      [] ns_caller /\ exc_num = "SVCALL" /\ tfm_secure_lock # 0 -> "SECURE_DOMAIN_LOCKED"
      [] ~ns_caller /\ exc_num = "SVCALL" -> "INVALID_EXC_MODE"
      [] OTHER -> "SUCCESS"

(* The init function of a partition runs while it is not initialised. *)
InitCall(p) ==
    /\ tfm_secure_api_init
    /\ running_partition_idx = TFM_SP_CORE_ID
    /\ partition_state[p] = "UNINIT"

(* Slip: a partition that waits for one it called may be called. *)
LockIgnoresBlocked(p, ns_caller) ==
    IF Secure(running_partition_idx) = ns_caller THEN "SECURE_LOCK_FAILED"
    ELSE IF InitCall(p) THEN "SUCCESS"
    ELSE IF partition_state[p] = "RUNNING" THEN "PARTITION_NON_REENTRANT"
    ELSE IF partition_state[p] \notin {"IDLE", "BLOCKED"} THEN "SECURE_LOCK_FAILED"
    ELSE "SUCCESS"

(* The checks of tfm_push_lock. *)
LockResult(p, ns_caller) ==
    IF Secure(running_partition_idx) = ns_caller THEN "SECURE_LOCK_FAILED"
    ELSE IF InitCall(p) THEN "SUCCESS"
    ELSE IF partition_state[p] \in {"RUNNING", "SUSPENDED", "BLOCKED"}
    THEN "PARTITION_NON_REENTRANT"
    ELSE IF partition_state[p] # "IDLE" THEN "SECURE_LOCK_FAILED"
    ELSE "SUCCESS"

(* The stack pointer the core finds: an SVC has pushed a frame. *)
CallerPsp(ns_caller) == IF ~ns_caller /\ ViaSvc THEN Pushed(psp) ELSE psp

DefaultShare(ns_caller) == IF ns_caller THEN "ns_code" ELSE "scratch"

(* Slip: the shared region of whoever ran before stays open. *)
SandboxKeepsShare(p, region) ==
    IF level # 1 THEN [mpu EXCEPT !.owner = p] ELSE mpu

(* The memory that is open after the sandbox of the partition that ran is   *)
(* closed, that of p is opened, and then the shared region.                 *)
Sandbox(p, region) ==
    IF level # 1 THEN [owner |-> p, share |-> region] ELSE mpu

(* The effects of tfm_push_lock and the exception return into the function, *)
(* which takes the context prepared for it off the stack again.             *)
tfm_push_lock(p, ns_caller) ==
    LET caller == running_partition_idx
    IN  /\ stack_ptr' = IF level # 1 /\ ~ns_caller
                        THEN [stack_ptr EXCEPT ![caller] = CallerPsp(ns_caller)]
                        ELSE stack_ptr
        /\ psp' = IF level # 1 THEN stack_ptr[p]
                  ELSE IF ns_caller \/ tfm_secure_api_init THEN SharedStack ELSE psp
        /\ nPRIV' = (nPRIV \/ (level # 1 /\ InitCall(p) /\ p \notin Trusted))
        /\ mpu' = Sandbox(p, DefaultShare(ns_caller))
        /\ share' = [share EXCEPT ![p] = DefaultShare(ns_caller)]
        /\ orig_psp' = [orig_psp EXCEPT ![p] = CallerPsp(ns_caller)]
        /\ caller_partition_idx' = [caller_partition_idx EXCEPT ![p] = caller]
        /\ partition_state' = [partition_state EXCEPT ![caller] = "BLOCKED",
                                                      ![p] = "RUNNING"]
        /\ running_partition_idx' = p
        /\ tfm_secure_lock' = tfm_secure_lock + 1

tfm_core_configure_secure_exception(ns_caller) == pris \/ ns_caller

(* A function of partition p is asked for. *)
tfm_core_sfn_request_function(p, ns_caller, exc_num) ==
    LET rules == tfm_core_check_sfn_req_rules(ns_caller, exc_num)
        res == IF rules = "SUCCESS" THEN LockResult(p, ns_caller) ELSE rules
    IN  /\ IF res = "SUCCESS"
           THEN /\ tfm_push_lock(p, ns_caller)
                /\ frames' = Append(frames, p)
                /\ pris' = tfm_core_configure_secure_exception(ns_caller)
                /\ ret' = "none"
           ELSE /\ ret' = res
                /\ UNCHANGED <<processor, database, tfm_secure_lock>>
        /\ UNCHANGED <<level, tfm_secure_api_init, idx, halted>>

Halt(why) ==
    /\ halted' = why
    /\ UNCHANGED <<level, processor, database, tfm_secure_lock,
                   tfm_secure_api_init, idx, ret>>

(* Slip: the frame of the SVC stays on the partition's stack. *)
StackKeepsFrame(sp) == Pushed(sp)

(* The stack pointer kept for the next call: that of the SVC by which the   *)
(* function returns, without the frame of this SVC.                         *)
StackAfterReturn(sp) == Popped(Pushed(sp))

(* The effects of tfm_pop_lock and of the exception return to the caller. *)
tfm_pop_lock(current, caller) ==
    /\ tfm_secure_lock' = tfm_secure_lock - 1
    /\ mpu' = IF tfm_secure_api_init THEN Sandbox(Nobody, NoShare)
              ELSE Sandbox(caller, IF Secure(caller) THEN share[caller] ELSE NoShare)
    /\ nPRIV' = (nPRIV /\ ~(level # 1 /\ tfm_secure_api_init /\ current \notin Trusted))
    /\ stack_ptr' = IF level # 1
                    THEN [stack_ptr EXCEPT ![current] = StackAfterReturn(psp)]
                    ELSE stack_ptr
    /\ psp' = IF ~Secure(caller) THEN orig_psp[current]
              ELSE IF ViaSvc THEN Popped(orig_psp[current]) ELSE psp
    /\ caller_partition_idx' = [caller_partition_idx EXCEPT
                                    ![current] = SPM_INVALID_PARTITION_IDX]
    /\ orig_psp' = [orig_psp EXCEPT ![current] = Top(Nobody)]
    /\ share' = [share EXCEPT ![current] = NoShare]
    /\ partition_state' = [partition_state EXCEPT ![current] = "IDLE",
                                                  ![caller] = "RUNNING"]
    /\ running_partition_idx' = caller

(* The function that runs returns `value': a reserved one stops the core,   *)
(* unless it is passed on directly (tfm_core_call_sfn of level 1).          *)
tfm_core_partition_return(value) ==
    LET caller == caller_partition_idx[running_partition_idx]
        direct == ~ViaSvc /\ Len(frames) > 2
    IN  /\ Executing \in User
        /\ IF value = "reserved" /\ ~direct
           THEN Halt("reserved")
           ELSE IF caller = SPM_INVALID_PARTITION_IDX
           THEN Halt("unlock")
           ELSE /\ tfm_pop_lock(running_partition_idx, caller)
                /\ frames' = SubSeq(frames, 1, Len(frames) - 1)
                /\ ret' = value
                /\ UNCHANGED <<level, pris, tfm_secure_api_init, idx, halted>>

(* A call from the non-secure side is over. *)
tfm_core_deconfigure_secure_exception ==
    /\ ~Secure(Executing) /\ pris
    /\ pris' = FALSE
    /\ UNCHANGED <<level, frames, psp, nPRIV, mpu, database, tfm_secure_lock,
                   tfm_secure_api_init, idx, ret, halted>>

(* A partition chooses the region it shares with its caller. *)
tfm_core_set_buffer_area(request) ==
    LET caller == caller_partition_idx[running_partition_idx]
        region == IF request = "default" THEN DefaultShare(~Secure(caller)) ELSE request
    IN  /\ Executing \in User
        /\ mpu' = Sandbox(mpu.owner, region)
        /\ share' = [share EXCEPT ![running_partition_idx] = region]
        /\ ret' = "none"
        /\ UNCHANGED <<level, frames, psp, nPRIV, pris, partition_state,
                       caller_partition_idx, stack_ptr, orig_psp, running_partition_idx,
                       tfm_secure_lock, tfm_secure_api_init, idx, halted>>
------------------------------------------------------------------------------
(* Start-up: the loop of tfm_spm_partition_init.  A partition without an    *)
(* init function becomes idle; the others are called.                       *)
InitWithout ==
    /\ idx \in Partitions \ WithInit
    /\ partition_state' = [partition_state EXCEPT ![idx] = "IDLE"]
    /\ caller_partition_idx' = [caller_partition_idx EXCEPT
                                    ![idx] = SPM_INVALID_PARTITION_IDX]
    /\ idx' = idx + 1
    /\ UNCHANGED <<level, processor, share, stack_ptr, orig_psp, running_partition_idx,
                   tfm_secure_lock, tfm_secure_api_init, ret, halted>>

InitCallee ==
    /\ idx \in WithInit
    /\ ret = "none"
    /\ tfm_core_sfn_request_function(idx, FALSE, "THREAD_MODE")

(* Slip: an init function that fails is tried again. *)
InitRetries ==
    /\ idx \in WithInit
    /\ ret # "none"
    /\ idx' = IF ret = "success" THEN idx + 1 ELSE idx
    /\ partition_state' = [partition_state EXCEPT ![idx] = "IDLE"]
    /\ ret' = "none"
    /\ UNCHANGED <<level, processor, caller_partition_idx, share, stack_ptr, orig_psp,
                   running_partition_idx, tfm_secure_lock, tfm_secure_api_init, halted>>

(* When the init function fails, tfm_spm_partition_err_handler closes the   *)
(* entry at index partition_id, which is none of the database's.            *)
InitResult ==
    /\ idx \in WithInit
    /\ ret # "none"
    /\ partition_state' = IF ret = "success"
                          THEN [partition_state EXCEPT ![idx] = "IDLE"]
                          ELSE partition_state
    /\ idx' = idx + 1
    /\ ret' = "none"
    /\ UNCHANGED <<level, processor, caller_partition_idx, share, stack_ptr, orig_psp,
                   running_partition_idx, tfm_secure_lock, tfm_secure_api_init, halted>>

tfm_spm_partition_init ==
    /\ Executing = TFM_SP_CORE_ID
    /\ InitWithout \/ InitCallee \/ InitResult

(* tfm_secure_api_init_done, the end of main, and jump_to_ns_code. *)
jump_to_ns_code ==
    /\ Executing = TFM_SP_CORE_ID
    /\ idx = PartitionCount
    /\ tfm_secure_api_init' = FALSE
    /\ mpu' = Sandbox(TFM_SP_NON_SECURE_ID, mpu.share)
    /\ partition_state' = [partition_state EXCEPT ![TFM_SP_CORE_ID] = "CLOSED",
                                                  ![TFM_SP_NON_SECURE_ID] = "RUNNING"]
    /\ running_partition_idx' = TFM_SP_NON_SECURE_ID
    /\ nPRIV' = (nPRIV \/ level # 1)
    /\ frames' = <<TFM_SP_NON_SECURE_ID>>
    /\ UNCHANGED <<level, psp, pris, caller_partition_idx, share, stack_ptr, orig_psp,
                   tfm_secure_lock, idx, ret, halted>>

(* The non-secure side runs, or interrupts the secure side, whenever it is *)
(* not held off.                                                            *)
NonSecure == ~tfm_secure_api_init /\ ~pris

(* No init function of the services calls another partition. *)
PartitionCall(p) ==
    /\ Executing \in User /\ ~tfm_secure_api_init
    /\ tfm_core_sfn_request_function(p, FALSE, "THREAD_MODE")

(* From an exception handler of the non-secure side, or from a thread. *)
NonSecureCall(p, exc_num) ==
    /\ NonSecure
    /\ tfm_core_sfn_request_function(p, TRUE, exc_num)

Values == {"success", "busy", "specific", "reserved"}

(* What the secure side does of its own accord. *)
SecureStep ==
    \/ tfm_spm_partition_init \/ jump_to_ns_code
    \/ \E p \in User : PartitionCall(p)
    \/ \E request \in Shares \cup {"default"} : tfm_core_set_buffer_area(request)
    \/ \E value \in Values : tfm_core_partition_return(value)

Next ==
    /\ halted = "no"
    /\ \/ SecureStep
       \/ tfm_core_deconfigure_secure_exception
       \/ \E p \in User, exc_num \in Exceptions : NonSecureCall(p, exc_num)

Spec == Init /\ [][Next]_vars
------------------------------------------------------------------------------
(* Every variable has its type; an interrupted caller has one frame of an   *)
(* SVC on its stack, and whoever runs has none.                             *)
States == {"UNINIT", "IDLE", "RUNNING", "BLOCKED", "SUSPENDED", "CLOSED"}
Stacks == [owner : -3 .. (PartitionCount - 1), used : 0 .. 1]
TypeOK ==
    /\ level \in Levels
    /\ frames \in Seq(Partitions) /\ Len(frames) >= 1
    /\ psp \in Stacks /\ nPRIV \in BOOLEAN /\ pris \in BOOLEAN
    /\ mpu \in [owner : Partitions \cup {Nobody}, share : Shares \cup {NoShare}]
    /\ partition_state \in [Partitions -> States]
    /\ caller_partition_idx \in [Partitions -> Partitions \cup {Nobody}]
    /\ share \in [Partitions -> Shares \cup {NoShare}]
    /\ stack_ptr \in [Partitions -> Stacks] /\ orig_psp \in [Partitions -> Stacks]
    /\ running_partition_idx \in Partitions
    /\ tfm_secure_lock \in Nat
    /\ tfm_secure_api_init \in BOOLEAN
    /\ idx \in 0 .. PartitionCount
    /\ halted \in {"no", "reserved", "unlock"}

(* The database is an image of what runs: the chain of callers leads from   *)
(* the running partition through the blocked ones, each once, to the core   *)
(* or the non-secure side, no other partition is marked as running or       *)
(* blocked, and the lock counts the calls under way (tfm_push_lock and      *)
(* tfm_pop_lock).  The core itself is marked idle in its own loop.          *)
ChainMatches ==
    LET n == Len(frames)
    IN  /\ running_partition_idx = frames[n]
        /\ tfm_secure_lock = n - 1
        /\ frames[1] = IF tfm_secure_api_init THEN TFM_SP_CORE_ID
                       ELSE TFM_SP_NON_SECURE_ID
        /\ \A i \in 2 .. n : /\ frames[i] \in User
                             /\ caller_partition_idx[frames[i]] = frames[i - 1]
        /\ \A i, j \in 1 .. n : frames[i] = frames[j] => i = j
        /\ \A i \in 1 .. (n - 1) : partition_state[frames[i]] = "BLOCKED"
        /\ frames[n] # TFM_SP_CORE_ID => partition_state[frames[n]] = "RUNNING"
        /\ \A p \in Partitions : partition_state[p] \in {"RUNNING", "BLOCKED"} =>
                                    \E i \in 1 .. n : frames[i] = p

(* What the code takes for corruption or "potential security breach" never  *)
(* happens: no call from the non-secure side finds the secure side locked,  *)
(* no caller disagrees with the database, and every function that returns   *)
(* has a caller (tfm_core_check_sfn_req_rules, tfm_push_lock, tfm_pop_lock). *)
NoAnomaly ==
    /\ ret # "SECURE_DOMAIN_LOCKED"
    /\ halted # "unlock"
    /\ Secure(running_partition_idx) = Secure(Executing)

(* In level 3 the memory that is open is always that of whoever runs, with  *)
(* the region it has chosen to share, also after it has waited for another  *)
(* partition; nothing but the init function of a trusted partition runs     *)
(* privileged (tfm_spm_partition_sandbox_config, set_share, nPRIV).         *)
Isolated ==
    level # 1 =>
        /\ Executing \in User =>
              /\ share[Executing] \in Shares
              /\ mpu = [owner |-> Executing, share |-> share[Executing]]
        /\ Executing = TFM_SP_NON_SECURE_ID => mpu = [owner |-> Executing, share |-> NoShare]
        /\ Executing \in User \ Trusted \/ ~tfm_secure_api_init => nPRIV

(* Every function runs on its own partition's stack, or in level 1 on the   *)
(* shared one, and leaves it as it found it; the callers find theirs again  *)
(* (orig_psp, stack_ptr and SVC_STACK_FRAME_SIZE).                          *)
StacksBalanced ==
    /\ psp = IF Executing \notin User THEN MainStack
             ELSE IF level = 1 THEN SharedStack ELSE Top(Executing)
    /\ \A p \in User :
          (\A i \in 1 .. Len(frames) : frames[i] # p) => stack_ptr[p] = Top(p)

(* The inductive invariant.  Behind the properties above it says how far    *)
(* start-up has come, that the non-secure side is held off while a function *)
(* it called runs, that a partition that waits keeps its shared region, and *)
(* which stack pointer each function has to restore.                        *)
StartUp ==
    tfm_secure_api_init =>
        /\ ~pris
        /\ Len(frames) <= 2
        /\ Len(frames) > 1 => frames[2] = idx
        /\ Len(frames) < 2 \/ level = 1 => mpu = NoSandbox
        /\ \A p \in User :
              p > idx \/ (p = idx /\ Len(frames) < 2 /\ ret = "none") =>
                  partition_state[p] = "UNINIT"
HeldOff == ~tfm_secure_api_init /\ Len(frames) > 1 => pris
SharesKept == \A i \in 2 .. Len(frames) : share[frames[i]] \in Shares
StacksKept ==
    /\ \A i \in 2 .. Len(frames) :
          /\ i = 2 => orig_psp[frames[i]] = IF tfm_secure_api_init THEN Pushed(MainStack)
                                            ELSE MainStack
          /\ i > 2 /\ level # 1 => orig_psp[frames[i]] = Pushed(Top(frames[i - 1]))
    /\ level = 1 => \A p \in User : stack_ptr[p] = Top(p)

CallInv ==
    /\ TypeOK /\ ChainMatches /\ StartUp /\ HeldOff
    /\ Isolated /\ SharesKept /\ StacksBalanced /\ StacksKept
    /\ ret # "SECURE_DOMAIN_LOCKED" /\ halted # "unlock"
==============================================================================
