-------------------------- MODULE SecureCallProofs ---------------------------
(***************************************************************************)
(* Proofs about SecureCall, for every number of partitions, every choice   *)
(* of trusted ones and of those with an init function, and both isolation  *)
(* levels.                                                                 *)
(***************************************************************************)
EXTENDS SecureCall, TLAPS

(* A stack with nothing on it takes the frame of one SVC, and is the same   *)
(* again when the frame is taken off.                                       *)
StackOwners == -3 .. (PartitionCount - 1)
LEMMA StackFacts ==
    ASSUME NEW owner \in StackOwners
    PROVE  /\ Top(owner) \in Stacks /\ Pushed(Top(owner)) \in Stacks
           /\ Popped(Pushed(Top(owner))) = Top(owner)
<1>1. Top(owner) \in Stacks
  BY CallAssumption DEF StackOwners, Top, Stacks
<1>2. Pushed(Top(owner)) = [owner |-> owner, used |-> 1]
  BY CallAssumption DEF StackOwners, Top, Pushed, SVC_STACK_FRAME_SIZE
<1>3. [owner |-> owner, used |-> 1] \in Stacks
  BY CallAssumption DEF StackOwners, Stacks
<1>4. Popped([owner |-> owner, used |-> 1]) = Top(owner)
  BY CallAssumption DEF StackOwners, Top, Popped, SVC_STACK_FRAME_SIZE
<1> QED
  BY <1>1, <1>2, <1>3, <1>4

(* Who may own a stack. *)
LEMMA OwnerFacts ==
    /\ -1 \in StackOwners /\ -2 \in StackOwners /\ -3 \in StackOwners
    /\ \A p \in Partitions : p \in StackOwners
    /\ 0 \in Partitions /\ 1 \in Partitions
    /\ \A p \in User : p \in Partitions /\ p # 0 /\ p # 1
BY CallAssumption DEF StackOwners, Partitions, User

(* The state main starts from satisfies the invariant. *)
LEMMA InitInv == Init => CallInv
<1> SUFFICES ASSUME Init PROVE CallInv
  OBVIOUS
<1>1. /\ Len(frames) = 1 /\ frames[1] = 1 /\ frames \in Seq(Partitions)
      /\ 0 \in Partitions /\ 1 \in Partitions
  BY CallAssumption DEF Init, Partitions, TFM_SP_CORE_ID
<1>2. TypeOK
  <2>1. psp \in Stacks
    BY StackFacts, OwnerFacts DEF Init, MainStack
  <2>2. stack_ptr \in [Partitions -> Stacks] /\ orig_psp \in [Partitions -> Stacks]
    BY StackFacts, OwnerFacts DEF Init, Nobody, SPM_INVALID_PARTITION_IDX
  <2>3. nPRIV \in BOOLEAN /\ pris \in BOOLEAN /\ tfm_secure_api_init \in BOOLEAN
    BY DEF Init
  <2>4. mpu \in [owner : Partitions \cup {Nobody}, share : Shares \cup {NoShare}]
    BY DEF Init, NoSandbox
  <2>5. partition_state \in [Partitions -> States]
    BY DEF Init, States
  <2> QED
    BY <1>1, <2>1, <2>2, <2>3, <2>4, <2>5, CallAssumption DEF Init, TypeOK, TFM_SP_CORE_ID
<1>3. ChainMatches
  BY <1>1, CallAssumption DEF Init, ChainMatches, TFM_SP_CORE_ID
<1>4. StartUp
  <2>1. \A p \in User : partition_state[p] = "UNINIT"
    BY CallAssumption DEF Init, User, Partitions, TFM_SP_CORE_ID
  <2> QED
    BY <1>1, <2>1 DEF Init, StartUp
<1>7. HeldOff
  BY DEF Init, HeldOff
<1>5. Isolated /\ SharesKept
  BY <1>1, CallAssumption DEF Init, Isolated, SharesKept, Executing, User,
     TFM_SP_NON_SECURE_ID
<1>6. StacksBalanced /\ StacksKept
  <2>1. Executing \notin User
    BY <1>1, OwnerFacts DEF Executing
  <2>2. \A p \in User : stack_ptr[p] = Top(p)
    BY OwnerFacts DEF Init
  <2> QED
    BY <1>1, <2>1, <2>2 DEF Init, StacksBalanced, StacksKept
<1> QED
  BY <1>2, <1>3, <1>4, <1>5, <1>6, <1>7 DEF CallInv, Init
------------------------------------------------------------------------------
(* What runs is the core or the non-secure side, and nothing below it, or a *)
(* user partition with something below it.                                  *)
LEMMA FrameFacts ==
    ASSUME CallInv
    PROVE  /\ Len(frames) \in Nat /\ Len(frames) >= 1
           /\ \A i \in 1 .. Len(frames) : frames[i] \in Partitions
           /\ Executing \in Partitions /\ running_partition_idx = Executing
           /\ Len(frames) < 2 => Executing = IF tfm_secure_api_init THEN 1 ELSE 0
           /\ Len(frames) > 1 <=> Executing \in User
           /\ level \in {1, 3}
<1>1. /\ frames \in Seq(Partitions) /\ Len(frames) >= 1 /\ Len(frames) \in Nat
      /\ \A i \in 1 .. Len(frames) : frames[i] \in Partitions
      /\ level \in {1, 3}
  BY CallAssumption DEF CallInv, TypeOK
<1>2. /\ running_partition_idx = frames[Len(frames)]
      /\ frames[1] = IF tfm_secure_api_init THEN 1 ELSE 0
      /\ \A i \in 2 .. Len(frames) : frames[i] \in User
  BY DEF CallInv, ChainMatches, TFM_SP_CORE_ID, TFM_SP_NON_SECURE_ID
<1>3. Len(frames) > 1 <=> Executing \in User
  BY <1>1, <1>2, OwnerFacts DEF Executing
<1> QED
  BY <1>1, <1>2, <1>3 DEF Executing

(* A call that is granted keeps the invariant. *)
LEMMA PushInv ==
    ASSUME CallInv, NEW p \in User, NEW ns_caller \in BOOLEAN,
           ns_caller <=> Executing = 0,
           tfm_secure_api_init => Len(frames) < 2 /\ p = idx /\ partition_state[p] = "UNINIT",
           LockResult(p, ns_caller) = "SUCCESS",
           tfm_push_lock(p, ns_caller),
           frames' = Append(frames, p),
           pris' = tfm_core_configure_secure_exception(ns_caller),
           ret' = "none",
           UNCHANGED <<level, tfm_secure_api_init, idx, halted>>
    PROVE  CallInv'
<1> DEFINE n == Len(frames)
           caller == frames[n]
<1>0. n \in Nat /\ n >= 1
  BY FrameFacts
<1>1. /\ n \in Nat /\ n >= 1
      /\ frames' \in Seq(Partitions) /\ Len(frames') = n + 1
      /\ \A i \in 1 .. n : frames'[i] = frames[i] /\ frames[i] \in Partitions
      /\ frames'[n + 1] = p /\ p \in Partitions /\ p # 0 /\ p # 1
  <2>1. frames \in Seq(Partitions) /\ p \in Partitions /\ p # 0 /\ p # 1
    BY OwnerFacts DEF CallInv, TypeOK
  <2> QED
    BY <2>1, FrameFacts
<1>2. /\ running_partition_idx = caller /\ caller \in Partitions /\ Executing = caller
      /\ level \in {1, 3} /\ level' = level
      /\ tfm_secure_api_init' = tfm_secure_api_init
  BY FrameFacts DEF Executing
<1>3. Executing' = p
  BY <1>1 DEF Executing
<1>4. partition_state[p] \in {"UNINIT", "IDLE"}
  BY DEF LockResult, InitCall
<1>5. \A i \in 1 .. n : frames[i] # p
  BY <1>1, <1>4 DEF CallInv, ChainMatches, TFM_SP_CORE_ID
<1>6. /\ n < 2 => caller = IF tfm_secure_api_init THEN 1 ELSE 0
      /\ n > 1 <=> caller \in User
      /\ tfm_secure_api_init => n < 2
      /\ n < 2 \/ n > 1
  BY <1>0, <1>2, FrameFacts
<1>7. ChainMatches'
  <2>1. /\ partition_state' = [partition_state EXCEPT ![caller] = "BLOCKED", ![p] = "RUNNING"]
        /\ caller_partition_idx' = [caller_partition_idx EXCEPT ![p] = caller]
        /\ running_partition_idx' = p
        /\ tfm_secure_lock' = tfm_secure_lock + 1
    BY <1>2 DEF tfm_push_lock
  <2>2. partition_state \in [Partitions -> States] /\ DOMAIN caller_partition_idx = Partitions
    BY DEF CallInv, TypeOK
  <2>3. running_partition_idx' = frames'[n + 1] /\ tfm_secure_lock' = n
    BY <1>1, <2>1 DEF CallInv, ChainMatches
  <2>4. frames'[1] = IF tfm_secure_api_init' THEN TFM_SP_CORE_ID ELSE TFM_SP_NON_SECURE_ID
    BY <1>1, <1>2 DEF CallInv, ChainMatches
  <2>5. \A i \in 2 .. (n + 1) : /\ frames'[i] \in User
                                /\ caller_partition_idx'[frames'[i]] = frames'[i - 1]
    <3>1. \A i \in 2 .. n : frames'[i] \in User /\ caller_partition_idx[frames[i]] = frames'[i - 1]
      BY <1>1 DEF CallInv, ChainMatches
    <3>2. \A i \in 2 .. n : caller_partition_idx'[frames[i]] = caller_partition_idx[frames[i]]
      BY <1>1, <1>5, <2>1, <2>2
    <3>3. caller_partition_idx'[p] = caller
      BY <1>1, <2>1, <2>2
    <3> QED
      BY <1>1, <3>1, <3>2, <3>3
  <2>6. \A i, j \in 1 .. (n + 1) : frames'[i] = frames'[j] => i = j
    <3>1. \A i, j \in 1 .. n : frames[i] = frames[j] => i = j
      BY DEF CallInv, ChainMatches
    <3> QED
      BY <1>1, <1>5, <3>1
  <2>7. \A i \in 1 .. n : partition_state'[frames'[i]] = "BLOCKED"
    <3>1. \A i \in 1 .. (n - 1) : partition_state[frames[i]] = "BLOCKED"
      BY DEF CallInv, ChainMatches
    <3> QED
      BY <1>1, <1>5, <2>1, <2>2, <3>1
  <2>8. partition_state'[frames'[n + 1]] = "RUNNING"
    BY <1>1, <2>1, <2>2
  <2>9. \A q \in Partitions : partition_state'[q] \in {"RUNNING", "BLOCKED"} =>
                                \E i \in 1 .. (n + 1) : frames'[i] = q
    <3>1. \A q \in Partitions : partition_state[q] \in {"RUNNING", "BLOCKED"} =>
                                \E i \in 1 .. n : frames[i] = q
      BY DEF CallInv, ChainMatches
    <3>2. \A q \in Partitions : q # p /\ q # caller => partition_state'[q] = partition_state[q]
      BY <2>1, <2>2
    <3> QED
      BY <1>1, <3>1, <3>2
  <2> QED
    BY <1>1, <2>3, <2>4, <2>5, <2>6, <2>7, <2>8, <2>9 DEF ChainMatches
<1>8. \E owner \in StackOwners : psp = Top(owner)
  BY <1>2, OwnerFacts DEF CallInv, StacksBalanced, MainStack, SharedStack
<1>9. CallerPsp(ns_caller) \in Stacks
  BY <1>8, StackFacts DEF CallerPsp
<1>10. /\ stack_ptr \in [Partitions -> Stacks] /\ orig_psp \in [Partitions -> Stacks]
       /\ orig_psp' = [orig_psp EXCEPT ![p] = CallerPsp(ns_caller)]
       /\ stack_ptr' = IF level # 1 /\ ~ns_caller
                       THEN [stack_ptr EXCEPT ![caller] = CallerPsp(ns_caller)]
                       ELSE stack_ptr
  BY <1>2 DEF CallInv, TypeOK, tfm_push_lock
<1>11. StacksBalanced'
  <2>1. stack_ptr[p] = Top(p)
    BY <1>5 DEF CallInv, StacksBalanced
  <2>2. psp' = IF level = 1 THEN SharedStack ELSE Top(p)
    <3>1. CASE level # 1
      BY <2>1, <3>1 DEF tfm_push_lock
    <3>2. CASE level = 1 /\ (ns_caller \/ tfm_secure_api_init)
      BY <3>2 DEF tfm_push_lock
    <3>3. CASE level = 1 /\ ~ns_caller /\ ~tfm_secure_api_init
      <4>1. caller # 0
        BY <1>2, <3>3
      <4>2. caller \in User
        BY <1>6, <3>3, <4>1
      <4> QED
        BY <1>2, <3>3, <4>2 DEF tfm_push_lock, CallInv, StacksBalanced
    <3> QED
      BY <3>1, <3>2, <3>3
  <2>3. ASSUME NEW q \in User, \A i \in 1 .. (n + 1) : frames'[i] # q
        PROVE  stack_ptr'[q] = Top(q)
    <3>1. \A i \in 1 .. n : frames[i] # q
      BY <1>1, <2>3
    <3>2. stack_ptr[q] = Top(q) /\ q # caller /\ q \in Partitions
      BY <1>1, <3>1, OwnerFacts DEF CallInv, StacksBalanced
    <3> QED
      BY <1>10, <3>2
  <2> QED
    BY <1>1, <1>2, <1>3, <2>2, <2>3 DEF StacksBalanced, SharedStack, MainStack
<1>12. StacksKept'
  <2>1. \A i \in 2 .. n : orig_psp'[frames'[i]] = orig_psp[frames[i]] /\ frames'[i - 1] = frames[i - 1]
    BY <1>1, <1>5, <1>10
  <2>2. orig_psp'[frames'[n + 1]] = CallerPsp(ns_caller)
    BY <1>1, <1>10
  <2>3. n < 2 => CallerPsp(ns_caller) = IF tfm_secure_api_init THEN Pushed(MainStack)
                                        ELSE MainStack
    BY <1>1, <1>2, <1>6 DEF CallerPsp, ViaSvc, CallInv, StacksBalanced
  <2>4. n > 1 /\ level # 1 => CallerPsp(ns_caller) = Pushed(Top(frames'[n]))
    BY <1>1, <1>2, <1>6, OwnerFacts DEF CallerPsp, ViaSvc, CallInv, StacksBalanced
  <2>5. \A i \in 2 .. n :
          /\ i = 2 => orig_psp[frames[i]] = IF tfm_secure_api_init THEN Pushed(MainStack)
                                            ELSE MainStack
          /\ i > 2 /\ level # 1 => orig_psp[frames[i]] = Pushed(Top(frames[i - 1]))
    BY DEF CallInv, StacksKept
  <2>6. ASSUME NEW i \in 2 .. (n + 1)
        PROVE  /\ i = 2 => orig_psp'[frames'[i]] = IF tfm_secure_api_init THEN Pushed(MainStack)
                                                   ELSE MainStack
               /\ i > 2 /\ level # 1 => orig_psp'[frames'[i]] = Pushed(Top(frames'[i - 1]))
    <3>1. CASE i = n + 1
      <4>1. (i = 2 => n < 2) /\ (i > 2 => n > 1) /\ i - 1 = n
        BY <1>0, <3>1
      <4> QED
        BY <2>2, <2>3, <2>4, <3>1, <4>1
    <3>2. CASE i \in 2 .. n
      <4>1. orig_psp'[frames'[i]] = orig_psp[frames[i]] /\ frames'[i - 1] = frames[i - 1]
        BY <2>1, <3>2
      <4> QED
        BY <2>5, <3>2, <4>1
    <3> QED
      BY <1>1, <3>1, <3>2
  <2>7. level = 1 => \A q \in User : stack_ptr'[q] = Top(q)
    BY <1>10 DEF CallInv, StacksKept
  <2> QED
    BY <1>1, <1>2, <2>6, <2>7 DEF StacksKept
<1>13. /\ share \in [Partitions -> Shares \cup {NoShare}]
       /\ share' = [share EXCEPT ![p] = DefaultShare(ns_caller)]
       /\ DefaultShare(ns_caller) \in Shares
  BY DEF CallInv, TypeOK, tfm_push_lock, DefaultShare, Shares
<1>14. SharesKept'
  BY <1>1, <1>5, <1>13 DEF CallInv, SharesKept
<1>15. Isolated'
  <2>1. mpu' = Sandbox(p, DefaultShare(ns_caller)) /\ share'[p] = DefaultShare(ns_caller)
    BY <1>1, <1>13 DEF tfm_push_lock
  <2>2. level # 1 /\ (p \notin Trusted \/ ~tfm_secure_api_init) => nPRIV'
    <3>1. tfm_secure_api_init => InitCall(p)
      BY <1>2, <1>6 DEF InitCall, TFM_SP_CORE_ID
    <3>2. level # 1 /\ ~tfm_secure_api_init => nPRIV
      BY DEF CallInv, Isolated
    <3> QED
      BY <3>1, <3>2 DEF tfm_push_lock
  <2> QED
    BY <1>1, <1>2, <1>3, <1>13, <2>1, <2>2 DEF Isolated, Sandbox, TFM_SP_NON_SECURE_ID
<1>16. StartUp'
  <2> SUFFICES ASSUME tfm_secure_api_init PROVE StartUp'
    BY <1>2 DEF StartUp
  <2>1. ~pris'
    BY <1>2, <1>6, FrameFacts DEF CallInv, StartUp, tfm_core_configure_secure_exception
  <2>2. ASSUME NEW q \in User, q > idx PROVE partition_state'[q] = "UNINIT"
    <3>1. \A r \in User : r > idx => partition_state[r] = "UNINIT"
      BY DEF CallInv, StartUp
    <3>2. /\ partition_state \in [Partitions -> States]
          /\ partition_state' = [partition_state EXCEPT ![running_partition_idx] = "BLOCKED",
                                                        ![p] = "RUNNING"]
      BY DEF CallInv, TypeOK, tfm_push_lock
    <3>3. q \in Partitions /\ q # p /\ q # running_partition_idx
      BY <1>2, <1>6, <2>2, OwnerFacts DEF User
    <3> QED
      BY <2>2, <3>1, <3>2, <3>3
  <2>3. Len(frames') = 2 /\ frames'[2] = idx' /\ idx' = idx
    <3>1. n + 1 = 2
      BY <1>0, <1>6
    <3> QED
      BY <1>1, <3>1
  <2>4. level = 1 => mpu' = NoSandbox
    BY DEF CallInv, StartUp, tfm_push_lock, Sandbox
  <2> QED
    BY <1>2, <2>1, <2>2, <2>3, <2>4 DEF StartUp, NoSandbox, NoShare, Nobody, SPM_INVALID_PARTITION_IDX
<1>17. HeldOff'
  <2>1. ~tfm_secure_api_init => pris'
    <3>1. CASE n < 2
      BY <1>2, <1>6, <3>1 DEF tfm_core_configure_secure_exception
    <3>2. CASE n > 1
      BY <3>2 DEF CallInv, HeldOff, tfm_core_configure_secure_exception
    <3> QED
      BY <1>6, <3>1, <3>2
  <2> QED
    BY <1>2, <2>1 DEF HeldOff
<1>18. TypeOK'
  <2>1. psp' \in Stacks
    BY <1>1, <1>2, <1>3, <1>11, StackFacts, OwnerFacts DEF StacksBalanced, SharedStack, MainStack
  <2>2. /\ stack_ptr' \in [Partitions -> Stacks] /\ orig_psp' \in [Partitions -> Stacks]
        /\ share' \in [Partitions -> Shares \cup {NoShare}]
    BY <1>1, <1>2, <1>9, <1>10, <1>13
  <2>3. mpu' \in [owner : Partitions \cup {Nobody}, share : Shares \cup {NoShare}]
    BY <1>1, <1>13 DEF CallInv, TypeOK, tfm_push_lock, Sandbox
  <2>4. nPRIV' \in BOOLEAN /\ pris' \in BOOLEAN /\ tfm_secure_api_init' \in BOOLEAN
    BY DEF CallInv, TypeOK, tfm_push_lock, tfm_core_configure_secure_exception
  <2>5. /\ partition_state' \in [Partitions -> States]
        /\ caller_partition_idx' \in [Partitions -> Partitions \cup {Nobody}]
    BY <1>1, <1>2 DEF CallInv, TypeOK, tfm_push_lock, States
  <2>6. running_partition_idx' \in Partitions /\ tfm_secure_lock' \in Nat
    BY <1>1 DEF CallInv, TypeOK, tfm_push_lock
  <2> QED
    BY <1>1, <2>1, <2>2, <2>3, <2>4, <2>5, <2>6 DEF CallInv, TypeOK
<1> QED
  BY <1>7, <1>11, <1>12, <1>14, <1>15, <1>16, <1>17, <1>18 DEF CallInv

(* A return to the caller keeps the invariant. *)
LEMMA PopInv ==
    ASSUME CallInv, Executing \in User,
           tfm_pop_lock(running_partition_idx, caller_partition_idx[running_partition_idx]),
           frames' = SubSeq(frames, 1, Len(frames) - 1),
           ret' \in Values,
           UNCHANGED <<level, pris, tfm_secure_api_init, idx, halted>>
    PROVE  CallInv'
<1> DEFINE n == Len(frames)
           current == frames[n]
           caller == frames[n - 1]
<1>0. n \in Nat /\ n > 1
  BY FrameFacts
<1>1. /\ frames' \in Seq(Partitions) /\ Len(frames') = n - 1
      /\ \A i \in 1 .. (n - 1) : frames'[i] = frames[i]
      /\ \A i \in 1 .. n : frames[i] \in Partitions
  <2>1. frames \in Seq(Partitions)
    BY DEF CallInv, TypeOK
  <2> QED
    BY <1>0, <2>1
<1>2. /\ running_partition_idx = current /\ caller_partition_idx[current] = caller
      /\ current \in User /\ current \in Partitions /\ caller \in Partitions
      /\ \A i, j \in 1 .. n : frames[i] = frames[j] => i = j
  BY <1>0, <1>1, FrameFacts DEF CallInv, ChainMatches, Executing
<1>3. /\ caller # current
      /\ \A i \in 1 .. (n - 1) : frames[i] # current
      /\ \A i \in 1 .. (n - 2) : frames[i] # caller
  BY <1>0, <1>2
<1>4. /\ level \in {1, 3} /\ level' = level /\ tfm_secure_api_init' = tfm_secure_api_init
      /\ tfm_secure_api_init \in BOOLEAN /\ idx' = idx
      /\ Executing = current /\ Executing' = caller
  BY <1>0, <1>1, FrameFacts DEF Executing, CallInv, TypeOK
<1>5. /\ n < 3 => caller = IF tfm_secure_api_init THEN 1 ELSE 0
      /\ n < 3 <=> caller \notin User
      /\ tfm_secure_api_init => n < 3 /\ current = idx
      /\ n < 3 \/ n > 2
  <2>1. /\ frames[1] = IF tfm_secure_api_init THEN 1 ELSE 0
        /\ \A i \in 2 .. n : frames[i] \in User
    BY DEF CallInv, ChainMatches, TFM_SP_CORE_ID, TFM_SP_NON_SECURE_ID
  <2>2. tfm_secure_api_init => n <= 2 /\ frames[2] = idx
    BY <1>0 DEF CallInv, StartUp
  <2>3. CASE n < 3
    <3>1. /\ \A i \in Nat : i >= 1 /\ i < 2 => frames[i] = frames[1]
          /\ \A i \in Nat : i > 1 /\ i < 3 => frames[i] = frames[2]
      OBVIOUS
    <3>2. caller = frames[1] /\ current = frames[2]
      BY <1>0, <2>3, <3>1
    <3>3. caller = IF tfm_secure_api_init THEN 1 ELSE 0
      BY <2>1, <3>2
    <3> QED
      BY <2>2, <2>3, <3>2, <3>3, OwnerFacts
  <2>4. CASE n > 2
    <3>1. n - 1 \in 2 .. n
      BY <1>0, <2>4
    <3>2. ~tfm_secure_api_init /\ ~(n < 3)
      BY <1>0, <2>2, <2>4
    <3> QED
      BY <2>1, <2>4, <3>1, <3>2
  <2> QED
    BY <1>0, <2>3, <2>4
<1>6. tfm_pop_lock(current, caller)
  BY <1>2
<1>7. ChainMatches'
  <2>1. /\ partition_state' = [partition_state EXCEPT ![current] = "IDLE", ![caller] = "RUNNING"]
        /\ caller_partition_idx' = [caller_partition_idx EXCEPT
                                        ![current] = SPM_INVALID_PARTITION_IDX]
        /\ running_partition_idx' = caller
        /\ tfm_secure_lock' = tfm_secure_lock - 1
    BY <1>6 DEF tfm_pop_lock
  <2>2. partition_state \in [Partitions -> States] /\ DOMAIN caller_partition_idx = Partitions
    BY DEF CallInv, TypeOK
  <2>3. running_partition_idx' = frames'[n - 1] /\ tfm_secure_lock' = n - 2
    <3>1. tfm_secure_lock = n - 1
      BY DEF CallInv, ChainMatches
    <3>2. n - 1 \in 1 .. (n - 1)
      BY <1>0
    <3>3. frames'[n - 1] = caller
      BY <1>1, <3>2
    <3> QED
      BY <1>0, <2>1, <3>1, <3>3
  <2>4. frames'[1] = IF tfm_secure_api_init' THEN TFM_SP_CORE_ID ELSE TFM_SP_NON_SECURE_ID
    BY <1>0, <1>1, <1>4 DEF CallInv, ChainMatches
  <2>5. \A i \in 2 .. (n - 1) : /\ frames'[i] \in User
                                /\ caller_partition_idx'[frames'[i]] = frames'[i - 1]
    <3>1. \A i \in 2 .. (n - 1) : frames'[i] \in User /\ caller_partition_idx[frames[i]] = frames'[i - 1]
      <4>1. \A i \in 2 .. n : frames[i] \in User /\ caller_partition_idx[frames[i]] = frames[i - 1]
        BY DEF CallInv, ChainMatches
      <4>2. ASSUME NEW i \in 2 .. (n - 1)
            PROVE  i \in 2 .. n /\ i \in 1 .. (n - 1) /\ i - 1 \in 1 .. (n - 1)
        BY <1>0
      <4> QED
        BY <1>1, <4>1, <4>2
    <3>2. \A i \in 2 .. (n - 1) : caller_partition_idx'[frames[i]] = caller_partition_idx[frames[i]]
      BY <1>0, <1>1, <1>3, <2>1, <2>2
    <3>3. \A i \in 2 .. (n - 1) : frames'[i] = frames[i]
      BY <1>0, <1>1
    <3> QED
      BY <3>1, <3>2, <3>3
  <2>6. \A i, j \in 1 .. (n - 1) : frames'[i] = frames'[j] => i = j
    BY <1>0, <1>1, <1>2
  <2>7. \A i \in 1 .. (n - 2) : partition_state'[frames'[i]] = "BLOCKED"
    <3>1. \A i \in 1 .. (n - 1) : partition_state[frames[i]] = "BLOCKED"
      BY DEF CallInv, ChainMatches
    <3> QED
      BY <1>0, <1>1, <1>3, <2>1, <2>2, <3>1
  <2>8. partition_state'[frames'[n - 1]] = "RUNNING"
    BY <1>0, <1>1, <1>2, <2>1, <2>2
  <2>9. \A q \in Partitions : partition_state'[q] \in {"RUNNING", "BLOCKED"} =>
                                \E i \in 1 .. (n - 1) : frames'[i] = q
    <3>1. \A q \in Partitions : partition_state[q] \in {"RUNNING", "BLOCKED"} =>
                                \E i \in 1 .. n : frames[i] = q
      BY DEF CallInv, ChainMatches
    <3>2. \A q \in Partitions : q # current /\ q # caller => partition_state'[q] = partition_state[q]
      BY <2>1, <2>2
    <3>3. partition_state'[current] = "IDLE"
      BY <1>2, <1>3, <2>1, <2>2
    <3> QED
      BY <1>0, <1>1, <3>1, <3>2, <3>3
  <2> QED
    <3>1. Len(frames') = n - 1 /\ Len(frames') - 1 = n - 2
      BY <1>0, <1>1
    <3>2. /\ running_partition_idx' = frames'[Len(frames')]
          /\ tfm_secure_lock' = Len(frames') - 1
          /\ partition_state'[frames'[Len(frames')]] = "RUNNING"
      BY <2>3, <2>8, <3>1
    <3>3. \A i \in 2 .. Len(frames') : /\ frames'[i] \in User
                                       /\ caller_partition_idx'[frames'[i]] = frames'[i - 1]
      BY <2>5, <3>1
    <3>4. \A i, j \in 1 .. Len(frames') : frames'[i] = frames'[j] => i = j
      BY <2>6, <3>1
    <3>5. \A i \in 1 .. (Len(frames') - 1) : partition_state'[frames'[i]] = "BLOCKED"
      BY <2>7, <3>1
    <3>6. \A q \in Partitions : partition_state'[q] \in {"RUNNING", "BLOCKED"} =>
                                  \E i \in 1 .. Len(frames') : frames'[i] = q
      BY <2>9, <3>1
    <3> QED
      BY <2>4, <3>2, <3>3, <3>4, <3>5, <3>6 DEF ChainMatches
<1>8. /\ share \in [Partitions -> Shares \cup {NoShare}]
      /\ share' = [share EXCEPT ![current] = NoShare]
      /\ \A i \in 2 .. n : share[frames[i]] \in Shares
  BY <1>6 DEF CallInv, TypeOK, SharesKept, tfm_pop_lock
<1>9. SharesKept'
  <2>1. \A i \in 2 .. (n - 1) : share'[frames'[i]] = share[frames[i]] /\ i \in 2 .. n
    <3> SUFFICES ASSUME NEW i \in 2 .. (n - 1)
                 PROVE  share'[frames'[i]] = share[frames[i]] /\ i \in 2 .. n
      OBVIOUS
    <3>1. i \in 2 .. n /\ i \in 1 .. (n - 1) /\ i \in 1 .. n
      BY <1>0
    <3>2. frames'[i] = frames[i] /\ frames[i] # current /\ frames[i] \in Partitions
      BY <1>1, <1>3, <3>1
    <3> QED
      BY <1>8, <3>1, <3>2
  <2>2. \A i \in 2 .. (n - 1) : share'[frames'[i]] \in Shares
    BY <1>8, <2>1
  <2> QED
    BY <1>1, <2>2 DEF SharesKept
<1>10. Isolated'
  <2> SUFFICES ASSUME level # 1 PROVE Isolated'
    BY <1>4 DEF Isolated
  <2>1. CASE n > 2
    <3>1. caller \in User /\ ~tfm_secure_api_init /\ Secure(caller) /\ caller # 0
      BY <1>0, <1>5, <2>1, OwnerFacts DEF Secure, TFM_SP_NON_SECURE_ID
    <3>2. share'[caller] = share[caller] /\ share[caller] \in Shares
      BY <1>0, <1>1, <1>2, <1>3, <1>8, <2>1
    <3>3. mpu' = [owner |-> caller, share |-> share[caller]]
      BY <1>6, <3>1 DEF tfm_pop_lock, Sandbox
    <3>4. nPRIV'
      BY <1>6, <3>1 DEF tfm_pop_lock, CallInv, Isolated
    <3> QED
      BY <1>4, <3>1, <3>2, <3>3, <3>4 DEF Isolated, TFM_SP_NON_SECURE_ID
  <2>2. CASE n < 3 /\ tfm_secure_api_init
    BY <1>4, <1>5, <2>2 DEF Isolated, TFM_SP_NON_SECURE_ID
  <2>3. CASE n < 3 /\ ~tfm_secure_api_init
    <3>1. caller = 0 /\ caller \notin User
      BY <1>5, <2>3
    <3>2. mpu' = [owner |-> caller, share |-> NoShare]
      BY <1>6, <2>3, <3>1 DEF tfm_pop_lock, Sandbox, Secure, TFM_SP_NON_SECURE_ID
    <3>3. nPRIV'
      BY <1>6, <2>3 DEF tfm_pop_lock, CallInv, Isolated
    <3> QED
      BY <1>4, <3>1, <3>2, <3>3 DEF Isolated
  <2> QED
    BY <1>4, <1>5, <2>1, <2>2, <2>3
<1>11. /\ stack_ptr \in [Partitions -> Stacks] /\ orig_psp \in [Partitions -> Stacks]
       /\ orig_psp' = [orig_psp EXCEPT ![current] = Top(Nobody)]
       /\ stack_ptr' = IF level # 1
                       THEN [stack_ptr EXCEPT ![current] = StackAfterReturn(psp)]
                       ELSE stack_ptr
       /\ psp = IF level = 1 THEN SharedStack ELSE Top(current)
  BY <1>4, <1>6 DEF CallInv, TypeOK, StacksBalanced, tfm_pop_lock
<1>12. /\ psp' = IF caller \notin User THEN MainStack
                 ELSE IF level = 1 THEN SharedStack ELSE Top(caller)
  <2>1. CASE n > 2
    <3>1. caller \in User /\ ~tfm_secure_api_init /\ Secure(caller)
      BY <1>0, <1>5, <2>1, OwnerFacts DEF Secure, TFM_SP_NON_SECURE_ID
    <3>2. CASE level = 1
      BY <1>6, <1>11, <3>1, <3>2 DEF tfm_pop_lock, ViaSvc
    <3>3. CASE level # 1
      <4>1. orig_psp[current] = Pushed(Top(caller))
        <5>1. \A i \in 2 .. n : i > 2 /\ level # 1 => orig_psp[frames[i]] = Pushed(Top(frames[i - 1]))
          BY DEF CallInv, StacksKept
        <5>2. n \in 2 .. n
          BY <1>0
        <5> QED
          BY <2>1, <3>3, <5>1, <5>2
      <4>2. Popped(Pushed(Top(caller))) = Top(caller)
        BY <1>2, StackFacts, OwnerFacts
      <4> QED
        BY <1>6, <3>1, <3>3, <4>1, <4>2 DEF tfm_pop_lock, ViaSvc
    <3> QED
      BY <3>2, <3>3
  <2>2. CASE n < 3
    <3>1. /\ \A i \in Nat : i > 1 /\ i < 3 => frames[i] = frames[2]
          /\ 2 \in 2 .. n
      BY <1>0
    <3>2. orig_psp[current] = IF tfm_secure_api_init THEN Pushed(MainStack) ELSE MainStack
      BY <1>0, <2>2, <3>1 DEF CallInv, StacksKept
    <3>3. Popped(Pushed(MainStack)) = MainStack
      BY StackFacts, OwnerFacts DEF MainStack
    <3>4. caller \notin User /\ (Secure(caller) <=> tfm_secure_api_init)
      BY <1>5, <2>2 DEF Secure, TFM_SP_NON_SECURE_ID
    <3>5. CASE tfm_secure_api_init
      BY <1>6, <3>2, <3>3, <3>4, <3>5 DEF tfm_pop_lock, ViaSvc
    <3>6. CASE ~tfm_secure_api_init
      BY <1>6, <3>2, <3>4, <3>6 DEF tfm_pop_lock
    <3> QED
      BY <3>5, <3>6
  <2> QED
    BY <1>5, <2>1, <2>2
<1>13. level # 1 => StackAfterReturn(psp) = Top(current)
  BY <1>2, <1>11, StackFacts, OwnerFacts DEF StackAfterReturn
<1>14. StacksBalanced'
  <2>1. ASSUME NEW q \in User, \A i \in 1 .. (n - 1) : frames'[i] # q
        PROVE  stack_ptr'[q] = Top(q)
    <3>1. CASE level = 1
      BY <1>11, <3>1 DEF CallInv, StacksKept
    <3>2. CASE level # 1 /\ q = current
      BY <1>2, <1>11, <1>13, <3>2
    <3>3. CASE level # 1 /\ q # current
      <4>1. \A i \in 1 .. n : frames[i] # q
        BY <1>0, <1>1, <2>1, <3>3
      <4> QED
        BY <1>11, <3>3, <4>1, OwnerFacts DEF CallInv, StacksBalanced
    <3> QED
      BY <3>1, <3>2, <3>3
  <2> QED
    BY <1>1, <1>4, <1>12, <2>1 DEF StacksBalanced
<1>15. StacksKept'
  <2>1. \A i \in 2 .. (n - 1) : /\ orig_psp'[frames'[i]] = orig_psp[frames[i]]
                                /\ frames'[i - 1] = frames[i - 1] /\ i \in 2 .. n
    BY <1>0, <1>1, <1>3, <1>11
  <2>2. \A i \in 2 .. n :
          /\ i = 2 => orig_psp[frames[i]] = IF tfm_secure_api_init THEN Pushed(MainStack)
                                            ELSE MainStack
          /\ i > 2 /\ level # 1 => orig_psp[frames[i]] = Pushed(Top(frames[i - 1]))
    BY DEF CallInv, StacksKept
  <2>3. \A i \in 2 .. (n - 1) :
          /\ i = 2 => orig_psp'[frames'[i]] = IF tfm_secure_api_init THEN Pushed(MainStack)
                                              ELSE MainStack
          /\ i > 2 /\ level # 1 => orig_psp'[frames'[i]] = Pushed(Top(frames'[i - 1]))
    BY <2>1, <2>2
  <2>4. level = 1 => \A q \in User : stack_ptr'[q] = Top(q)
    BY <1>11 DEF CallInv, StacksKept
  <2>5. \A i \in 2 .. Len(frames') :
          /\ i = 2 => orig_psp'[frames'[i]] = IF tfm_secure_api_init' THEN Pushed(MainStack)
                                              ELSE MainStack
          /\ i > 2 /\ level' # 1 => orig_psp'[frames'[i]] = Pushed(Top(frames'[i - 1]))
    BY <1>1, <1>4, <2>3
  <2> QED
    BY <1>4, <2>4, <2>5 DEF StacksKept
<1>16. StartUp'
  <2> SUFFICES ASSUME tfm_secure_api_init PROVE StartUp'
    BY <1>4 DEF StartUp
  <2>1. ~pris' /\ Len(frames') <= 2 /\ ~(Len(frames') > 1) /\ ret' # "none"
    BY <1>0, <1>1, <1>5 DEF CallInv, StartUp, Values
  <2>2. mpu' = NoSandbox
    BY <1>6 DEF CallInv, StartUp, tfm_pop_lock, Sandbox, NoSandbox
  <2>3. ASSUME NEW q \in User, q > idx PROVE partition_state'[q] = "UNINIT"
    <3>1. partition_state[q] = "UNINIT" /\ q # current /\ q # caller /\ q \in Partitions
      BY <1>5, <2>3, OwnerFacts DEF CallInv, StartUp, TypeOK
    <3> QED
      BY <1>6, <3>1 DEF CallInv, TypeOK, tfm_pop_lock
  <2> QED
    BY <1>4, <2>1, <2>2, <2>3 DEF StartUp, NoSandbox, NoShare, Nobody, SPM_INVALID_PARTITION_IDX
<1>17. HeldOff'
  BY <1>0, <1>4 DEF CallInv, HeldOff
<1>18. TypeOK'
  <2>1. psp' \in Stacks
    BY <1>2, <1>12, StackFacts, OwnerFacts DEF SharedStack, MainStack
  <2>2. /\ stack_ptr' \in [Partitions -> Stacks] /\ orig_psp' \in [Partitions -> Stacks]
        /\ share' \in [Partitions -> Shares \cup {NoShare}]
    BY <1>2, <1>8, <1>11, <1>13, StackFacts, OwnerFacts DEF Nobody, SPM_INVALID_PARTITION_IDX
  <2>3. mpu' \in [owner : Partitions \cup {Nobody}, share : Shares \cup {NoShare}]
    <3> DEFINE region == IF Secure(caller) THEN share[caller] ELSE NoShare
    <3>1. mpu' \in {mpu, [owner |-> Nobody, share |-> NoShare], [owner |-> caller, share |-> region]}
      BY <1>2, <1>6 DEF tfm_pop_lock, Sandbox
    <3>2. region \in Shares \cup {NoShare}
      BY <1>2, <1>8
    <3>3. mpu \in [owner : Partitions \cup {Nobody}, share : Shares \cup {NoShare}]
      BY DEF CallInv, TypeOK
    <3> HIDE DEF region
    <3> QED
      BY <1>2, <3>1, <3>2, <3>3
  <2>4. nPRIV' \in BOOLEAN /\ pris' \in BOOLEAN /\ tfm_secure_api_init' \in BOOLEAN
    BY <1>6 DEF CallInv, TypeOK, tfm_pop_lock
  <2>5. /\ partition_state' \in [Partitions -> States]
        /\ caller_partition_idx' \in [Partitions -> Partitions \cup {Nobody}]
    BY <1>2, <1>6 DEF CallInv, TypeOK, tfm_pop_lock, States, Nobody
  <2>6. running_partition_idx' \in Partitions /\ tfm_secure_lock' \in Nat
    <3>1. tfm_secure_lock = n - 1
      BY DEF CallInv, ChainMatches
    <3>2. running_partition_idx' = caller /\ tfm_secure_lock' = tfm_secure_lock - 1
      BY <1>6 DEF tfm_pop_lock
    <3> QED
      BY <1>0, <1>2, <3>1, <3>2
  <2>7. Len(frames') >= 1
    BY <1>0, <1>1
  <2> QED
    BY <1>1, <2>1, <2>2, <2>3, <2>4, <2>5, <2>6, <2>7 DEF CallInv, TypeOK
<1>19. ret' # "SECURE_DOMAIN_LOCKED"
  BY DEF Values
<1> QED
  BY <1>7, <1>9, <1>10, <1>14, <1>15, <1>16, <1>17, <1>18, <1>19 DEF CallInv
------------------------------------------------------------------------------
(* A step that leaves the processor and the database alone keeps the        *)
(* invariant.                                                               *)
LEMMA SameInv ==
    ASSUME CallInv,
           UNCHANGED <<level, processor, database, tfm_secure_lock, tfm_secure_api_init, idx>>,
           ret' = ret \/ ret' \notin {"none", "SECURE_DOMAIN_LOCKED"},
           halted' = halted \/ halted' = "reserved"
    PROVE  CallInv'
<1> USE DEF processor, database
<1>1. TypeOK'
  BY DEF CallInv, TypeOK
<1>2. ChainMatches'
  BY DEF CallInv, ChainMatches
<1>3. StartUp'
  BY DEF CallInv, StartUp, NoSandbox, NoShare, Nobody, SPM_INVALID_PARTITION_IDX
<1>4. HeldOff' /\ SharesKept' /\ Isolated'
  BY DEF CallInv, HeldOff, SharesKept, Isolated, Executing
<1>5. StacksBalanced' /\ StacksKept'
  BY DEF CallInv, StacksBalanced, StacksKept, Executing
<1> QED
  BY <1>1, <1>2, <1>3, <1>4, <1>5 DEF CallInv

(* A request keeps the invariant, granted or refused. *)
LEMMA RequestInv ==
    ASSUME CallInv, NEW p \in User, NEW ns_caller \in BOOLEAN, NEW exc_num \in Exceptions,
           ns_caller <=> Executing = 0,
           tfm_secure_api_init => Len(frames) < 2 /\ p = idx /\ partition_state[p] = "UNINIT",
           tfm_core_sfn_request_function(p, ns_caller, exc_num)
    PROVE  CallInv'
<1> DEFINE rules == tfm_core_check_sfn_req_rules(ns_caller, exc_num)
           res == IF rules = "SUCCESS" THEN LockResult(p, ns_caller) ELSE rules
<1>1. CASE res = "SUCCESS"
  <2>1. LockResult(p, ns_caller) = "SUCCESS"
    BY <1>1
  <2> QED
    BY <1>1, <2>1, PushInv DEF tfm_core_sfn_request_function
<1>2. CASE res # "SUCCESS"
  <2>1. LockResult(p, ns_caller) \in {"SECURE_LOCK_FAILED", "SUCCESS", "PARTITION_NON_REENTRANT"}
    BY DEF LockResult
  <2>2. ns_caller => tfm_secure_lock = 0
    <3>1. Executing = 0 => Len(frames) <= 1
      BY FrameFacts, OwnerFacts
    <3> QED
      BY <3>1, FrameFacts DEF CallInv, ChainMatches
  <2>3. rules \in {"INVALID_EXC_MODE", "NS_THREAD_MODE_CALL", "SUCCESS"}
    BY <2>2 DEF tfm_core_check_sfn_req_rules, Exceptions
  <2>4. ret' \notin {"none", "SECURE_DOMAIN_LOCKED"}
    BY <1>2, <2>1, <2>3 DEF tfm_core_sfn_request_function
  <2> QED
    BY <1>2, <2>4, SameInv DEF tfm_core_sfn_request_function
<1> QED
  BY <1>1, <1>2

(* The return of a function keeps the invariant, and finds a caller. *)
LEMMA ReturnInv ==
    ASSUME CallInv, NEW value \in Values, tfm_core_partition_return(value)
    PROVE  CallInv'
<1> DEFINE caller == caller_partition_idx[running_partition_idx]
           direct == ~ViaSvc /\ Len(frames) > 2
<1>1. Executing \in User
  BY DEF tfm_core_partition_return
<1>2. caller # SPM_INVALID_PARTITION_IDX
  <2>1. Len(frames) \in 2 .. Len(frames) /\ Len(frames) - 1 \in 1 .. Len(frames)
    BY <1>1, FrameFacts
  <2>2. caller = frames[Len(frames) - 1]
    BY <2>1 DEF CallInv, ChainMatches
  <2>3. caller \in Partitions
    BY <2>1, <2>2, FrameFacts
  <2> QED
    BY <2>3, CallAssumption DEF Partitions, SPM_INVALID_PARTITION_IDX
<1>3. CASE value = "reserved" /\ ~direct
  BY <1>3, SameInv DEF tfm_core_partition_return, Halt
<1>4. CASE ~(value = "reserved" /\ ~direct)
  BY <1>1, <1>2, <1>4, PopInv DEF tfm_core_partition_return
<1> QED
  BY <1>3, <1>4

(* The choice of the shared region keeps the invariant. *)
LEMMA BufferInv ==
    ASSUME CallInv, NEW request \in Shares \cup {"default"}, tfm_core_set_buffer_area(request)
    PROVE  CallInv'
<1>1. PICK region \in Shares : /\ mpu' = Sandbox(mpu.owner, region)
                              /\ share' = [share EXCEPT ![running_partition_idx] = region]
  BY DEF tfm_core_set_buffer_area, DefaultShare, Shares
<1>2. /\ Executing \in User /\ Executing \in Partitions /\ running_partition_idx = Executing
      /\ Len(frames) > 1 /\ Executing' = Executing /\ Executing # 0
      /\ share \in [Partitions -> Shares \cup {NoShare}]
  BY FrameFacts, OwnerFacts DEF tfm_core_set_buffer_area, Executing, CallInv, TypeOK
<1>3. UNCHANGED <<level, frames, psp, nPRIV, pris, partition_state, caller_partition_idx,
                  stack_ptr, orig_psp, running_partition_idx, tfm_secure_lock,
                  tfm_secure_api_init, idx, halted>> /\ ret' = "none"
  BY DEF tfm_core_set_buffer_area
<1>4. mpu.owner \in Partitions \cup {Nobody}
  BY DEF CallInv, TypeOK
<1>5. TypeOK'
  <2>1. mpu' \in [owner : Partitions \cup {Nobody}, share : Shares \cup {NoShare}]
    BY <1>1, <1>4 DEF CallInv, TypeOK, Sandbox
  <2>2. share' \in [Partitions -> Shares \cup {NoShare}]
    BY <1>1, <1>2
  <2> QED
    BY <1>3, <2>1, <2>2 DEF CallInv, TypeOK
<1>6. ChainMatches'
  BY <1>3 DEF CallInv, ChainMatches
<1>7. StartUp'
  <2>1. level = 1 => mpu' = mpu
    BY <1>1 DEF Sandbox
  <2>2. ~(Len(frames) < 2)
    BY <1>2, FrameFacts
  <2> QED
    BY <1>3, <2>1, <2>2 DEF CallInv, StartUp, NoSandbox, NoShare, Nobody, SPM_INVALID_PARTITION_IDX
<1>8. HeldOff'
  BY <1>3 DEF CallInv, HeldOff
<1>9. SharesKept'
  <2>1. \A i \in 2 .. Len(frames) : frames[i] \in Partitions /\ share[frames[i]] \in Shares
    BY FrameFacts DEF CallInv, SharesKept
  <2> QED
    BY <1>1, <1>2, <1>3, <2>1 DEF SharesKept
<1>10. Isolated'
  <2>1. level # 1 => mpu' = [owner |-> Executing, share |-> region]
    BY <1>1, <1>2 DEF CallInv, Isolated, Sandbox
  <2>2. share'[Executing] = region
    BY <1>1, <1>2
  <2> QED
    BY <1>2, <1>3, <2>1, <2>2 DEF CallInv, Isolated, TFM_SP_NON_SECURE_ID
<1>11. StacksBalanced' /\ StacksKept'
  BY <1>2, <1>3 DEF CallInv, StacksBalanced, StacksKept
<1> QED
  BY <1>3, <1>5, <1>6, <1>7, <1>8, <1>9, <1>10, <1>11 DEF CallInv

(* The end of a call from the non-secure side keeps the invariant. *)
LEMMA DeconfigureInv ==
    ASSUME CallInv, tfm_core_deconfigure_secure_exception
    PROVE  CallInv'
<1>1. /\ UNCHANGED <<level, frames, psp, nPRIV, mpu, partition_state, caller_partition_idx, share,
                     stack_ptr, orig_psp, running_partition_idx, tfm_secure_lock,
                     tfm_secure_api_init, idx, ret, halted>>
      /\ pris' = FALSE
  BY DEF tfm_core_deconfigure_secure_exception, database
<1>2. ~(Len(frames) > 1)
  BY FrameFacts, OwnerFacts DEF tfm_core_deconfigure_secure_exception, Secure, TFM_SP_NON_SECURE_ID
<1>3. TypeOK'
  BY <1>1 DEF CallInv, TypeOK
<1>4. ChainMatches'
  BY <1>1 DEF CallInv, ChainMatches
<1>5. StartUp'
  BY <1>1 DEF CallInv, StartUp, NoSandbox, NoShare, Nobody, SPM_INVALID_PARTITION_IDX
<1>6. HeldOff'
  BY <1>1, <1>2 DEF HeldOff
<1>7. SharesKept' /\ Isolated'
  BY <1>1 DEF CallInv, SharesKept, Isolated, Executing
<1>8. StacksBalanced' /\ StacksKept'
  BY <1>1 DEF CallInv, StacksBalanced, StacksKept, Executing
<1> QED
  BY <1>1, <1>3, <1>4, <1>5, <1>6, <1>7, <1>8 DEF CallInv

(* The core runs during start-up alone, with nothing below it. *)
LEMMA CoreFacts ==
    ASSUME CallInv, Executing = TFM_SP_CORE_ID
    PROVE  /\ tfm_secure_api_init /\ Len(frames) < 2 /\ mpu = NoSandbox /\ ~pris
           /\ \A i \in 1 .. Len(frames) : frames[i] = 1
           /\ \A p \in Partitions : partition_state[p] \in {"RUNNING", "BLOCKED"} => p = 1
<1>1. Len(frames) < 2 /\ tfm_secure_api_init
  BY FrameFacts, OwnerFacts DEF TFM_SP_CORE_ID
<1>2. \A i \in 1 .. Len(frames) : frames[i] = 1
  BY <1>1, FrameFacts DEF Executing, TFM_SP_CORE_ID
<1>3. \A p \in Partitions : partition_state[p] \in {"RUNNING", "BLOCKED"} => p = 1
  BY <1>2 DEF CallInv, ChainMatches
<1> QED
  BY <1>1, <1>2, <1>3 DEF CallInv, StartUp

(* In the loop of the core, a partition becomes idle and the next one is    *)
(* taken, or the next one is taken: the invariant is kept.                  *)
LEMMA LoopInv ==
    ASSUME CallInv, Executing = TFM_SP_CORE_ID, idx \in Partitions,
           \/ partition_state' = [partition_state EXCEPT ![idx] = "IDLE"]
           \/ partition_state' = partition_state,
           \/ caller_partition_idx' = [caller_partition_idx EXCEPT
                                           ![idx] = SPM_INVALID_PARTITION_IDX]
           \/ caller_partition_idx' = caller_partition_idx,
           idx' = idx + 1,
           ret' = ret \/ ret' = "none",
           UNCHANGED <<level, frames, psp, nPRIV, mpu, pris, share, stack_ptr, orig_psp,
                       running_partition_idx, tfm_secure_lock, tfm_secure_api_init, halted>>
    PROVE  CallInv'
<1>1. /\ partition_state' \in [Partitions -> States]
      /\ caller_partition_idx' \in [Partitions -> Partitions \cup {Nobody}]
      /\ \A p \in Partitions : p # idx => partition_state'[p] = partition_state[p]
      /\ partition_state'[idx] \in {"IDLE", partition_state[idx]}
  BY DEF CallInv, TypeOK, States, Nobody
<1>2. idx' \in 0 .. PartitionCount /\ idx \in Int
  BY CallAssumption DEF Partitions
<1>3. TypeOK'
  BY <1>1, <1>2 DEF CallInv, TypeOK
<1>4. ChainMatches'
  <2>1. /\ Len(frames) < 2 /\ Len(frames) \in Nat
        /\ \A i \in 1 .. Len(frames) : frames[i] = 1
        /\ frames[Len(frames)] = 1
    BY CoreFacts, FrameFacts DEF Executing, TFM_SP_CORE_ID
  <2>2. \A i \in 2 .. Len(frames) : FALSE
    BY <2>1
  <2>3. \A i \in 1 .. (Len(frames) - 1) : FALSE
    BY <2>1
  <2>4. \A p \in Partitions : partition_state'[p] \in {"RUNNING", "BLOCKED"} =>
                                \E i \in 1 .. Len(frames) : frames[i] = p
    BY <1>1 DEF CallInv, ChainMatches
  <2> QED
    BY <2>1, <2>2, <2>3, <2>4 DEF CallInv, ChainMatches, TFM_SP_CORE_ID
<1>5. StartUp'
  <2>1. ASSUME NEW p \in User, p > idx' \/ p = idx' PROVE partition_state'[p] = "UNINIT"
    <3>1. p > idx /\ p # idx /\ p \in Partitions
      BY <1>2, <2>1, OwnerFacts DEF User
    <3> QED
      BY <1>1, <3>1, CoreFacts DEF CallInv, StartUp
  <2>2. Len(frames') < 2 /\ mpu' = NoSandbox /\ ~pris' /\ Len(frames') <= 2 /\ ~(Len(frames') > 1)
    BY CoreFacts, FrameFacts
  <2> QED
    BY <2>1, <2>2 DEF StartUp, NoSandbox, NoShare, Nobody, SPM_INVALID_PARTITION_IDX
<1>6. HeldOff' /\ SharesKept' /\ Isolated'
  BY DEF CallInv, HeldOff, SharesKept, Isolated, Executing
<1>7. StacksBalanced' /\ StacksKept'
  BY DEF CallInv, StacksBalanced, StacksKept, Executing
<1> QED
  BY <1>3, <1>4, <1>5, <1>6, <1>7 DEF CallInv

(* The end of start-up keeps the invariant. *)
LEMMA JumpInv ==
    ASSUME CallInv, jump_to_ns_code
    PROVE  CallInv'
<1>1. /\ partition_state' = [partition_state EXCEPT ![1] = "CLOSED", ![0] = "RUNNING"]
      /\ running_partition_idx' = 0 /\ frames' = <<0>> /\ tfm_secure_api_init' = FALSE
      /\ mpu' = Sandbox(0, mpu.share) /\ nPRIV' = (nPRIV \/ level # 1)
      /\ UNCHANGED <<level, psp, pris, caller_partition_idx, share, stack_ptr, orig_psp,
                     tfm_secure_lock, idx, ret, halted>>
  BY DEF jump_to_ns_code, TFM_SP_CORE_ID, TFM_SP_NON_SECURE_ID
<1>2. /\ 0 \in Partitions /\ 1 \in Partitions /\ 0 \notin User /\ 1 \notin User
      /\ partition_state \in [Partitions -> States]
  BY OwnerFacts DEF CallInv, TypeOK
<1>3. /\ frames' \in Seq(Partitions) /\ Len(frames') = 1 /\ frames'[1] = 0 /\ Executing' = 0
  BY <1>1, <1>2 DEF Executing
<1>4. /\ mpu = NoSandbox /\ ~pris /\ Len(frames) < 2
      /\ \A i \in 1 .. Len(frames) : frames[i] = 1
      /\ \A p \in Partitions : partition_state[p] \in {"RUNNING", "BLOCKED"} => p = 1
  BY CoreFacts DEF jump_to_ns_code
<1>5. mpu' = IF level # 1 THEN [owner |-> 0, share |-> NoShare] ELSE mpu
  BY <1>1, <1>4 DEF Sandbox, NoSandbox
<1>6. TypeOK'
  <2>1. mpu' \in [owner : Partitions \cup {Nobody}, share : Shares \cup {NoShare}]
    BY <1>2, <1>5 DEF CallInv, TypeOK
  <2>2. nPRIV' \in BOOLEAN /\ tfm_secure_api_init' \in BOOLEAN
    BY <1>1 DEF CallInv, TypeOK
  <2>3. partition_state' \in [Partitions -> States]
    BY <1>1, <1>2 DEF States
  <2> QED
    <3>1. /\ level \in Levels /\ psp \in Stacks /\ pris \in BOOLEAN
          /\ caller_partition_idx \in [Partitions -> Partitions \cup {Nobody}]
          /\ share \in [Partitions -> Shares \cup {NoShare}]
          /\ stack_ptr \in [Partitions -> Stacks] /\ orig_psp \in [Partitions -> Stacks]
          /\ tfm_secure_lock \in Nat /\ idx \in 0 .. PartitionCount
          /\ halted \in {"no", "reserved", "unlock"}
      BY DEF CallInv, TypeOK
    <3>2. /\ UNCHANGED <<level, psp, pris, caller_partition_idx, share, stack_ptr, orig_psp,
                          tfm_secure_lock, idx, halted>>
          /\ running_partition_idx' \in Partitions
          /\ frames' \in Seq(Partitions) /\ Len(frames') >= 1
      BY <1>1, <1>2, <1>3
    <3> QED
      BY <2>1, <2>2, <2>3, <3>1, <3>2 DEF TypeOK
<1>7. ChainMatches'
  <2>1. tfm_secure_lock = 0
    <3>1. tfm_secure_lock = Len(frames) - 1
      BY DEF CallInv, ChainMatches
    <3> QED
      BY <1>4, <3>1, FrameFacts
  <2>2. partition_state'[0] = "RUNNING"
    BY <1>1, <1>2
  <2>3. \A p \in Partitions : partition_state'[p] \in {"RUNNING", "BLOCKED"} => p = 0
    BY <1>1, <1>2, <1>4
  <2>4. /\ \A i \in 2 .. Len(frames') : FALSE
        /\ \A i \in 1 .. (Len(frames') - 1) : FALSE
        /\ \A i, j \in 1 .. Len(frames') : i = j
        /\ \E i \in 1 .. Len(frames') : frames'[i] = 0
        /\ frames'[Len(frames')] = 0 /\ tfm_secure_lock' = Len(frames') - 1
    BY <1>1, <1>3, <2>1
  <2> QED
    BY <1>1, <1>3, <2>2, <2>3, <2>4 DEF ChainMatches, TFM_SP_NON_SECURE_ID, TFM_SP_CORE_ID
<1>8. StartUp'
  BY <1>1 DEF StartUp
<1>9. HeldOff' /\ SharesKept'
  BY <1>3 DEF HeldOff, SharesKept
<1>10. Isolated'
  BY <1>1, <1>2, <1>3, <1>5 DEF Isolated, TFM_SP_NON_SECURE_ID
<1>11. StacksBalanced' /\ StacksKept'
  <2>1. psp = MainStack /\ \A p \in User : stack_ptr[p] = Top(p)
    <3>1. Executing = 1
      BY DEF jump_to_ns_code, TFM_SP_CORE_ID
    <3>2. \A p \in User : \A i \in 1 .. Len(frames) : frames[i] # p
      BY <1>2, <1>4
    <3> QED
      BY <1>2, <3>1, <3>2 DEF CallInv, StacksBalanced
  <2> QED
    <3>1. psp' = MainStack /\ stack_ptr' = stack_ptr
      BY <1>1, <2>1
    <3>2. StacksBalanced'
      BY <1>2, <1>3, <2>1, <3>1 DEF StacksBalanced
    <3>3. \A i \in 2 .. Len(frames') : FALSE
      BY <1>3
    <3>4. StacksKept'
      BY <2>1, <3>1, <3>3 DEF StacksKept
    <3> QED
      BY <3>2, <3>4
<1> QED
  BY <1>1, <1>6, <1>7, <1>8, <1>9, <1>10, <1>11 DEF CallInv

(* Every step keeps the invariant. *)
LEMMA StepInv == CallInv /\ [Next]_vars => CallInv'
<1> SUFFICES ASSUME CallInv, [Next]_vars PROVE CallInv'
  OBVIOUS
<1>1. CASE UNCHANGED vars
  BY <1>1, SameInv DEF vars
<1>2. ASSUME tfm_spm_partition_init PROVE CallInv'
  <2>1. Executing = TFM_SP_CORE_ID
    BY <1>2 DEF tfm_spm_partition_init
  <2>2. CASE InitWithout
    BY <2>1, <2>2, LoopInv DEF InitWithout, processor
  <2>3. CASE InitResult
    <3>1. idx \in Partitions
      BY <2>3, CallAssumption, OwnerFacts DEF InitResult
    <3> QED
      BY <2>1, <2>3, <3>1, LoopInv DEF InitResult, processor
  <2>4. CASE InitCallee
    <3>1. /\ idx \in User /\ ret = "none"
          /\ tfm_core_sfn_request_function(idx, FALSE, "THREAD_MODE")
      BY <2>4, CallAssumption DEF InitCallee
    <3>2. Len(frames) < 2 /\ tfm_secure_api_init
      BY <2>1, CoreFacts
    <3>3. partition_state[idx] = "UNINIT"
      BY <3>1, <3>2 DEF CallInv, StartUp
    <3>4. Executing # 0 /\ "THREAD_MODE" \in Exceptions
      BY <2>1 DEF TFM_SP_CORE_ID, Exceptions
    <3> QED
      BY <3>1, <3>2, <3>3, <3>4, RequestInv
  <2> QED
    BY <1>2, <2>2, <2>3, <2>4 DEF tfm_spm_partition_init
<1>3. ASSUME NEW p \in User, PartitionCall(p) PROVE CallInv'
  <2>1. /\ Executing # 0 /\ ~tfm_secure_api_init /\ "THREAD_MODE" \in Exceptions
        /\ tfm_core_sfn_request_function(p, FALSE, "THREAD_MODE")
    BY <1>3, OwnerFacts DEF PartitionCall, Exceptions
  <2> QED
    BY <2>1, RequestInv
<1>4. ASSUME NEW p \in User, NEW exc_num \in Exceptions, NonSecureCall(p, exc_num) PROVE CallInv'
  <2>1. ~tfm_secure_api_init /\ ~pris /\ tfm_core_sfn_request_function(p, TRUE, exc_num)
    BY <1>4 DEF NonSecureCall, NonSecure
  <2>2. Executing = 0
    BY <2>1, FrameFacts DEF CallInv, HeldOff
  <2> QED
    BY <2>1, <2>2, RequestInv
<1> QED
  BY <1>1, <1>2, <1>3, <1>4, JumpInv, BufferInv, ReturnInv, DeconfigureInv DEF Next, SecureStep
------------------------------------------------------------------------------
(* The invariant holds in every reachable state. *)
THEOREM CallSafety == Spec => []CallInv
  BY InitInv, StepInv, PTL DEF Spec

(* The database of partitions matches what runs. *)
THEOREM ChainHolds == Spec => []ChainMatches
<1>1. CallInv => ChainMatches
  BY DEF CallInv
<1> QED
  BY <1>1, CallSafety, PTL

(* The core never meets what it takes for corruption: a call that finds the *)
(* secure side locked, a caller of the wrong kind, a return without caller. *)
THEOREM NoAnomalyHolds == Spec => []NoAnomaly
<1>1. CallInv => NoAnomaly
  BY FrameFacts DEF CallInv, NoAnomaly
<1> QED
  BY <1>1, CallSafety, PTL

(* The memory that is open is that of whoever runs. *)
THEOREM IsolationHolds == Spec => []Isolated
<1>1. CallInv => Isolated
  BY DEF CallInv
<1> QED
  BY <1>1, CallSafety, PTL

(* Functions run on the right stack and leave it as they found it. *)
THEOREM StacksHold == Spec => []StacksBalanced
<1>1. CallInv => StacksBalanced
  BY DEF CallInv
<1> QED
  BY <1>1, CallSafety, PTL
==============================================================================
