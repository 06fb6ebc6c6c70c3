------------------------- MODULE SSTMetaSwapProofs -------------------------
(***************************************************************************)
(* Proofs about the update protocol of SSTMetaSwap, for every set of       *)
(* contents and every roll-over point of the swap count, the 255 of the    *)
(* code among them.                                                        *)
(***************************************************************************)
EXTENDS SSTMetaSwap, TLAPS

(* The swap count after an update is another valid count, and of a block   *)
(* and the one written right after it sst_meta_latest_meta_block picks the *)
(* later one, also when the count rolled over in between.                  *)
LEMMA SwapCountFacts ==
    ASSUME NEW c \in SwapCounts
    PROVE  /\ NextSwapCount(c) \in SwapCounts
           /\ NextSwapCount(c) # c
           /\ sst_meta_latest_meta_block(c, NextSwapCount(c)) = SST_METADATA_BLOCK1
           /\ sst_meta_latest_meta_block(NextSwapCount(c), c) = SST_METADATA_BLOCK0
BY DefaultValAssumption DEF SwapCounts, NextSwapCount, sst_meta_validate_swap_count,
   sst_meta_latest_meta_block, SST_METADATA_BLOCK0, SST_METADATA_BLOCK1

(* What sst_init_get_active_metablock returns: a valid block if there is   *)
(* one, the only valid one if there is only one.                           *)
LEMMA ActiveFacts ==
    ASSUME NEW valid \in SUBSET MetaBlocks, NEW count
    PROVE  LET c == sst_init_get_active_metablock(valid, count)
           IN  /\ c \in MetaBlocks \cup {NoMetaBlock}
               /\ c = NoMetaBlock <=> valid = {}
               /\ c # NoMetaBlock => c \in valid
               /\ \A b \in valid : SST_OTHER_META_BLOCK(b) \notin valid => c = b
BY DEF sst_init_get_active_metablock, sst_meta_latest_meta_block, MetaBlocks,
   SST_METADATA_BLOCK0, SST_METADATA_BLOCK1, NoMetaBlock, SST_OTHER_META_BLOCK

(* When both blocks are valid and b was written right after the other one, *)
(* b is the one that is returned.                                          *)
LEMMA ActiveIsSuccessor ==
    ASSUME NEW count \in [MetaBlocks -> SwapCounts \cup {SST_FLASH_DEFAULT_VAL}],
           NEW b \in MetaBlocks,
           count[SST_OTHER_META_BLOCK(b)] \in SwapCounts,
           count[b] = NextSwapCount(count[SST_OTHER_META_BLOCK(b)])
    PROVE  sst_init_get_active_metablock(MetaBlocks, count) = b
<1>1. CASE b = SST_METADATA_BLOCK0
  BY <1>1, SwapCountFacts DEF sst_init_get_active_metablock, MetaBlocks,
     SST_METADATA_BLOCK0, SST_METADATA_BLOCK1, SST_OTHER_META_BLOCK
<1>2. CASE b = SST_METADATA_BLOCK1
  BY <1>2, SwapCountFacts DEF sst_init_get_active_metablock, MetaBlocks,
     SST_METADATA_BLOCK0, SST_METADATA_BLOCK1, SST_OTHER_META_BLOCK
<1>3. QED
  BY <1>1, <1>2 DEF MetaBlocks

(* SST_OTHER_META_BLOCK swaps the two metadata blocks. *)
LEMMA OtherFacts ==
    ASSUME NEW b \in MetaBlocks
    PROVE  /\ SST_OTHER_META_BLOCK(b) \in MetaBlocks
           /\ SST_OTHER_META_BLOCK(b) # b
           /\ SST_OTHER_META_BLOCK(SST_OTHER_META_BLOCK(b)) = b
           /\ MetaBlocks = {b, SST_OTHER_META_BLOCK(b)}
BY DEF MetaBlocks, SST_METADATA_BLOCK0, SST_METADATA_BLOCK1, SST_OTHER_META_BLOCK
-----------------------------------------------------------------------------
(* Every step keeps the types, given the type of the next swap count. *)
LEMMA TypeStep == TypeOK /\ [Next]_vars => TypeOK'
<1> SUFFICES ASSUME TypeOK, [Next]_vars PROVE TypeOK'
  OBVIOUS
<1>1. /\ scratch \in MetaBlocks
      /\ SST_OTHER_META_BLOCK(first) \in MetaBlocks
      /\ SST_METADATA_BLOCK0 \in MetaBlocks
  BY OtherFacts DEF TypeOK, scratch, MetaBlocks
<1>2. ValidBlocks \in SUBSET MetaBlocks
  BY DEF ValidBlocks
<1>3. Chosen \in MetaBlocks \cup {NoMetaBlock}
  BY <1>2, ActiveFacts DEF Chosen
<1>4. NextSwapCount(ram_count) \in SwapCounts /\ 0 \in SwapCounts
  BY SwapCountFacts, DefaultValAssumption DEF TypeOK, SwapCounts
<1> USE DEF TypeOK, Phases, flash, history
<1>5. CASE sst_core_prepare
  <2>1. Chosen \in ValidBlocks
    BY <1>2, <1>5, ActiveFacts DEF Chosen, sst_core_prepare
  <2>2. swap_count[Chosen] \in SwapCounts
    BY <2>1 DEF ValidBlocks, sst_meta_validate_header_meta, sst_meta_validate_swap_count
  <2>3. QED
    BY <1>2, <1>5, <2>1, <2>2 DEF sst_core_prepare
<1>6. CASE BeginUpdate
  BY <1>6 DEF BeginUpdate
<1>7. ASSUME NEW c \in Contents, WriteScratch(c) PROVE TypeOK'
  BY <1>7 DEF WriteScratch
<1>8. CASE WriteHeader
  BY <1>4, <1>8 DEF WriteHeader
<1>9. CASE WriteSwapCount
  BY <1>1, <1>9 DEF WriteSwapCount
<1>10. CASE sst_meta_erase_scratch_blocks
  BY <1>10 DEF sst_meta_erase_scratch_blocks, EraseBlock
<1>11. CASE sst_core_wipe_all
  BY <1>1, <1>3, <1>11, OtherFacts DEF sst_core_wipe_all
<1>12. CASE WipeErase1
  BY <1>12 DEF WipeErase1, EraseBlock
<1>13. CASE WipeErase2
  BY <1>1, <1>4, <1>13 DEF WipeErase2, EraseBlock
<1>14. CASE BodyError \/ HeaderError \/ EraseError \/ PowerFail
  BY <1>1, <1>4, <1>14 DEF BodyError, HeaderError, EraseError, PowerFail
<1>15. CASE UNCHANGED vars
  BY <1>15 DEF vars
<1>16. QED
  BY <1>5, <1>6, <1>7, <1>8, <1>9, <1>10, <1>11, <1>12, <1>13, <1>14, <1>15 DEF Next

(* The device before its first format has the right types. *)
LEMMA TypeInit == Init => TypeOK
<1>1. SST_METADATA_BLOCK0 \in MetaBlocks /\ 0 \in SwapCounts
  BY DefaultValAssumption DEF MetaBlocks, SwapCounts
<1>2. QED
  BY <1>1 DEF Init, TypeOK, Phases

(* Every variable keeps its type, whatever fails. *)
THEOREM TypeCorrect == Spec => []TypeOK
BY TypeInit, TypeStep, PTL DEF Spec
-----------------------------------------------------------------------------
(* What the metadata block a restart chooses is, in the current and in the *)
(* next state.                                                             *)
LEMMA ChosenFacts ==
    /\ Chosen \in MetaBlocks \cup {NoMetaBlock}
    /\ NoMetaBlock \notin MetaBlocks
    /\ Chosen = NoMetaBlock <=> ValidBlocks = {}
    /\ Chosen # NoMetaBlock => Chosen \in ValidBlocks
    /\ \A b \in ValidBlocks : SST_OTHER_META_BLOCK(b) \notin ValidBlocks => Chosen = b
<1>1. ValidBlocks \in SUBSET MetaBlocks
  BY DEF ValidBlocks
<1>2. NoMetaBlock \notin MetaBlocks
  BY DEF NoMetaBlock, MetaBlocks, SST_METADATA_BLOCK0, SST_METADATA_BLOCK1
<1>3. QED
  BY <1>1, <1>2, ActiveFacts DEF Chosen

(* The same of the next state. *)
LEMMA ChosenFactsNext ==
    /\ Chosen' \in MetaBlocks \cup {NoMetaBlock}
    /\ Chosen' = NoMetaBlock <=> ValidBlocks' = {}
    /\ Chosen' # NoMetaBlock => Chosen' \in ValidBlocks'
    /\ \A b \in ValidBlocks' : SST_OTHER_META_BLOCK(b) \notin ValidBlocks' => Chosen' = b
<1>1. ValidBlocks' \in SUBSET MetaBlocks
  BY DEF ValidBlocks
<1>2. QED
  BY <1>1, ActiveFacts DEF Chosen

(* A valid block is one with a swap count, once the count is known to be   *)
(* programmed last.                                                        *)
LEMMA ValidIsCounted ==
    ASSUME CountIsLast
    PROVE  ValidBlocks = {b \in MetaBlocks : swap_count[b] # SST_FLASH_DEFAULT_VAL}
BY DEF CountIsLast, ValidBlocks, sst_meta_validate_header_meta,
   sst_meta_validate_swap_count

(* The same of the next state. *)
LEMMA ValidIsCountedNext ==
    ASSUME CountIsLast'
    PROVE  ValidBlocks' = {b \in MetaBlocks : swap_count'[b] # SST_FLASH_DEFAULT_VAL}
BY DEF CountIsLast, ValidBlocks, sst_meta_validate_header_meta,
   sst_meta_validate_swap_count

(* A step that leaves flash alone changes nothing a restart would see. *)
LEMMA SameFlash ==
    ASSUME UNCHANGED flash
    PROVE  /\ ValidBlocks' = ValidBlocks
           /\ Chosen' = Chosen
           /\ Recovered' = Recovered
           /\ CountIsLast' = CountIsLast
<1>1. ValidBlocks' = ValidBlocks
  BY DEF flash, ValidBlocks, sst_meta_validate_header_meta
<1>2. Chosen' = Chosen
  BY <1>1 DEF Chosen, flash
<1>3. QED
  BY <1>1, <1>2 DEF Recovered, CountIsLast, flash
-----------------------------------------------------------------------------
(* The steps that change RAM only: sst_core_prepare up to its erase, the    *)
(* start of an update or a wipe, failing flash operations, a power failure. *)
LEMMA QuietStep ==
    ASSUME IInv, TypeOK', UNCHANGED flash,
           \/ sst_core_prepare \/ BeginUpdate \/ sst_core_wipe_all
           \/ BodyError \/ HeaderError \/ EraseError \/ PowerFail
           \/ UNCHANGED vars
    PROVE  IInv' /\ RestartStep
<1> SUFFICES IInv'
  BY SameFlash DEF RestartStep
<1> USE SameFlash DEF IInv, flash, history
<1>1. CountIsLast' /\ SwapOrder'
  <2>1. failed = "header" => failed' = "header"
    BY DEF sst_core_prepare, BeginUpdate, sst_core_wipe_all, BodyError, HeaderError,
       EraseError, PowerFail, vars
  <2>2. QED
    BY <2>1 DEF SwapOrder
<1>2. Chosen # NoMetaBlock => body[Chosen] # Blank /\ Chosen \in ValidBlocks
  BY ChosenFacts DEF CountIsLast, ValidBlocks, sst_meta_validate_header_meta
<1>3. CASE sst_core_prepare
  <2>1. Atomic'
    BY <1>3 DEF sst_core_prepare, Atomic, Recovered
  <2>2. PhaseShape'
    BY <1>3 DEF sst_core_prepare, PhaseShape
  <2>3. InUseOK' /\ LostOK'
    BY <1>3 DEF sst_core_prepare, InUseOK, InUse, LostOK
  <2>4. CleanOK' /\ WipeOK'
    BY <1>2, <1>3 DEF sst_core_prepare, CleanOK, WipeOK, PhaseShape
  <2>5. QED
    BY <1>1, <2>1, <2>2, <2>3, <2>4
<1>4. CASE BeginUpdate
  <2>1. Atomic'
    BY <1>4 DEF BeginUpdate, Atomic
  <2>2. PhaseShape'
    BY <1>4 DEF BeginUpdate, PhaseShape, scratch
  <2>3. InUseOK'
    BY <1>4 DEF BeginUpdate, InUseOK, InUse, scratch
  <2>4. LostOK' /\ CleanOK' /\ WipeOK'
    BY <1>4 DEF BeginUpdate, LostOK, CleanOK, WipeOK, PhaseShape, InUse, scratch
  <2>5. QED
    BY <1>1, <2>1, <2>2, <2>3, <2>4
<1>5. CASE sst_core_wipe_all
  <2>1. Atomic'
    BY <1>5, <1>2, ChosenFacts DEF sst_core_wipe_all, Atomic
  <2>2. PhaseShape'
    BY <1>5, <1>2, ChosenFacts DEF sst_core_wipe_all, PhaseShape, scratch
  <2>3. InUseOK'
    BY <1>5, <1>2, ChosenFacts DEF sst_core_wipe_all, InUseOK, InUse, CleanOK, LostOK, WipeOK, PhaseShape, scratch
  <2>4. LostOK' /\ CleanOK' /\ WipeOK'
    BY <1>5, <1>2, ChosenFacts DEF sst_core_wipe_all, LostOK, CleanOK, WipeOK, PhaseShape, InUse, InUseOK, scratch
  <2>5. QED
    BY <1>1, <2>1, <2>2, <2>3, <2>4
<1>6. CASE BodyError
  <2>1. Atomic'
    BY <1>6, ChosenFacts DEF BodyError, Atomic
  <2>2. PhaseShape'
    BY <1>6, ChosenFacts DEF BodyError, PhaseShape, scratch
  <2>3. InUseOK'
    BY <1>6, ChosenFacts DEF BodyError, InUseOK, InUse, CleanOK, LostOK, WipeOK, PhaseShape, scratch
  <2>4. LostOK' /\ CleanOK' /\ WipeOK'
    BY <1>6, ChosenFacts DEF BodyError, LostOK, CleanOK, WipeOK, PhaseShape, InUse, InUseOK, scratch
  <2>5. QED
    BY <1>1, <2>1, <2>2, <2>3, <2>4
<1>7. CASE HeaderError
  <2>1. Atomic'
    BY <1>7 DEF HeaderError, Atomic
  <2>2. PhaseShape'
    BY <1>7 DEF HeaderError, PhaseShape, scratch
  <2>3. InUseOK'
    BY <1>7 DEF HeaderError, InUseOK, InUse, CleanOK, LostOK, WipeOK, PhaseShape, scratch
  <2>4. LostOK' /\ CleanOK' /\ WipeOK'
    BY <1>7 DEF HeaderError, LostOK, CleanOK, WipeOK, PhaseShape, InUse, InUseOK, scratch
  <2>5. QED
    BY <1>1, <2>1, <2>2, <2>3, <2>4
<1>8. CASE EraseError
  <2>0. phase = "clean" => active = Chosen /\ body[active] # Blank
    BY <1>8
       DEF EraseError, CleanOK, CountIsLast, ValidBlocks, sst_meta_validate_header_meta
  <2>1. Atomic'
    BY <1>8 DEF EraseError, Atomic
  <2>2. PhaseShape'
    BY <1>8 DEF EraseError, PhaseShape, scratch
  <2>3. InUseOK'
    BY <1>8, <2>0 DEF EraseError, InUseOK, InUse, CleanOK, LostOK, WipeOK, PhaseShape, scratch
  <2>4. LostOK' /\ CleanOK' /\ WipeOK'
    BY <1>8, <2>0 DEF EraseError, LostOK, CleanOK, WipeOK, PhaseShape, InUse, InUseOK, scratch
  <2>5. QED
    BY <1>1, <2>1, <2>2, <2>3, <2>4
<1>9. CASE PowerFail
  <2>1. Atomic'
    BY <1>9 DEF PowerFail, Atomic
  <2>2. PhaseShape'
    BY <1>9 DEF PowerFail, PhaseShape, scratch
  <2>3. InUseOK'
    BY <1>9 DEF PowerFail, InUseOK, InUse, CleanOK, LostOK, WipeOK, PhaseShape, scratch
  <2>4. LostOK' /\ CleanOK' /\ WipeOK'
    BY <1>9 DEF PowerFail, LostOK, CleanOK, WipeOK, PhaseShape, InUse, InUseOK, scratch
  <2>5. QED
    BY <1>1, <2>1, <2>2, <2>3, <2>4
<1>10. CASE UNCHANGED vars
  BY <1>1, <1>10 DEF vars, Atomic, PhaseShape, InUseOK, InUse, LostOK, CleanOK, WipeOK,
     scratch
<1>11. QED
  BY <1>3, <1>4, <1>5, <1>6, <1>7, <1>8, <1>9, <1>10

(* Filling the scratch block: it is not valid, so no restart sees it. *)
LEMMA WriteScratchStep ==
    ASSUME IInv, TypeOK', NEW c \in Contents, WriteScratch(c)
    PROVE  IInv' /\ RestartStep
<1> USE DEF IInv, history
<1>1. /\ scratch \in MetaBlocks /\ scratch # active /\ active \in MetaBlocks
      /\ scratch' = scratch
  BY OtherFacts DEF scratch, TypeOK, WriteScratch
<1>2. c # Blank
  BY ContentsAssumption
<1>3. ValidBlocks' = ValidBlocks /\ Chosen' = Chosen
  BY DEF WriteScratch, ValidBlocks, sst_meta_validate_header_meta, Chosen
<1>4. /\ body'[scratch] = c
      /\ body'[active] = body[active]
      /\ \A b \in MetaBlocks : b # scratch => body'[b] = body[b]
  BY <1>1 DEF WriteScratch, TypeOK
<1>5. Recovered' = Recovered
  <2>1. CASE wiping
    <3>1. ValidBlocks = {}
      BY <2>1, <1>1, OtherFacts DEF WipeOK, WriteScratch, CountIsLast, ValidBlocks,
         sst_meta_validate_header_meta, sst_meta_validate_swap_count, scratch
    <3>2. QED
      BY <3>1, <1>3, ChosenFacts DEF Recovered
  <2>2. CASE ~wiping
    <3>1. active = Chosen
      BY <2>2 DEF WriteScratch, PhaseShape, InUse, InUseOK
    <3>2. QED
      BY <3>1, <1>3, <1>4 DEF Recovered
  <2>3. QED
    BY <2>1, <2>2
<1>6. Atomic'
  BY <1>5 DEF Atomic, WriteScratch
<1>7. SwapOrder'
  BY <1>3 DEF SwapOrder, WriteScratch
<1>8. CountIsLast'
  BY <1>2, <1>4 DEF CountIsLast, WriteScratch
<1>9. PhaseShape'
  BY <1>1, <1>2, <1>4 DEF PhaseShape, WriteScratch
<1>10. InUseOK'
  BY <1>1, <1>3, <1>4 DEF InUseOK, InUse, WriteScratch
<1>11. LostOK' /\ CleanOK' /\ WipeOK'
  BY <1>1, <1>3, <1>4 DEF LostOK, CleanOK, WipeOK, WriteScratch
<1>12. QED
  BY <1>5, <1>6, <1>7, <1>8, <1>9, <1>10, <1>11 DEF RestartStep

(* Its header alone does not make it valid: the swap count is missing. *)
LEMMA WriteHeaderStep ==
    ASSUME IInv, TypeOK', WriteHeader
    PROVE  IInv' /\ RestartStep
<1> USE DEF IInv, history
<1>1. /\ scratch \in MetaBlocks /\ scratch # active /\ active \in MetaBlocks
      /\ scratch' = scratch
  BY OtherFacts DEF scratch, TypeOK, WriteHeader
<1>2. /\ fs_version'[scratch] = SST_SUPPORTED_VERSION
      /\ \A b \in MetaBlocks : b # scratch => fs_version'[b] = fs_version[b]
  BY <1>1 DEF WriteHeader, TypeOK
<1>3. CountIsLast'
  BY <1>2 DEF CountIsLast, WriteHeader
<1>4. ValidBlocks' = ValidBlocks
  BY <1>3, ValidIsCounted, ValidIsCountedNext DEF WriteHeader
<1>5. Chosen' = Chosen
  BY <1>4 DEF Chosen, WriteHeader
<1>6. Atomic' /\ SwapOrder'
  BY <1>4, <1>5 DEF Atomic, Recovered, SwapOrder, WriteHeader
<1>7. PhaseShape'
  BY <1>1, <1>2 DEF PhaseShape, WriteHeader
<1>8. InUseOK'
  BY <1>1, <1>4, <1>5 DEF InUseOK, InUse, WriteHeader
<1>9. LostOK' /\ CleanOK' /\ WipeOK'
  BY <1>1, <1>4, <1>5 DEF LostOK, CleanOK, WipeOK, WriteHeader
<1>10. RestartStep
  BY <1>5 DEF RestartStep, Recovered, WriteHeader
<1>11. QED
  BY <1>3, <1>6, <1>7, <1>8, <1>9, <1>10

(* Erasing the old block leaves the committed one as the only valid one. *)
LEMMA EraseScratchStep ==
    ASSUME IInv, TypeOK', sst_meta_erase_scratch_blocks
    PROVE  IInv' /\ RestartStep
<1> USE DEF IInv
<1>1. /\ scratch \in MetaBlocks /\ scratch # active /\ active \in MetaBlocks
      /\ scratch' = scratch /\ SST_OTHER_META_BLOCK(active) = scratch
  BY OtherFacts DEF scratch, TypeOK, sst_meta_erase_scratch_blocks
<1>2. /\ swap_count'[scratch] = SST_FLASH_DEFAULT_VAL
      /\ swap_count'[active] = swap_count[active]
      /\ fs_version'[active] = fs_version[active]
      /\ body'[active] = body[active]
  BY <1>1 DEF sst_meta_erase_scratch_blocks, EraseBlock, TypeOK
<1>3. CountIsLast'
  BY <1>1, <1>2, OtherFacts DEF CountIsLast, sst_meta_validate_swap_count
<1>4. active \in ValidBlocks' /\ scratch \notin ValidBlocks'
  BY <1>1, <1>2, <1>3, ValidIsCounted, ValidIsCountedNext
     DEF sst_meta_erase_scratch_blocks, CleanOK
<1>5. Chosen' = active /\ active # NoMetaBlock
  BY <1>1, <1>4, ChosenFactsNext, ChosenFacts
<1>6. Atomic' /\ SwapOrder'
  BY <1>1, <1>2, <1>4, <1>5
     DEF Atomic, Recovered, SwapOrder, CleanOK, sst_meta_erase_scratch_blocks
<1>7. PhaseShape'
  BY DEF PhaseShape, sst_meta_erase_scratch_blocks
<1>8. body'[active] # Blank
  BY <1>1, <1>2, <1>4 DEF CountIsLast, ValidBlocks, sst_meta_validate_header_meta,
     CleanOK, sst_meta_erase_scratch_blocks
<1>9. InUseOK' /\ LostOK'
  BY <1>1, <1>2, <1>4, <1>5, <1>8
     DEF InUseOK, InUse, LostOK, CleanOK, sst_meta_erase_scratch_blocks
<1>10. CleanOK' /\ WipeOK'
  BY DEF CleanOK, WipeOK, PhaseShape, sst_meta_erase_scratch_blocks
<1>11. RestartStep
  BY <1>2, <1>5 DEF RestartStep, Recovered, CleanOK, sst_meta_erase_scratch_blocks
<1>12. QED
  BY <1>3, <1>6, <1>7, <1>9, <1>10, <1>11

(* The commit of an update. *)
LEMMA CommitStep ==
    ASSUME IInv, TypeOK', WriteSwapCount, ~wiping
    PROVE  IInv' /\ RestartStep
<1> USE DEF IInv
<1>1. /\ scratch \in MetaBlocks /\ scratch # active /\ active \in MetaBlocks
      /\ active' = scratch /\ scratch' = active
      /\ MetaBlocks = {active, scratch}
      /\ SST_OTHER_META_BLOCK(scratch) = active
      /\ SST_OTHER_META_BLOCK(active) = scratch
  BY OtherFacts DEF scratch, TypeOK, WriteSwapCount
<1>2. /\ swap_count'[scratch] = ram_count
      /\ swap_count'[active] = swap_count[active]
      /\ ram_count \in SwapCounts /\ ram_count # SST_FLASH_DEFAULT_VAL
  BY <1>1, DefaultValAssumption DEF WriteSwapCount, TypeOK, SwapCounts
<1>3. active = Chosen /\ acked = body[active]
  BY DEF WriteSwapCount, PhaseShape, InUse, InUseOK
<1>4. active \in ValidBlocks
  BY <1>1, <1>3, ChosenFacts
<1>5. CountIsLast'
  BY <1>1, <1>2 DEF CountIsLast, PhaseShape, WriteSwapCount
<1>6. ValidBlocks' = MetaBlocks
  BY <1>1, <1>2, <1>4, <1>5, ValidIsCounted, ValidIsCountedNext
<1>7. swap_count[active] \in SwapCounts
  BY <1>1, <1>4, ValidIsCounted DEF TypeOK
<1>8. failed # "header" => /\ Chosen' = scratch
                            /\ swap_count'[scratch] = NextSwapCount(swap_count'[active])
  <2> SUFFICES ASSUME failed # "header"
               PROVE  /\ Chosen' = scratch
                      /\ swap_count'[scratch] = NextSwapCount(swap_count'[active])
    OBVIOUS
  <2>1. ram_count = NextSwapCount(swap_count[active])
    BY DEF WriteSwapCount, PhaseShape, InUse, InUseOK
  <2>2. swap_count' \in [MetaBlocks -> SwapCounts \cup {SST_FLASH_DEFAULT_VAL}]
    BY DEF TypeOK
  <2>3. QED
    BY <1>1, <1>2, <1>6, <1>7, <2>1, <2>2, ActiveIsSuccessor DEF Chosen
<1>9. Chosen' \in {active, scratch} /\ Chosen' # NoMetaBlock
  BY <1>1, <1>6, ChosenFacts, ChosenFactsNext
<1>10. Atomic'
  BY <1>3, <1>9 DEF Atomic, Recovered, WriteSwapCount
<1>11. SwapOrder'
  BY <1>1, <1>8 DEF SwapOrder, WriteSwapCount
<1>12. PhaseShape' /\ InUseOK' /\ LostOK' /\ WipeOK'
  BY DEF PhaseShape, InUseOK, InUse, LostOK, WipeOK, WriteSwapCount
<1>13. CleanOK'
  BY <1>1, <1>2, <1>3, <1>6, <1>8 DEF CleanOK, WriteSwapCount
<1>14. RestartStep
  BY <1>1, <1>3, <1>9, ChosenFacts DEF RestartStep, Recovered, WriteSwapCount
<1>15. QED
  BY <1>5, <1>10, <1>11, <1>12, <1>13, <1>14

(* The commit of a wipe. *)
LEMMA FormatStep ==
    ASSUME IInv, TypeOK', WriteSwapCount, wiping
    PROVE  IInv' /\ RestartStep
<1> USE DEF IInv
<1>1. /\ scratch \in MetaBlocks /\ scratch # active /\ active \in MetaBlocks
      /\ active' = scratch /\ scratch' = active
      /\ MetaBlocks = {active, scratch}
      /\ SST_OTHER_META_BLOCK(scratch) = active
  BY OtherFacts DEF scratch, TypeOK, WriteSwapCount
<1>2. /\ swap_count'[scratch] = ram_count
      /\ swap_count'[active] = swap_count[active]
      /\ ram_count \in SwapCounts /\ ram_count # SST_FLASH_DEFAULT_VAL
  BY <1>1, DefaultValAssumption DEF WriteSwapCount, TypeOK, SwapCounts
<1>3. CountIsLast'
  BY <1>1, <1>2 DEF CountIsLast, PhaseShape, WriteSwapCount
<1>4. swap_count[active] = SST_FLASH_DEFAULT_VAL
  BY <1>1 DEF WipeOK, CountIsLast, WriteSwapCount, sst_meta_validate_swap_count
<1>5. ValidBlocks' = {scratch}
  BY <1>1, <1>2, <1>3, <1>4, ValidIsCountedNext
<1>6. Chosen' = scratch /\ scratch # NoMetaBlock
  BY <1>1, <1>5, ChosenFacts, ChosenFactsNext
<1>7. Atomic' /\ SwapOrder'
  BY <1>1, <1>5, <1>6 DEF Atomic, Recovered, SwapOrder, WriteSwapCount
<1>8. PhaseShape' /\ CleanOK' /\ WipeOK'
  BY DEF PhaseShape, CleanOK, WipeOK, WriteSwapCount
<1>9. body[scratch] # Blank
  BY DEF PhaseShape, WriteSwapCount
<1>10. InUseOK' /\ LostOK'
  BY <1>1, <1>2, <1>5, <1>6, <1>9 DEF InUseOK, InUse, LostOK, WriteSwapCount
<1>11. RestartStep
  BY <1>6 DEF RestartStep, Recovered, WriteSwapCount
<1>12. QED
  BY <1>3, <1>7, <1>8, <1>10, <1>11

(* A wipe erases the scratch block first, which a restart does not use. *)
LEMMA WipeErase1Step ==
    ASSUME IInv, TypeOK', WipeErase1
    PROVE  IInv' /\ RestartStep
<1> USE DEF IInv, history
<1>1. first \in MetaBlocks /\ active \in MetaBlocks
  BY DEF TypeOK
<1>2. /\ swap_count'[first] = SST_FLASH_DEFAULT_VAL
      /\ body'[first] = Blank
      /\ \A b \in MetaBlocks : b # first =>
            /\ swap_count'[b] = swap_count[b]
            /\ fs_version'[b] = fs_version[b]
            /\ body'[b] = body[b]
  BY <1>1 DEF WipeErase1, EraseBlock, TypeOK
<1>3. CountIsLast'
  BY <1>1, <1>2 DEF CountIsLast, sst_meta_validate_swap_count
<1>4. ValidBlocks' = ValidBlocks \ {first}
  BY <1>1, <1>2, <1>3, ValidIsCounted, ValidIsCountedNext
<1>5. Chosen' = Chosen /\ Recovered' = Recovered
  <2>1. CASE Chosen = NoMetaBlock
    <3>1. ValidBlocks' = {}
      BY <1>4, <2>1, ChosenFacts
    <3>2. QED
      BY <2>1, <3>1, ChosenFactsNext DEF Recovered
  <2>2. CASE Chosen # NoMetaBlock
    <3>1. Chosen \in MetaBlocks /\ Chosen # first /\ first = SST_OTHER_META_BLOCK(Chosen)
      BY <2>2, ChosenFacts, OtherFacts DEF WipeOK, WipeErase1
    <3>2. Chosen \in ValidBlocks' /\ SST_OTHER_META_BLOCK(Chosen) \notin ValidBlocks'
      BY <1>4, <2>2, <3>1, ChosenFacts
    <3>3. Chosen' = Chosen
      BY <3>2, ChosenFactsNext
    <3>4. QED
      BY <1>2, <3>1, <3>3 DEF Recovered
  <2>3. QED
    BY <2>1, <2>2
<1>6. Atomic'
  BY <1>5 DEF Atomic, WipeErase1
<1>7. SwapOrder'
  BY <1>1, <1>4 DEF SwapOrder
<1>8. PhaseShape' /\ CleanOK'
  BY DEF PhaseShape, CleanOK, WipeErase1
<1>9. WipeOK'
  BY <1>2, <1>5 DEF WipeOK, WipeErase1
<1>10. InUseOK'
  <2> SUFFICES ASSUME InUse' PROVE InUseOK'
    BY DEF InUseOK
  <2>1. body[active] # Blank /\ active # first
    BY <1>1, <1>2 DEF InUse, WipeErase1
  <2>2. InUse
    BY <2>1 DEF InUse, WipeErase1
  <2>3. scratch' = scratch
    BY DEF scratch, WipeErase1
  <2>4. QED
    BY <1>1, <1>2, <1>4, <1>5, <2>1, <2>2, <2>3 DEF InUseOK, WipeErase1
<1>11. LostOK'
  <2>1. CASE Chosen = NoMetaBlock
    BY <1>4, <2>1, ChosenFacts DEF LostOK
  <2>2. CASE Chosen # NoMetaBlock
    <3>1. active = Chosen /\ active # first /\ active \in ValidBlocks
      BY <2>2, ChosenFacts, OtherFacts DEF WipeOK, WipeErase1
    <3>2. body[active] # Blank
      BY <3>1 DEF CountIsLast, ValidBlocks, sst_meta_validate_header_meta
    <3>3. QED
      BY <1>1, <1>2, <3>1, <3>2 DEF LostOK, WipeErase1
  <2>3. QED
    BY <2>1, <2>2
<1>12. QED
  BY <1>3, <1>5, <1>6, <1>7, <1>8, <1>9, <1>10, <1>11 DEF RestartStep

(* Then the active block: a restart finds an unformatted device. *)
LEMMA WipeErase2Step ==
    ASSUME IInv, TypeOK', WipeErase2
    PROVE  IInv' /\ RestartStep
<1> USE DEF IInv
<1> DEFINE last == SST_OTHER_META_BLOCK(first)
<1>1. first \in MetaBlocks /\ last \in MetaBlocks /\ MetaBlocks = {first, last}
  BY OtherFacts DEF TypeOK
<1>2. \A b \in MetaBlocks : /\ swap_count'[b] = SST_FLASH_DEFAULT_VAL
                            /\ body'[b] = Blank
  BY <1>1 DEF WipeErase2, EraseBlock, TypeOK, WipeOK
<1>3. CountIsLast'
  BY <1>2 DEF CountIsLast, sst_meta_validate_swap_count
<1>4. ValidBlocks' = {}
  BY <1>2, <1>3, ValidIsCountedNext
<1>5. Chosen' = NoMetaBlock
  BY <1>4, ChosenFactsNext
<1>6. active' \in MetaBlocks /\ scratch' \in MetaBlocks
  BY OtherFacts DEF TypeOK, scratch
<1>7. Atomic' /\ SwapOrder'
  BY <1>1, <1>4, <1>5 DEF Atomic, Recovered, SwapOrder, WipeErase2
<1>8. PhaseShape' /\ CleanOK'
  BY DEF PhaseShape, CleanOK, WipeErase2
<1>9. InUseOK' /\ LostOK'
  BY <1>2, <1>4, <1>6 DEF InUseOK, InUse, LostOK
<1>10. WipeOK'
  BY <1>2, <1>6 DEF WipeOK, WipeErase2
<1>11. RestartStep
  BY <1>5 DEF RestartStep, Recovered, WipeErase2
<1>12. QED
  BY <1>3, <1>7, <1>8, <1>9, <1>10, <1>11
-----------------------------------------------------------------------------
(* The inductive invariant holds on erased flash. *)
LEMMA InitInv == Init => IInv
<1> SUFFICES ASSUME Init PROVE IInv
  OBVIOUS
<1>1. TypeOK
  BY TypeInit
<1>2. CountIsLast
  BY DEF Init, CountIsLast, sst_meta_validate_swap_count
<1>3. ValidBlocks = {}
  BY <1>2, ValidIsCounted DEF Init
<1>4. Chosen = NoMetaBlock
  BY <1>3, ChosenFacts
<1>5. Atomic /\ SwapOrder
  BY <1>3, <1>4 DEF Init, Atomic, Recovered, SwapOrder, MetaBlocks
<1>6. QED
  BY <1>1, <1>2, <1>3, <1>5
     DEF Init, IInv, PhaseShape, InUseOK, InUse, LostOK, CleanOK, WipeOK

(* Every step keeps the inductive invariant and loses no update. *)
LEMMA NextInv == IInv /\ [Next]_vars => IInv' /\ RestartStep
<1> SUFFICES ASSUME IInv, [Next]_vars PROVE IInv' /\ RestartStep
  OBVIOUS
<1>1. TypeOK'
  BY TypeStep DEF IInv
<1>2. CASE \/ sst_core_prepare \/ BeginUpdate \/ sst_core_wipe_all
           \/ BodyError \/ HeaderError \/ EraseError \/ PowerFail
           \/ UNCHANGED vars
  <2>1. UNCHANGED flash
    BY <1>2 DEF flash, vars, sst_core_prepare, BeginUpdate, sst_core_wipe_all,
       BodyError, HeaderError, EraseError, PowerFail
  <2>2. QED
    BY <1>1, <1>2, <2>1, QuietStep
<1>3. ASSUME NEW c \in Contents, WriteScratch(c) PROVE IInv' /\ RestartStep
  BY <1>1, <1>3, WriteScratchStep
<1>4. CASE WriteHeader
  BY <1>1, <1>4, WriteHeaderStep
<1>5. CASE WriteSwapCount
  BY <1>1, <1>5, CommitStep, FormatStep
<1>6. CASE sst_meta_erase_scratch_blocks
  BY <1>1, <1>6, EraseScratchStep
<1>7. CASE WipeErase1
  BY <1>1, <1>7, WipeErase1Step
<1>8. CASE WipeErase2
  BY <1>1, <1>8, WipeErase2Step
<1>9. QED
  BY <1>2, <1>3, <1>4, <1>5, <1>6, <1>7, <1>8 DEF Next

(* The inductive invariant of the update protocol holds at every moment. *)
THEOREM Inductive == Spec => []IInv
BY InitInv, NextInv, PTL DEF Spec

(* Power failure safety: after any interleaving of updates, wipes, failing *)
(* flash operations and power failures, a restart finds what the last      *)
(* committed update installed or, while it is unfinished, what it replaced.*)
THEOREM PowerFailureSafe == Spec => []Atomic
<1>1. IInv => Atomic
  BY DEF IInv
<1>2. QED
  BY <1>1, Inductive, PTL

(* The running system uses the block a restart would choose. *)
THEOREM RamAgreesWithFlash == Spec => []Durable
<1>1. IInv => Durable
  <2> SUFFICES ASSUME IInv, ready, ~wiping, phase # "clean", body[active] # Blank
               PROVE  active = Chosen /\ Recovered = acked
    BY DEF Durable
  <2>1. active = Chosen /\ acked = body[active]
    BY DEF IInv, InUse, InUseOK
  <2>2. active # NoMetaBlock
    BY ChosenFacts DEF IInv, TypeOK
  <2>3. QED
    BY <2>1, <2>2 DEF Recovered
<1>2. QED
  BY <1>1, Inductive, PTL

(* No update that a restart would find is lost to an older one. *)
THEOREM UpdatesAreNotLost == Spec => NoRollback
<1>1. IInv /\ [Next]_vars => [RestartStep]_vars
  BY NextInv
<1>2. QED
  BY <1>1, Inductive, PTL DEF Spec, NoRollback
=============================================================================
