------------------------------ MODULE SSTMeta ------------------------------
(***************************************************************************)
(* How the secure storage core (secure_fw/services/secure_storage/         *)
(* sst_core.c) tells which of its two metadata blocks is the current one.  *)
(* Every update writes a complete new metadata block into the scratch one  *)
(* and programs its swap count last; the count is a byte that skips the    *)
(* value of erased flash, 0xFF, so it counts modulo 255.                   *)
(***************************************************************************)
EXTENDS Naturals

CONSTANT
    SST_FLASH_DEFAULT_VAL    \* what an erased swap count reads as: 0xFF

(* Fewer than three counts could not tell a roll-over from an update. *)
ASSUME DefaultValAssumption ==
    SST_FLASH_DEFAULT_VAL \in Nat /\ SST_FLASH_DEFAULT_VAL > 2

SST_SUPPORTED_VERSION == 1

SST_METADATA_BLOCK0 == 0
SST_METADATA_BLOCK1 == 1
MetaBlocks == {SST_METADATA_BLOCK0, SST_METADATA_BLOCK1}

(* No metadata block is valid: the function returns an error. *)
NoMetaBlock == 2

SST_OTHER_META_BLOCK(metablock) ==
    IF metablock = SST_METADATA_BLOCK0 THEN SST_METADATA_BLOCK1
                                       ELSE SST_METADATA_BLOCK0

SwapCounts == 0 .. SST_FLASH_DEFAULT_VAL - 1

sst_meta_validate_swap_count(swap_count) == swap_count # SST_FLASH_DEFAULT_VAL

(* The increment in sst_meta_write_scratch_meta_header. *)
NextSwapCount(swap_count) ==
    IF sst_meta_validate_swap_count(swap_count + 1) THEN swap_count + 1 ELSE 0

(* Slip: the roll-over of the count is not considered. *)
LatestIgnoresRollOver(meta0_swap_count, meta1_swap_count) ==
    IF meta1_swap_count > meta0_swap_count THEN SST_METADATA_BLOCK1
                                           ELSE SST_METADATA_BLOCK0

(* The block that was written last, from the two swap counts. *)
sst_meta_latest_meta_block(meta0_swap_count, meta1_swap_count) ==
    IF meta1_swap_count = 0 /\ meta0_swap_count # 1 THEN SST_METADATA_BLOCK1
    ELSE IF meta0_swap_count = 0 /\ meta1_swap_count # 1 THEN SST_METADATA_BLOCK0
    ELSE IF meta1_swap_count > meta0_swap_count THEN SST_METADATA_BLOCK1
    ELSE SST_METADATA_BLOCK0

(* valid is the set of metadata blocks whose header validates, count their *)
(* swap counts.                                                            *)
sst_init_get_active_metablock(valid, count) ==
    IF valid = MetaBlocks
    THEN sst_meta_latest_meta_block(count[SST_METADATA_BLOCK0],
                                    count[SST_METADATA_BLOCK1])
    ELSE IF SST_METADATA_BLOCK1 \in valid THEN SST_METADATA_BLOCK1
    ELSE IF SST_METADATA_BLOCK0 \in valid THEN SST_METADATA_BLOCK0
    ELSE NoMetaBlock
=============================================================================
