------------------------------ MODULE SSTCore ------------------------------
(***************************************************************************)
(* The secure storage core, sst_core.c, over the blocks of sst_flash.c,    *)
(* for the default build (SST_VALIDATE_METADATA_FROM_FLASH and             *)
(* SST_ENABLE_PARTIAL_ASSET_RW on, SST_ENCRYPTION off).                    *)
(*                                                                         *)
(* A call reads the active metadata block, which nothing changes before    *)
(* the call commits, and then runs a fixed sequence of flash operations.   *)
(* The action of a call works this sequence out (todo); FlashStep carries  *)
(* out one operation, FlashError makes one report an error instead, and    *)
(* PowerFail may come between any two.                                     *)
(***************************************************************************)
EXTENDS SSTMeta, Integers, SequencesExt, FiniteSetsExt

CONSTANTS
    SST_TOTAL_NUM_OF_BLOCKS,   \* flash blocks of the storage area
    SST_BLOCK_SIZE,            \* units of data in a block
    SST_ALL_METADATA_SIZE,     \* of these, taken by the metadata
    SST_NUM_ASSETS,            \* entries of the object table
    SST_FLASH_PROGRAM_UNIT,    \* alignment of every object's space
    SST_MAX_OBJECT_SIZE,       \* the largest object
    Uuids, Sizes, Values,      \* what callers ask for
    Offsets,                   \* offsets callers write at
    DeleteBlocks,              \* logical blocks callers delete objects from
    WipesAllowed,              \* may callers wipe a formatted store
    MaxFlashErrors,            \* how many flash operations report an error,
    ErrorCalls                 \* and in which calls

(* After SST_ALIGNED_MAX_OBJECT_SIZE, which rounds up even aligned sizes. *)
SST_ALIGNED_MAX_OBJECT_SIZE ==
    SST_FLASH_PROGRAM_UNIT - (SST_MAX_OBJECT_SIZE % SST_FLASH_PROGRAM_UNIT)
        + SST_MAX_OBJECT_SIZE

(* What the build checks of the layout (sst_core.c 16-25, 73-77, 123-133), *)
(* and of the callers, that they create no object above the maximum size.  *)
ASSUME LayoutAssumption ==
    /\ SST_TOTAL_NUM_OF_BLOCKS \in Nat \ {0, 1, 3}
    /\ SST_FLASH_PROGRAM_UNIT \in {1, 2, 4}
    /\ SST_NUM_ASSETS \in Nat \ {0}
    /\ SST_BLOCK_SIZE \in Nat /\ SST_ALL_METADATA_SIZE \in 1 .. SST_BLOCK_SIZE
    /\ SST_ALIGNED_MAX_OBJECT_SIZE <=
          IF SST_TOTAL_NUM_OF_BLOCKS = 2
          THEN SST_BLOCK_SIZE - SST_ALL_METADATA_SIZE ELSE SST_BLOCK_SIZE
    /\ Sizes \subseteq 1 .. SST_MAX_OBJECT_SIZE
    /\ 0 \notin Uuids

SST_INIT_SCRATCH_DBLOCK == IF SST_TOTAL_NUM_OF_BLOCKS = 2 THEN 1 ELSE 2
SST_INIT_DBLOCK_START == IF SST_TOTAL_NUM_OF_BLOCKS = 2 THEN 0 ELSE 3
SST_NUM_DEDICATED_DBLOCKS ==
    IF SST_TOTAL_NUM_OF_BLOCKS = 2 THEN 0
    ELSE SST_TOTAL_NUM_OF_BLOCKS - SST_INIT_DBLOCK_START
SST_NUM_ACTIVE_DBLOCKS == SST_NUM_DEDICATED_DBLOCKS + 1
SST_LOGICAL_DBLOCK0 == 0
SST_INVALID_UUID == 0

Blocks == 0 .. SST_TOTAL_NUM_OF_BLOCKS - 1
LBlocks == 0 .. SST_NUM_ACTIVE_DBLOCKS - 1
ObjectIndexes == 0 .. SST_NUM_ASSETS - 1

(* Metadata words are 32 bits wide in the code.  In the model they count   *)
(* modulo Word, wide enough for a wrapped or erased word to differ from    *)
(* every proper one.                                                       *)
Word == 100
ErasedWord == Word - 1

(* A unit of data that callers have not written: cleared, or erased.       *)
Cleared == "00"
Erased == "FF"

(* What a block holds, by address.  The swap count is an address of its    *)
(* own as it is programmed on its own.                                     *)
Header == <<"header", 0>>
SwapCount == <<"swap_count", 0>>
Addresses ==
    {Header, SwapCount} \cup ({"block_meta"} \X LBlocks)
        \cup ({"object_meta"} \X ObjectIndexes)
        \cup ({"data"} \X (0 .. SST_BLOCK_SIZE - 1))

ErasedBlock ==
    [a \in Addresses |->
        CASE a = Header -> [scratch_idx |-> ErasedWord,
                            fs_version |-> SST_FLASH_DEFAULT_VAL]
          [] a = SwapCount -> SST_FLASH_DEFAULT_VAL
          [] a[1] = "block_meta" ->
                [phys_id |-> ErasedWord, data_start |-> ErasedWord,
                 free_size |-> ErasedWord]
          [] a[1] = "object_meta" ->
                [lblock |-> ErasedWord, data_index |-> ErasedWord,
                 cur_size |-> ErasedWord, max_size |-> ErasedWord,
                 unique_id |-> ErasedWord]
          [] OTHER -> Erased]

VARIABLES
    flash,       \* the blocks
    ctx,         \* RAM: sst_system_ctx (the scratch metadata block is
                 \* always the other one)
    ready,       \* RAM: sst_system_ready
    todo,        \* RAM: the flash operations the running call has left
    res,         \* "busy" or, once it is bound to fail, "failing" while a
                 \* call runs, then what it returned; "off" after a restart
    call,        \* history: the running or last call, the store it found
                 \* and the store it is to leave
    errors,      \* flash errors so far
    durable      \* history: the objects that survive if power fails now

vars == <<flash, ctx, ready, todo, res, call, errors, durable>>
-----------------------------------------------------------------------------
(* Slip: sizes are not aligned. *)
NotAligned(nbr_bytes) == nbr_bytes

sst_get_aligned_flash_bytes(nbr_bytes) ==
    LET rest == nbr_bytes % SST_FLASH_PROGRAM_UNIT
    IN  IF rest = 0 THEN nbr_bytes ELSE nbr_bytes + SST_FLASH_PROGRAM_UNIT - rest

sst_utils_check_contained_in(superset_start, superset_size, subset_start, subset_size) ==
    /\ subset_start >= superset_start
    /\ subset_start + subset_size <= superset_start + superset_size

sst_meta_validate_block_meta(block_meta) ==
    /\ block_meta.phys_id < SST_TOTAL_NUM_OF_BLOCKS
    /\ sst_utils_check_contained_in(0, SST_BLOCK_SIZE, block_meta.data_start,
                                    block_meta.free_size)
    /\ block_meta.data_start = IF block_meta.phys_id \in MetaBlocks
                               THEN SST_ALL_METADATA_SIZE ELSE 0

sst_meta_validate_object_meta(meta) ==
    /\ meta.lblock < SST_NUM_ACTIVE_DBLOCKS
    /\ meta.unique_id # SST_INVALID_UUID =>
          /\ meta.max_size <= SST_MAX_OBJECT_SIZE
          /\ meta.cur_size <= meta.max_size
          /\ meta.lblock = SST_LOGICAL_DBLOCK0 =>
                meta.data_index >= SST_ALL_METADATA_SIZE
          /\ sst_utils_check_contained_in(0, SST_BLOCK_SIZE, meta.data_index,
                                          meta.max_size)

(* The tables of a metadata block with content m. *)
BlockMeta(m, lblock) == m[<<"block_meta", lblock>>]
ObjectMeta(m, i) == m[<<"object_meta", i>>]

NoIndex == SST_NUM_ASSETS

(* The first entry with this identifier; the search gives up at an entry   *)
(* that does not validate.                                                 *)
sst_core_get_object_idx(m, obj_uuid) ==
    LET hits == {i \in ObjectIndexes :
                    /\ ObjectMeta(m, i).unique_id = obj_uuid
                    /\ \A j \in 0 .. i : sst_meta_validate_object_meta(ObjectMeta(m, j))}
    IN  IF hits = {} THEN NoIndex ELSE Min(hits)

sst_get_free_object_index(m) == sst_core_get_object_idx(m, SST_INVALID_UUID)

(* The first logical block with room for an object of this size. *)
sst_meta_reserve_object(m, size) ==
    LET fits == {l \in LBlocks :
                    /\ BlockMeta(m, l).free_size >= sst_get_aligned_flash_bytes(size)
                    /\ \A k \in 0 .. l : sst_meta_validate_block_meta(BlockMeta(m, k))}
    IN  IF fits = {} THEN SST_NUM_ACTIVE_DBLOCKS ELSE Min(fits)

(* What sst_core_object_read returns of all of object i from flash f. *)
sst_core_object_read(f, m, i) ==
    LET meta == ObjectMeta(m, i)
        block_meta == BlockMeta(m, meta.lblock)
    IN  IF ~sst_meta_validate_block_meta(block_meta) THEN <<"unreadable">>
        ELSE [k \in 1 .. meta.cur_size |->
                f[block_meta.phys_id][<<"data", meta.data_index + k - 1>>]]

(* The metadata block a restart uses with this content of flash. *)
ActiveOn(f) ==
    sst_init_get_active_metablock(
        {m \in MetaBlocks :
            /\ f[m][Header].fs_version = SST_SUPPORTED_VERSION
            /\ sst_meta_validate_swap_count(f[m][SwapCount])},
        [m \in MetaBlocks |-> f[m][SwapCount]])

(* As in SSTStore. *)
NoObject == [size_max |-> 0, data |-> <<>>]
Unformatted == <<>>

(* The objects metadata block m of flash f describes. *)
View(f, m) ==
    IF m = NoMetaBlock THEN Unformatted
    ELSE [u \in Uuids |->
            LET i == sst_core_get_object_idx(f[m], u)
            IN  IF i = NoIndex THEN NoObject
                ELSE [size_max |-> ObjectMeta(f[m], i).max_size,
                      data |-> sst_core_object_read(f, f[m], i)]]

Store == INSTANCE SSTStore WITH store <- durable
-----------------------------------------------------------------------------
(* The operations of sst_flash.c: program some addresses of a block, move  *)
(* addresses of one block to another (from gives the source of each), and  *)
(* erase a block.  An operation on no address does nothing.                *)
sst_flash_write(block, cells) ==
    <<[kind |-> "write", block |-> block, cells |-> cells]>>
sst_flash_block_to_block_move(dst_block, src_block, from) ==
    IF DOMAIN from = {} THEN <<>>
    ELSE <<[kind |-> "move", block |-> dst_block, src |-> src_block, from |-> from]>>
sst_flash_erase_block(block) == <<[kind |-> "erase", block |-> block]>>

(* The addresses an operation programs, and the flash it leaves. *)
Programmed(o) ==
    CASE o.kind = "write" -> DOMAIN o.cells
      [] o.kind = "move" -> DOMAIN o.from
      [] o.kind = "erase" -> {}
Apply(o) ==
    [flash EXCEPT ![o.block] =
        IF o.kind = "erase" THEN ErasedBlock
        ELSE [a \in Addresses |->
                IF a \notin Programmed(o) THEN @[a]
                ELSE IF o.kind = "write" THEN o.cells[a]
                ELSE flash[o.src][o.from[a]]]]

(* A move of size units of data. *)
MoveData(dst_block, dst_offset, src_block, src_offset, size) ==
    sst_flash_block_to_block_move(dst_block, src_block,
        [a \in {"data"} \X (dst_offset .. dst_offset + size - 1) |->
            <<"data", a[2] - dst_offset + src_offset>>])

(* Copies of table entries from the active to the scratch metadata block.  *)
CopyEntries(table, indexes) ==
    sst_flash_block_to_block_move(SST_OTHER_META_BLOCK(ctx.active_metablock),
        ctx.active_metablock, [a \in {table} \X indexes |-> a])

(* A step of a call: the operation, the context after it succeeded or      *)
(* failed, and what the caller of sst_flash.c does about an error:         *)
(* "return" it, "ignore" it and go on, go on and "return later", or stop   *)
(* but return "success".                                                   *)
Steps(ops, ok, err, on_error) ==
    [k \in 1 .. Len(ops) |->
        [op |-> ops[k], ok |-> ok, err |-> err, on_error |-> on_error]]
-----------------------------------------------------------------------------
sst_meta_cur_meta_scratch(c) == SST_OTHER_META_BLOCK(c.active_metablock)

sst_meta_cur_data_scratch(c, lblock) ==
    IF lblock = SST_LOGICAL_DBLOCK0 THEN sst_meta_cur_meta_scratch(c)
                                    ELSE c.scratch_idx

(* Slip: the scratch data block stays where it is. *)
KeepDataScratch(c, index, lblock) == c

sst_meta_set_data_scratch(c, index, lblock) ==
    IF lblock = SST_LOGICAL_DBLOCK0 THEN c ELSE [c EXCEPT !.scratch_idx = index]

sst_mblock_update_scratch_object_meta(c, object_index, obj_meta) ==
    sst_flash_write(sst_meta_cur_meta_scratch(c),
                    [a \in {<<"object_meta", object_index>>} |-> obj_meta])

sst_mblock_update_scratch_block_meta(c, lblock, block_meta) ==
    sst_flash_write(sst_meta_cur_meta_scratch(c),
                    [a \in {<<"block_meta", lblock>>} |-> block_meta])

sst_mblock_copy_remaining_object_meta(object_index) ==
    CopyEntries("object_meta", 0 .. object_index - 1)
        \o CopyEntries("object_meta", object_index + 1 .. SST_NUM_ASSETS - 1)

(* Logical block 0 moves with the metadata, so its entry is rewritten. *)
sst_mblock_copy_remaining_block_meta(lblock) ==
    LET scratch_block == sst_meta_cur_meta_scratch(ctx)
        block0 == BlockMeta(flash[ctx.active_metablock], SST_LOGICAL_DBLOCK0)
    IN  (IF lblock = SST_LOGICAL_DBLOCK0 THEN <<>>
         ELSE sst_mblock_update_scratch_block_meta(ctx, SST_LOGICAL_DBLOCK0,
                  [block0 EXCEPT !.phys_id = scratch_block])
              \o CopyEntries("block_meta", 1 .. lblock - 1))
        \o CopyEntries("block_meta", lblock + 1 .. SST_NUM_ACTIVE_DBLOCKS - 1)

(* Slip: the data of logical block 0 stays behind. *)
MigrateNothing == <<>>

sst_mblock_migrate_data_to_scratch ==
    LET block0 == BlockMeta(flash[ctx.active_metablock], SST_LOGICAL_DBLOCK0)
    IN  MoveData(sst_meta_cur_meta_scratch(ctx), block0.data_start,
                 ctx.active_metablock, block0.data_start,
                 SST_BLOCK_SIZE - block0.data_start - block0.free_size)

(* Slip: the objects behind the new content are forgotten. *)
UpdateForgetsRest(cur_logical_block, block_meta, data, offset, size) ==
    LET scratch_block == sst_meta_cur_data_scratch(ctx, cur_logical_block)
    IN  sst_flash_write(scratch_block,
            [a \in {"data"} \X (offset .. offset + size - 1) |->
                data[a[2] - offset + 1]])
        \o MoveData(scratch_block, block_meta.data_start, block_meta.phys_id,
                    block_meta.data_start, offset - block_meta.data_start)

(* Slip: the rest is copied from one unit too early. *)
UpdateOverlaps(cur_logical_block, block_meta, data, offset, size) ==
    UpdateForgetsRest(cur_logical_block, block_meta, data, offset, size)
        \o MoveData(sst_meta_cur_data_scratch(ctx, cur_logical_block), offset + size - 1,
                    block_meta.phys_id, offset + size - 1,
                    SST_BLOCK_SIZE - (offset + size - 1) - block_meta.free_size)

(* New content at offset, and the rest of the block around it. *)
sst_dblock_update_scratch(cur_logical_block, block_meta, data, offset, size) ==
    LET scratch_block == sst_meta_cur_data_scratch(ctx, cur_logical_block)
    IN  sst_flash_write(scratch_block,
            [a \in {"data"} \X (offset .. offset + size - 1) |->
                data[a[2] - offset + 1]])
        \o MoveData(scratch_block, block_meta.data_start, block_meta.phys_id,
                    block_meta.data_start, offset - block_meta.data_start)
        \o MoveData(scratch_block, offset + size, block_meta.phys_id, offset + size,
                    SST_BLOCK_SIZE - (offset + size) - block_meta.free_size)

WithNextCount(c) == [c EXCEPT !.active_swap_count = NextSwapCount(@)]

sst_meta_swap_metablocks(c) == [c EXCEPT !.active_metablock = SST_OTHER_META_BLOCK(@)]

(* The header, then the swap count, and the blocks change roles. *)
sst_meta_write_scratch_meta_header(c, on_error) ==
    LET n == WithNextCount(c)
        scratch == sst_meta_cur_meta_scratch(c)
    IN  Steps(sst_flash_write(scratch,
                [a \in {Header} |-> [scratch_idx |-> c.scratch_idx,
                                     fs_version |-> SST_SUPPORTED_VERSION]]),
              n, n, on_error)
        \o Steps(sst_flash_write(scratch, [a \in {SwapCount} |-> n.active_swap_count]),
                 sst_meta_swap_metablocks(n), n, on_error)

(* Slip: only the metadata block is erased. *)
EraseMetaOnly(c, on_error) ==
    Steps(sst_flash_erase_block(sst_meta_cur_meta_scratch(c)), c, c, on_error)

(* The metadata first: until it is gone, its data must stay. *)
sst_meta_erase_scratch_blocks(c, on_error) ==
    Steps(sst_flash_erase_block(sst_meta_cur_meta_scratch(c))
            \o IF SST_TOTAL_NUM_OF_BLOCKS = 2 THEN <<>>
               ELSE sst_flash_erase_block(c.scratch_idx),
          c, c, on_error)

(* Slip: the old blocks are erased before the new ones are committed. *)
EraseThenCommit(c, on_error) ==
    sst_meta_erase_scratch_blocks(sst_meta_swap_metablocks(c), on_error)
        \o sst_meta_write_scratch_meta_header(c, on_error)

sst_meta_update_finalize(c, on_error) ==
    sst_meta_write_scratch_meta_header(c, on_error)
        \o sst_meta_erase_scratch_blocks(
               sst_meta_swap_metablocks(WithNextCount(c)), on_error)
-----------------------------------------------------------------------------
Idle == todo = <<>>

(* A call that returns an error before it changes anything. *)
Refuse(name) ==
    /\ res' = "error"
    /\ call' = [name |-> name, old |-> durable, new |-> durable]
    /\ UNCHANGED <<flash, ctx, ready, todo, errors, durable>>

(* A call that has steps to do in context c and is to leave store new. *)
Start(name, c, steps, new) ==
    /\ ctx' = c
    /\ todo' = steps
    /\ res' = "busy"
    /\ call' = [name |-> name, old |-> durable, new |-> new]
    /\ UNCHANGED <<flash, ready, errors, durable>>

(* sst_object_create asks first whether the object exists. *)
sst_core_object_create(object_uuid, size) ==
    LET m == flash[ctx.active_metablock]
        lblock == sst_meta_reserve_object(m, size)
        object_index == sst_get_free_object_index(m)
        reserved == BlockMeta(m, lblock)
        object_meta ==
            [lblock |-> lblock, data_index |-> SST_BLOCK_SIZE - reserved.free_size,
             cur_size |-> 0, max_size |-> size, unique_id |-> object_uuid]
        block_meta ==
            [reserved EXCEPT
                !.free_size = @ - sst_get_aligned_flash_bytes(size),
                !.phys_id = IF lblock = SST_LOGICAL_DBLOCK0
                            THEN sst_meta_cur_meta_scratch(ctx) ELSE @]
    IN  /\ Idle /\ ready
        /\ sst_core_get_object_idx(m, object_uuid) = NoIndex
        /\ IF lblock = SST_NUM_ACTIVE_DBLOCKS \/ object_index = NoIndex
           THEN Refuse("create")
           ELSE Start("create", ctx,
                    Steps(sst_mblock_update_scratch_object_meta(ctx, object_index, object_meta)
                            \o sst_mblock_update_scratch_block_meta(ctx, lblock, block_meta)
                            \o sst_mblock_copy_remaining_object_meta(object_index)
                            \o sst_mblock_copy_remaining_block_meta(lblock)
                            \o sst_mblock_migrate_data_to_scratch,
                          ctx, ctx, "return")
                        \o sst_meta_update_finalize(ctx, "return"),
                    Store!CreateObject(View(flash, ctx.active_metablock), object_uuid, size))

(* The callers have checked that the content fits the object. *)
sst_core_object_write(object_uuid, v, offset, size) ==
    LET m == flash[ctx.active_metablock]
        object_index == sst_core_get_object_idx(m, object_uuid)
        object_meta == ObjectMeta(m, object_index)
        lblock == object_meta.lblock
        block_meta == BlockMeta(m, lblock)
        old == sst_core_object_read(flash, m, object_index)
        cur_size == Max({offset + size, object_meta.cur_size})
        aligned == sst_get_aligned_flash_bytes(cur_size)
        buf == [k \in 1 .. aligned |->
                   IF k \in offset + 1 .. offset + size THEN v
                   ELSE IF k <= object_meta.cur_size THEN old[k] ELSE Cleared]
        swapped == sst_meta_set_data_scratch(ctx, block_meta.phys_id, lblock)
    IN  /\ Idle /\ ready
        /\ object_index # NoIndex
        /\ offset + size <= object_meta.max_size
        /\ IF ~sst_meta_validate_block_meta(block_meta) \/ offset > object_meta.cur_size
           THEN Refuse("write")
           ELSE Start("write", ctx,
                    Steps(sst_dblock_update_scratch(lblock, block_meta, buf,
                                                    object_meta.data_index, aligned),
                          ctx, ctx, "return")
                    \o Steps(sst_mblock_update_scratch_block_meta(ctx, lblock,
                                [block_meta EXCEPT
                                    !.phys_id = sst_meta_cur_data_scratch(ctx, lblock)])
                               \o sst_mblock_update_scratch_object_meta(ctx, object_index,
                                      [object_meta EXCEPT !.cur_size = cur_size])
                               \o sst_mblock_copy_remaining_block_meta(lblock)
                               \o sst_mblock_copy_remaining_object_meta(object_index)
                               \o IF lblock = SST_LOGICAL_DBLOCK0 THEN <<>>
                                  ELSE sst_mblock_migrate_data_to_scratch,
                             swapped, swapped, "return")
                    \o sst_meta_update_finalize(swapped, "return"),
                    Store!WriteObject(View(flash, ctx.active_metablock), object_uuid, v, offset, size))

(* Slip: the space of the deleted object is not released. *)
CompactKeepsSpace(block_meta, obj_size, phys_id) ==
    [block_meta EXCEPT !.phys_id = phys_id]

(* The entry of a compacted block. *)
CompactedBlockMeta(block_meta, obj_size, phys_id) ==
    [block_meta EXCEPT !.free_size = @ + obj_size, !.phys_id = phys_id]

(* The content of lblock without obj_size units at dst_offset. *)
sst_compact_dblock(lblock, obj_size, src_offset, dst_offset, size) ==
    LET block_meta == BlockMeta(flash[ctx.active_metablock], lblock)
        scratch_dblock_id == sst_meta_cur_data_scratch(ctx, lblock)
        swapped == sst_meta_set_data_scratch(ctx, block_meta.phys_id, lblock)
    IN  Steps(MoveData(scratch_dblock_id, dst_offset, block_meta.phys_id, src_offset, size)
                \o MoveData(scratch_dblock_id, block_meta.data_start,
                            block_meta.phys_id, block_meta.data_start,
                            dst_offset - block_meta.data_start),
              ctx, ctx, "return")
        \o Steps(sst_mblock_update_scratch_block_meta(ctx, lblock,
                    CompactedBlockMeta(block_meta, obj_size, scratch_dblock_id))
                   \o sst_mblock_copy_remaining_block_meta(lblock),
                 swapped, ctx, "return")

(* Deletions in logical block 0 and elsewhere are told apart: the latter    *)
(* are not atomic (DeleteKeepsOthers).                                      *)
Deletion(lblock) == IF lblock = SST_LOGICAL_DBLOCK0 THEN "delete" ELSE "delete other"
Deletions == {"delete", "delete other"}

(* All entries of the object table are rewritten, the deleted one first.   *)
(* An entry that does not validate ends the call.  The results of writing  *)
(* entries and of the final update are not looked at.                      *)
sst_core_object_delete(object_uuid) ==
    LET m == flash[ctx.active_metablock]
        del_obj_index == sst_core_get_object_idx(m, object_uuid)
        del == ObjectMeta(m, del_obj_index)
        del_obj_max_size == sst_get_aligned_flash_bytes(del.max_size)
        others == ObjectIndexes \ {del_obj_index}
        behind == {i \in others : /\ ObjectMeta(m, i).lblock = del.lblock
                                  /\ ObjectMeta(m, i).data_index > del.data_index}
        src_offset == Min({SST_BLOCK_SIZE} \cup {ObjectMeta(m, i).data_index : i \in behind})
        nbr_bytes_to_move ==
            MapThenSumSet(LAMBDA i : sst_get_aligned_flash_bytes(ObjectMeta(m, i).max_size),
                          behind)
        entry(i) ==
            CASE i = del_obj_index ->
                    [del EXCEPT !.unique_id = SST_INVALID_UUID, !.lblock = 0,
                                !.max_size = 0, !.cur_size = 0]
              [] i \in behind ->
                    [ObjectMeta(m, i) EXCEPT !.data_index = (@ - del_obj_max_size) % Word]
              [] OTHER -> ObjectMeta(m, i)
        invalid == {i \in others : ~sst_meta_validate_object_meta(ObjectMeta(m, i))}
        order == <<del_obj_index>>
                    \o SetToSortSeq({i \in others : \A j \in invalid : i < j}, <)
        update(i) == Head(sst_mblock_update_scratch_object_meta(ctx, i, entry(i)))
        entries == Steps([k \in 1 .. Len(order) |-> update(order[k])], ctx, ctx, "ignore")
        swapped == sst_meta_set_data_scratch(ctx, BlockMeta(m, del.lblock).phys_id, del.lblock)
    IN  /\ Idle /\ ready
        /\ del_obj_index # NoIndex
        /\ del.lblock \in DeleteBlocks
        /\ IF invalid # {} \/ ~sst_meta_validate_block_meta(BlockMeta(m, del.lblock))
           THEN /\ todo' = entries
                /\ res' = "failing"
                /\ call' = [name |-> Deletion(del.lblock), old |-> durable, new |-> durable]
                /\ UNCHANGED <<flash, ctx, ready, errors, durable>>
           ELSE Start(Deletion(del.lblock), ctx,
                    entries
                      \o sst_compact_dblock(del.lblock, del_obj_max_size, src_offset,
                                            del.data_index, nbr_bytes_to_move)
                      \o sst_meta_update_finalize(swapped, "success"),
                    Store!DeleteObject(View(flash, ctx.active_metablock), object_uuid))

(* Slip: the swap count is not read back. *)
ReadHeaderWithoutCount(m) ==
    [active_metablock |-> m, active_swap_count |-> 0,
     scratch_idx |-> flash[m][Header].scratch_idx]

sst_meta_read_meta_header(m) ==
    [active_metablock |-> m, active_swap_count |-> flash[m][SwapCount],
     scratch_idx |-> flash[m][Header].scratch_idx]

(* Called by sst_system_prepare, at start-up and after a wipe. *)
sst_core_prepare ==
    LET m == ActiveOn(flash)
        c == sst_meta_read_meta_header(m)
    IN  /\ Idle
        /\ IF m = NoMetaBlock THEN Refuse("prepare")
           ELSE Start("prepare", c, sst_meta_erase_scratch_blocks(c, "return"), durable)

(* The active metadata block is erased last. *)
sst_core_wipe_all ==
    LET c == IF ActiveOn(flash) = NoMetaBlock THEN ctx
             ELSE [ctx EXCEPT !.active_metablock = ActiveOn(flash)]
        first == IF ActiveOn(flash) = NoMetaBlock THEN SST_METADATA_BLOCK0
                 ELSE SST_OTHER_META_BLOCK(ActiveOn(flash))
        fresh == [active_metablock |-> SST_METADATA_BLOCK0, active_swap_count |-> 0,
                  scratch_idx |-> SST_INIT_SCRATCH_DBLOCK]
        block0 == [phys_id |-> SST_METADATA_BLOCK0, data_start |-> SST_ALL_METADATA_SIZE,
                   free_size |-> SST_BLOCK_SIZE - SST_ALL_METADATA_SIZE]
        erases == [k \in 1 .. Max({0, SST_NUM_DEDICATED_DBLOCKS - SST_INIT_DBLOCK_START}) |->
                      Head(sst_flash_erase_block(SST_INIT_DBLOCK_START + k - 1))]
        blocks == [k \in 1 .. SST_NUM_DEDICATED_DBLOCKS |->
                      Head(sst_mblock_update_scratch_block_meta(fresh, k,
                          [phys_id |-> k - 1 + SST_INIT_DBLOCK_START, data_start |-> 0,
                           free_size |-> SST_BLOCK_SIZE]))]
        objects == [k \in 1 .. SST_NUM_ASSETS |->
                      Head(sst_mblock_update_scratch_object_meta(fresh, k - 1,
                          [lblock |-> 0, data_index |-> 0, cur_size |-> 0, max_size |-> 0,
                           unique_id |-> SST_INVALID_UUID]))]
    IN  /\ Idle
        /\ WipesAllowed \/ durable = Unformatted
        /\ Start("wipe", c,
               Steps(sst_flash_erase_block(first), c, c, "return")
               \o Steps(sst_flash_erase_block(SST_OTHER_META_BLOCK(first)), fresh, c, "return")
               \o Steps(sst_mblock_update_scratch_block_meta(fresh, SST_LOGICAL_DBLOCK0, block0),
                        fresh, fresh, "ignore")
               \o Steps(erases, fresh, fresh, "return later")
               \o Steps(blocks \o objects, fresh, fresh, "return")
               \o sst_meta_write_scratch_meta_header(fresh, "return"),
               Store!EmptyStore)
-----------------------------------------------------------------------------
(* What a call returns when it has no operations left. *)
Returned == IF res = "failing" THEN "error" ELSE "ok"

FlashStep ==
    /\ ~Idle
    /\ flash' = Apply(Head(todo).op)
    /\ durable' = View(flash', ActiveOn(flash'))
    /\ ctx' = Head(todo).ok
    /\ todo' = Tail(todo)
    /\ res' = IF Len(todo) = 1 THEN Returned ELSE res
    /\ ready' = (ready \/ (call.name = "prepare" /\ res' = "ok"))
    /\ UNCHANGED <<call, errors>>

(* A flash operation that reports an error has changed nothing. *)
FlashError ==
    LET step == Head(todo)
        late == SelectSeq(Tail(todo), LAMBDA t : t.on_error = "return later")
    IN  /\ ~Idle
        /\ errors < MaxFlashErrors /\ call.name \in ErrorCalls
        /\ errors' = errors + 1
        /\ ctx' = step.err
        /\ CASE step.on_error = "return" -> todo' = <<>> /\ res' = "error"
             [] step.on_error = "success" -> todo' = <<>> /\ res' = "ok"
             [] step.on_error = "ignore" ->
                   /\ todo' = Tail(todo)
                   /\ res' = IF Len(todo) = 1 THEN Returned ELSE res
             [] step.on_error = "return later" ->
                   /\ todo' = late
                   /\ res' = IF late = <<>> THEN "error" ELSE "failing"
        /\ UNCHANGED <<flash, ready, call, durable>>

RamAtReset == [active_metablock |-> 0, active_swap_count |-> 0, scratch_idx |-> 0]

PowerFail ==
    /\ ctx' = RamAtReset /\ ready' = FALSE
    /\ todo' = <<>> /\ res' = "off"
    /\ call' = [name |-> "none", old |-> durable, new |-> durable]
    /\ UNCHANGED <<flash, errors, durable>>

Init ==
    /\ flash = [b \in Blocks |-> ErasedBlock]
    /\ ctx = RamAtReset /\ ready = FALSE
    /\ todo = <<>> /\ res = "off"
    /\ call = [name |-> "none", old |-> Unformatted, new |-> Unformatted]
    /\ errors = 0
    /\ durable = Unformatted

Next ==
    \/ \E u \in Uuids, size \in Sizes : sst_core_object_create(u, size)
    \/ \E u \in Uuids, v \in Values, offset \in Offsets, size \in Sizes :
          sst_core_object_write(u, v, offset, size)
    \/ \E u \in Uuids : sst_core_object_delete(u)
    \/ sst_core_prepare
    \/ sst_core_wipe_all
    \/ FlashStep
    \/ FlashError
    \/ PowerFail

Spec == Init /\ [][Next]_vars
-----------------------------------------------------------------------------
(* Every variable has its type; a call is under way exactly while flash    *)
(* operations are left.                                                    *)
TypeOK ==
    /\ DOMAIN flash = Blocks /\ \A b \in Blocks : DOMAIN flash[b] = Addresses
    /\ ctx \in [active_metablock : MetaBlocks,
                active_swap_count : SwapCounts,
                scratch_idx : Blocks]
    /\ ready \in BOOLEAN
    /\ res \in {"off", "busy", "failing", "ok", "error"}
    /\ Idle <=> res \in {"off", "ok", "error"}
    /\ errors \in 0 .. MaxFlashErrors

(* Power failure resistance of the core: at any moment, what a restart     *)
(* would find is the store before the running call or the store after it,  *)
(* and it is the store after it once the call has returned success.  Only  *)
(* sst_core_wipe_all passes through a store that is not formatted, and     *)
(* deletions outside logical block 0 are the ones of DeleteKeepsOthers.    *)
CallIsAtomic ==
    call.name # "delete other" =>
    /\ durable \in {call.old, call.new}
          \cup IF call.name = "wipe" THEN {Unformatted} ELSE {}
    /\ res = "ok" => durable = call.new

(* The detailed core implements the store its interface promises.          *)
ImplementsStore == Store!Spec

(* Every variable has its type, and between calls RAM agrees with flash:   *)
(* the metadata block in use is the one a restart would choose, so what    *)
(* sst_core_object_read returns to a caller now is what it would return    *)
(* after a power failure, and the header in RAM is the one on flash, so    *)
(* the next update counts on from the durable count and builds in the      *)
(* durable scratch.  (An update that failed half-way has counted already   *)
(* in RAM.)                                                                *)
RamMatchesFlash ==
    /\ TypeOK
    /\ Idle /\ ready => ctx.active_metablock = ActiveOn(flash)
    /\ Idle /\ ready /\ errors = 0 =>
          /\ ctx.active_swap_count = flash[ctx.active_metablock][SwapCount]
          /\ ctx.scratch_idx = flash[ctx.active_metablock][Header].scratch_idx

Extent(meta) ==
    meta.data_index .. meta.data_index + sst_get_aligned_flash_bytes(meta.max_size) - 1
Live(m, lblock) ==
    {i \in ObjectIndexes : /\ ObjectMeta(m, i).unique_id # SST_INVALID_UUID
                           /\ ObjectMeta(m, i).lblock = lblock}

(* The durable tables describe a proper layout: the spaces of the objects  *)
(* of a block do not overlap and fill it without a gap from data_start up  *)
(* to the free space at its end, and the blocks of data, the data scratch  *)
(* block and the metadata blocks are all different.                        *)
Layout ==
    LET active == ActiveOn(flash)
        m == flash[active]
        phys == [l \in LBlocks |-> BlockMeta(m, l).phys_id]
    IN  active # NoMetaBlock =>
        /\ \A i \in ObjectIndexes : sst_meta_validate_object_meta(ObjectMeta(m, i))
        /\ \A l \in LBlocks :
              LET block_meta == BlockMeta(m, l)
              IN  /\ sst_meta_validate_block_meta(block_meta)
                  /\ UNION {Extent(ObjectMeta(m, i)) : i \in Live(m, l)} =
                        block_meta.data_start .. SST_BLOCK_SIZE - block_meta.free_size - 1
                  /\ \A i, j \in Live(m, l) :
                        i # j => Extent(ObjectMeta(m, i)) \cap Extent(ObjectMeta(m, j)) = {}
        /\ \A l \in LBlocks \ {SST_LOGICAL_DBLOCK0} :
              /\ phys[l] \notin MetaBlocks \cup {m[Header].scratch_idx}
              /\ \A k \in LBlocks : k # l => phys[k] # phys[l]

(* sst_flash_block_to_block_move is documented to need an erased           *)
(* destination (sst_flash.h), as NOR flash does for every program          *)
(* operation: what the core programs is inside the block and erased.  (An  *)
(* update that failed leaves its scratch blocks half programmed until the  *)
(* next restart.)                                                          *)
ProgramsErasedFlash ==
    ~Idle /\ errors = 0 => LET o == Head(todo).op
             IN  \A a \in Programmed(o) :
                    a \in Addresses /\ flash[o.block][a] = ErasedBlock[a]

(* The flash driver takes whole program units only: every piece of data    *)
(* the core programs starts and ends at a multiple of the unit, whatever   *)
(* sizes callers ask for (sst_get_aligned_flash_bytes).                    *)
ProgramsWholeUnits ==
    ~Idle => LET data == {a \in Programmed(Head(todo).op) : a[1] = "data"}
                 units(S) == {a[2] \div SST_FLASH_PROGRAM_UNIT : a \in S}
             IN  Cardinality(data) = SST_FLASH_PROGRAM_UNIT * Cardinality(units(data))

(* "This will be the first asset's data to move" (sst_core.c, in           *)
(* sst_core_object_delete): the data a deletion moves down is the data     *)
(* right behind the deleted object.                                        *)
CompactsFromNextObject ==
    \A k \in DOMAIN todo :
        LET o == todo[k].op
            deleted == CHOOSE u \in Uuids : call.old[u] # call.new[u]
        IN  call.name \in Deletions /\ o.kind = "move" =>
                \A a \in DOMAIN o.from :
                    a[1] = "data" =>
                        o.from[a][2] - a[2] \in
                            {0, sst_get_aligned_flash_bytes(call.old[deleted].size_max)}

(* "The objects' data stored in the current medadata block needs to be     *)
(* copied in the scratch block" (sst_core.c, before                        *)
(* sst_mblock_migrate_data_to_scratch): a deletion leaves every other      *)
(* object as it was.                                                       *)
DeleteKeepsOthers ==
    call.name \in Deletions =>
        \A u \in Uuids : call.new[u] = call.old[u] => durable[u] = call.old[u]
=============================================================================
