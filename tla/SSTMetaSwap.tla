---------------------------- MODULE SSTMetaSwap ----------------------------
(***************************************************************************)
(* The update protocol of the secure storage core, with what a metadata    *)
(* block leads to (object table, block table, object data) as one opaque   *)
(* content.  An update fills the scratch metadata block, writes its header *)
(* and then its swap count, swaps the two blocks in RAM and erases the new *)
(* scratch block.  Power may fail between any two flash operations, and a  *)
(* failing flash operation makes the function return where it stands.      *)
(***************************************************************************)
EXTENDS SSTMeta

CONSTANTS
    Contents,        \* what a fully written metadata block can lead to
    Blank,           \* what an erased metadata block holds
    Unformatted      \* what a device without a valid metadata block holds

ASSUME ContentsAssumption ==
    Blank \notin Contents /\ Unformatted \notin Contents \cup {Blank}

VARIABLES
    fs_version,      \* flash: the version in the block's header
    swap_count,      \* flash: the swap count of the block
    body,            \* flash: what the block leads to
    active,          \* RAM: sst_system_ctx.active_metablock
    ram_count,       \* RAM: meta_block_header.active_swap_count
    ready,           \* RAM: sst_system_ready
    phase,           \* RAM: where the running function stands
    wiping,          \* RAM: is that function sst_core_wipe_all?
    first,           \* RAM: metablock_to_erase_first of sst_core_wipe_all
    failed,          \* history: what has failed, "none", "header" or "erase"
    acked,           \* history: the content the last commit installed
    previous         \* history: the content before it, until it is finished

vars == <<fs_version, swap_count, body, active, ram_count, ready, phase,
          wiping, first, failed, acked, previous>>

Phases == {"rest", "body", "header", "clean", "wipe1", "wipe2"}

(* Every variable has its type; in particular the count in RAM is never    *)
(* the value of erased flash.                                              *)
TypeOK ==
    /\ fs_version \in [MetaBlocks -> {SST_SUPPORTED_VERSION, SST_FLASH_DEFAULT_VAL}]
    /\ swap_count \in [MetaBlocks -> SwapCounts \cup {SST_FLASH_DEFAULT_VAL}]
    /\ body \in [MetaBlocks -> Contents \cup {Blank}]
    /\ active \in MetaBlocks
    /\ ram_count \in SwapCounts
    /\ ready \in BOOLEAN
    /\ phase \in Phases
    /\ wiping \in BOOLEAN
    /\ first \in MetaBlocks
    /\ failed \in {"none", "header", "erase"}
    /\ acked \in Contents \cup {Blank, Unformatted}
    /\ previous \in Contents \cup {Blank, Unformatted}
-----------------------------------------------------------------------------
sst_meta_validate_header_meta(b) ==
    /\ fs_version[b] = SST_SUPPORTED_VERSION
    /\ sst_meta_validate_swap_count(swap_count[b])

ValidBlocks == {b \in MetaBlocks : sst_meta_validate_header_meta(b)}

(* The metadata block a restart would choose, and what it leads to. *)
Chosen == sst_init_get_active_metablock(ValidBlocks, swap_count)

Recovered == IF Chosen = NoMetaBlock THEN Unformatted ELSE body[Chosen]

scratch == SST_OTHER_META_BLOCK(active)

EraseBlock(b) ==
    /\ fs_version' = [fs_version EXCEPT ![b] = SST_FLASH_DEFAULT_VAL]
    /\ swap_count' = [swap_count EXCEPT ![b] = SST_FLASH_DEFAULT_VAL]
    /\ body' = [body EXCEPT ![b] = Blank]

flash == <<fs_version, swap_count, body>>
history == <<acked, previous>>
-----------------------------------------------------------------------------
(* A device that was never formatted: erased flash, nothing prepared. *)
Init ==
    /\ fs_version = [b \in MetaBlocks |-> SST_FLASH_DEFAULT_VAL]
    /\ swap_count = [b \in MetaBlocks |-> SST_FLASH_DEFAULT_VAL]
    /\ body = [b \in MetaBlocks |-> Blank]
    /\ active = SST_METADATA_BLOCK0
    /\ ram_count = 0
    /\ ready = FALSE
    /\ phase = "rest"
    /\ wiping = FALSE
    /\ first = SST_METADATA_BLOCK0
    /\ failed = "none"
    /\ acked = Unformatted
    /\ previous = Unformatted

(* sst_core_prepare, up to the erase: it fails when no block is valid. *)
sst_core_prepare ==
    /\ phase = "rest"
    /\ Chosen # NoMetaBlock
    /\ active' = Chosen
    /\ ram_count' = swap_count[Chosen]
    /\ phase' = "clean"
    /\ acked' = body[Chosen]
    /\ previous' = body[Chosen]
    /\ UNCHANGED <<flash, ready, wiping, first, failed>>

(* A create, write or delete starts: the metadata it reads validates. *)
BeginUpdate ==
    /\ phase = "rest" /\ ready
    /\ body[active] # Blank
    /\ phase' = "body"
    /\ UNCHANGED <<flash, active, ram_count, ready, wiping, first, history, failed>>

(* One more object, block or data entry of the scratch block is written.   *)
WriteScratch(c) ==
    /\ phase = "body"
    /\ body' = [body EXCEPT ![scratch] = c]
    /\ UNCHANGED <<fs_version, swap_count, active, ram_count, ready, phase,
                   wiping, first, history, failed>>

(* The header of the scratch block, up to its swap count. *)
WriteHeader ==
    /\ phase = "body"
    /\ body[scratch] # Blank
    /\ ram_count' = NextSwapCount(ram_count)
    /\ fs_version' = [fs_version EXCEPT ![scratch] = SST_SUPPORTED_VERSION]
    /\ phase' = "header"
    /\ UNCHANGED <<swap_count, body, active, ready, wiping, first, history, failed>>

(* Slip: the blocks are not swapped in RAM. *)
WriteSwapCountNoSwap ==
    /\ phase = "header"
    /\ swap_count' = [swap_count EXCEPT ![scratch] = ram_count]
    /\ phase' = IF wiping THEN "rest" ELSE "clean"
    /\ wiping' = FALSE
    /\ acked' = body[scratch]
    /\ previous' = acked
    /\ UNCHANGED <<fs_version, body, active, ram_count, ready, first, failed>>

(* The swap count, which commits the update; the blocks are swapped in RAM *)
(* before anything else is done.  A wipe ends here, an update goes on to   *)
(* erase what is now the scratch block.                                    *)
WriteSwapCount ==
    /\ phase = "header"
    /\ swap_count' = [swap_count EXCEPT ![scratch] = ram_count]
    /\ active' = scratch
    /\ phase' = IF wiping THEN "rest" ELSE "clean"
    /\ wiping' = FALSE
    /\ acked' = body[scratch]
    /\ previous' = acked
    /\ UNCHANGED <<fs_version, body, ram_count, ready, first, failed>>

(* Slip: the active block is erased. *)
EraseActive ==
    /\ phase = "clean"
    /\ EraseBlock(active)
    /\ phase' = "rest"
    /\ ready' = TRUE
    /\ previous' = acked
    /\ UNCHANGED <<active, ram_count, wiping, first, acked, failed>>

(* The end of sst_meta_update_finalize and of sst_core_prepare. *)
sst_meta_erase_scratch_blocks ==
    /\ phase = "clean"
    /\ EraseBlock(scratch)
    /\ phase' = "rest"
    /\ ready' = TRUE
    /\ previous' = acked
    /\ UNCHANGED <<active, ram_count, wiping, first, acked, failed>>
-----------------------------------------------------------------------------
(* Slip: the active block is erased first. *)
WipeActiveFirst ==
    /\ phase = "rest"
    /\ phase' = "wipe1"
    /\ wiping' = TRUE
    /\ active' = IF Chosen # NoMetaBlock THEN Chosen ELSE active
    /\ first' = IF Chosen # NoMetaBlock THEN Chosen ELSE SST_METADATA_BLOCK0
    /\ UNCHANGED <<flash, ram_count, ready, history, failed>>

(* sst_core_wipe_all looks for the active block and erases it last. *)
sst_core_wipe_all ==
    /\ phase = "rest"
    /\ phase' = "wipe1"
    /\ wiping' = TRUE
    /\ active' = IF Chosen # NoMetaBlock THEN Chosen ELSE active
    /\ first' = IF Chosen # NoMetaBlock THEN SST_OTHER_META_BLOCK(Chosen)
                                        ELSE SST_METADATA_BLOCK0
    /\ UNCHANGED <<flash, ram_count, ready, history, failed>>

WipeErase1 ==
    /\ phase = "wipe1"
    /\ EraseBlock(first)
    /\ phase' = "wipe2"
    /\ UNCHANGED <<active, ram_count, ready, wiping, first, history, failed>>

WipeErase2 ==
    /\ phase = "wipe2"
    /\ EraseBlock(SST_OTHER_META_BLOCK(first))
    /\ ram_count' = 0
    /\ active' = SST_METADATA_BLOCK0
    /\ phase' = "body"
    /\ acked' = Unformatted
    /\ previous' = Unformatted
    /\ UNCHANGED <<ready, wiping, first, failed>>
-----------------------------------------------------------------------------
(* A flash operation fails and the function returns its error. *)
BodyError ==
    /\ phase = "body"
    /\ phase' = "rest" /\ wiping' = FALSE
    /\ UNCHANGED <<flash, active, ram_count, ready, first, history, failed>>

(* The header fails to be written: the count in RAM is already incremented. *)
(* A failing header and a failing erase in one life of the device are       *)
(* excluded: see the README on an erase that fails after a header did.      *)
HeaderError ==
    /\ failed # "erase"
    /\ failed' = "header"
    /\ \/ /\ phase = "body"
          /\ ram_count' = NextSwapCount(ram_count)
       \/ /\ phase = "header"
          /\ UNCHANGED ram_count
    /\ phase' = "rest" /\ wiping' = FALSE
    /\ UNCHANGED <<flash, active, ready, first, history>>

EraseError ==
    /\ failed # "header"
    /\ failed' = "erase"
    /\ phase \in {"clean", "wipe1", "wipe2"}
    /\ phase' = "rest" /\ wiping' = FALSE
    /\ UNCHANGED <<flash, active, ram_count, ready, first, history>>

(* Power is lost and comes back: flash keeps what it holds, RAM does not.  *)
PowerFail ==
    /\ ready' = FALSE
    /\ active' = SST_METADATA_BLOCK0 /\ ram_count' = 0
    /\ phase' = "rest" /\ wiping' = FALSE /\ first' = SST_METADATA_BLOCK0
    /\ UNCHANGED <<flash, failed, history>>

Next ==
    \/ sst_core_prepare
    \/ BeginUpdate
    \/ \E c \in Contents : WriteScratch(c)
    \/ WriteHeader
    \/ WriteSwapCount
    \/ sst_meta_erase_scratch_blocks
    \/ sst_core_wipe_all \/ WipeErase1 \/ WipeErase2
    \/ BodyError \/ HeaderError \/ EraseError
    \/ PowerFail

Spec == Init /\ [][Next]_vars
-----------------------------------------------------------------------------
(* Whenever the power fails, a restart finds the content of the last       *)
(* committed update or, while that update is not finished, the content     *)
(* before it; never a mixture and never something older: the power failure *)
(* safety sst_core.c claims for create, write, delete and wipe.            *)
Atomic == Recovered \in {acked, previous}

(* Between updates and up to the swap count of the next one, the block the *)
(* running system uses is the one a restart would choose, and it leads to  *)
(* the last committed content: sst_system_ctx never drifts from flash.     *)
Durable ==
    ready /\ ~wiping /\ phase # "clean" /\ body[active] # Blank
        => active = Chosen /\ Recovered = acked

(* No step makes a restart find anything but the content just committed:   *)
(* once an update is the one a restart finds it is not lost to an older    *)
(* one, in particular when the swap count rolls over from 254 to 0.        *)
RestartStep == Recovered' # Recovered => Recovered' = acked'
NoRollback == [][RestartStep]_vars

-----------------------------------------------------------------------------
(* The parts of the inductive invariant.  Two valid blocks differ by one   *)
(* update, unless a failed header made the running system skip a count.    *)
SwapOrder ==
    ValidBlocks = MetaBlocks =>
        \/ failed = "header"
        \/ swap_count[Chosen]
              = NextSwapCount(swap_count[SST_OTHER_META_BLOCK(Chosen)])

(* The swap count is programmed last: a block that has one is complete. *)
CountIsLast ==
    \A b \in MetaBlocks :
        sst_meta_validate_swap_count(swap_count[b])
            => fs_version[b] = SST_SUPPORTED_VERSION /\ body[b] # Blank

(* The shape of the running function. *)
PhaseShape ==
    /\ phase \in {"wipe1", "wipe2"} => wiping
    /\ wiping => phase \in {"wipe1", "wipe2", "body", "header"}
    /\ phase \in {"body", "header"} /\ ~wiping => ready /\ body[active] # Blank
    /\ phase = "header" =>
          fs_version[scratch] = SST_SUPPORTED_VERSION /\ body[scratch] # Blank

(* The system is up and no wipe has erased the block it uses. *)
InUse ==
    /\ ready /\ body[active] # Blank
    /\ wiping => phase \in {"wipe1", "wipe2"}
    /\ phase # "clean"

InUseOK ==
    InUse =>
        /\ active = Chosen
        /\ acked = body[active]
        /\ failed # "erase" => scratch \notin ValidBlocks
        /\ failed # "header" =>
              ram_count = IF phase = "header" THEN NextSwapCount(swap_count[active])
                                              ELSE swap_count[active]

(* The system is up, but the last wipe left no valid block. *)
LostOK ==
    ready /\ body[active] = Blank /\ phase # "clean" => ValidBlocks = {}

CleanOK ==
    phase = "clean" =>
        /\ active \in ValidBlocks
        /\ acked = body[active]
        /\ ram_count = swap_count[active]
        /\ active = Chosen \/ (failed = "header" /\ body[scratch] = previous)

WipeOK ==
    /\ phase \in {"wipe1", "wipe2"} /\ Chosen # NoMetaBlock =>
          active = Chosen /\ first = SST_OTHER_META_BLOCK(Chosen)
    /\ phase = "wipe2" =>
          body[first] = Blank /\ swap_count[first] = SST_FLASH_DEFAULT_VAL
    /\ wiping /\ phase \in {"body", "header"} =>
          /\ active = SST_METADATA_BLOCK0
          /\ body[active] = Blank
          /\ swap_count[scratch] = SST_FLASH_DEFAULT_VAL
          /\ acked = Unformatted

(* What every step of sst_core.c between two flash operations preserves:   *)
(* the inductive invariant behind Atomic, Durable and NoRollback.          *)
IInv ==
    /\ TypeOK
    /\ Atomic
    /\ SwapOrder
    /\ CountIsLast
    /\ PhaseShape
    /\ InUseOK
    /\ LostOK
    /\ CleanOK
    /\ WipeOK
=============================================================================
