# Trusted Firmware-M in TLA+

A verification development for the Trusted Firmware-M code in this repository:
TLA+ modules translated from the C source, configurations that model-check them
with TLC on small instances, and theorems that TLAPS proves for every value of
the constants. `PROJECT.json` maps each definition to the lines it models.

## The system

| Part | Source | State | Operations that change it | Status |
|---|---|---|---|---|
| Secure storage core | `secure_storage/sst_core.c` | flash blocks (metadata and data); RAM context `sst_system_ctx` | create, write, delete, prepare, wipe | modelled, commit protocol proved |
| Flash access | `secure_storage/flash/sst_flash.c` | flash | program, move, erase | modelled, as steps of the core |
| Object layer | `secure_storage/sst_object_system.c` | the buffer `g_sst_object`, `sst_system_ready`, object headers | prepare, create, read, write, attributes, delete | modelled, proved |
| Asset management | `secure_storage/sst_asset_management.c` | none of its own | access policy in front of the object layer | modelled, proved |
| Audit log | `audit_logging/log_core.c` | `log_buffer`, `log_state`, `global_timestamp` | add line, delete items; retrieve reads | modelled, proved |
| Secure function calls | `core/tfm_secure_api.c`, `core/tfm_handler.c` | processor registers, secure lock | request, return, buffer area; the checks read | modelled, proved |
| Partition manager | `spm/spm_api.c`, `spm_hal.c` | partition database, MPU | init loop, setters, sandbox | modelled, proved |
| Non-secure lock | `interface/src/tfm_ns_lock_rtx.c` | mutex, initialisation flag | init, dispatch | modelled, safety proved |
| Boot loader swap | `bl2/ext/mcuboot/bootutil/src/loader.c`, `bootutil_misc.c` | two slots, scratch area, status and trailers | boot, swap, resume, set pending, confirm | modelled |
| Core start-up | `core/tfm_core.c` | registers | main, from the partition loop on | partly |
| Encryption of objects | `secure_storage/sst_encrypted_object.c` | IV counter | encrypt, decrypt | not modelled (off in the default build) |
| Cryptography, JSON/JWT, veneers, drivers | see `PROJECT.json` | none that is shared, or registers | | not modelled |

How the parts meet: the boot loader chooses and swaps images, then starts the
secure firmware, which initialises the partitions. Non-secure threads take the
non-secure lock and enter a veneer; the secure function call switches to the
partition of the service. The storage service checks access (asset management),
adds a header (object layer) and calls the storage core, which programs flash
through the flash layer. The audit log is a service of its own.

What is hard to test here: power failures between any two flash operations of
storage and of the boot loader; a swap count that rolls over; flash operations
that report an error half way through; long sequences of creates and deletes;
a circular buffer with items of every size; nested and concurrent secure calls.
Each is a hazard in `PROJECT.json`, at its line, with the properties that would
catch it going wrong, or a note saying why none does.

| Modules | Model |
|---|---|
| `SSTStore`, `SSTCore`, `SSTMeta`, `SSTMetaSwap`, `SSTMetaSwapProofs` | storage core: promise, code, shared definitions, update protocol and its proofs |
| `AssetStore`, `SSTObject`, `SSTObjectProofs` | storage service: promise, object layer and asset management on top of `SSTStore`, proofs |
| `LogFifo`, `AuditLog`, `AuditLogProofs`, `Induction` | audit log: promise and code, proofs, and the induction they use |
| `SecureCall`, `MemCheck`, `NSLock`, `SecureCallProofs`, `MemCheckProofs`, `NSLockProofs` | secure calls and partitions, the checks of callers and buffers, threads behind the lock, proofs |
| `BootSlots`, `BootSwap` | image swap: promise and code |
| `MC*` | instances for TLC |

Operators marked `Slip` are mutated forms of the definition that follows them;
`PROJECT.json` lists which property catches which.

## Secure storage

### Three levels

* `SSTStore` is what `sst_core.h` promises: a map from identifiers to objects,
  changed by create, write, delete and wipe in one step each. A wipe takes two:
  the content is given up, then the store is formatted.
* `SSTCore` is `sst_core.c`. TLC checks that it implements `SSTStore`.
* `SSTMetaSwap` is the update protocol alone, everything a metadata block leads
  to being one opaque content. It is small enough to be proved about.

`SSTMeta` holds what the last two share: the swap count and the choice of the
active metadata block at start-up.

### `SSTCore` and the code

`flash` is a function from blocks to addresses to values; header, swap count,
block table entries, object table entries and units of data are addresses. The
swap count has an address of its own because the code programs it on its own.
`ctx` is `sst_system_ctx` without `scratch_metablock`, which is always the other
metadata block. `ready` is `sst_system_ready`.

A call (`sst_core_object_create`, `_write`, `_delete`, `sst_core_prepare`,
`sst_core_wipe_all`) decides from flash and RAM what to do and leaves the list
of flash operations it will perform in `todo`, each with the RAM context after
it, the context if it fails, and what the code does with its result (return it,
return it later, ignore it, or return success). `FlashStep` performs one,
`FlashError` fails one, and `PowerFail` may come anywhere: it clears RAM and
keeps flash. Reads are the operator `View`, which decodes what a reader finds.

`durable` and `call` are history: the objects a restart would find now, and the
running call with the stores it found and is to leave. The refinement maps
`store` of `SSTStore` to `durable`.

Abstractions:

* Block moves are one step. The code moves a buffer at a time, into a block that
  no restart reads before the swap count is programmed.
* A 32-bit word of metadata is a number modulo `Word` (100), more than any
  proper value of an instance, so that an erased word and a wrapped one differ
  from all proper ones.
* Callers keep to the sizes that `sst_object_system.c` has checked.
* The build is the default one: no encryption, metadata validated on every read
  (`SST_VALIDATE_METADATA_FROM_FLASH`).
* A flash operation that reports an error has changed nothing.

### `SSTMetaSwap` and the code

Two metadata blocks with `fs_version`, `swap_count` and `body`; RAM with
`active`, `ram_count` and `ready`; `phase` says where the running function
stands. Updates write any content into the scratch block, one step at a time
(`WriteScratch`), then its header, then its swap count, which commits; the blocks
are swapped in RAM and the new scratch block is erased. A wipe erases the scratch
block, then the active one, and formats. Each operation may fail, and power may
fail anywhere. `acked` is the content last committed, `previous` the one
before it until the update is finished. `failed` is the kind of operation that
has failed so far: in one behaviour headers fail or erases fail, not both (see
the limits below).

### `SSTObject` and the code

`store` is the core's store as `SSTStore` defines it, with `SSTStore`'s own
operators for create and delete; an object is a header followed by data units.
`g_sst_object` is the one static buffer all calls share. A call that a check
refuses returns an error and changes nothing, so it is not an action; the others
are one action each, from the policy down to the core call, because the storage
partition is never entered twice (proved of `SecureCall`) and `sst_global_lock`
is empty. `sst_object_create` is the exception: it makes two core calls, and
power or the medium may fail between them, so `CreateHeader` is a step of its own
and `creating` says that it is due.

A core call that changes something ends as done, failed, or (for a create) failed
after the commit. `DataUnread` is a read or write whose second flash read fails
and leaves the buffer with one asset's header and another's data. `last` is
history: the last call that succeeded, with its arguments and its result. `torn`
is history: assets whose creation was cut between the core calls.

Refinement: `AssetStore` says that each call changes one asset in one step. An
object without a header maps to no asset.

Assumed: the core's delete is atomic. `SSTCore` shows that for objects in logical
block 0, and finding 1 is that it is not elsewhere. `sst_am_prepare` is that of a
build with `SST_RAM_FS` (AN519, AN521 and Musca-A), which formats an unformatted
store. Buffers that a caller passes have been checked (`MemCheck`).

## Audit log

`LogFifo` is a sequence of items limited by a capacity in words: a new line
pushes out as many of the oldest items as it must. `AuditLog` is `log_core.c`:
words in a circular buffer, and `log_state` with the index of the first and the
last item, their number and total size. Items are found only by walking along
the SIZE fields, as the macros of the code do. `Items` decodes the buffer that
way and is the refinement mapping. Retrieval changes nothing, so it is an
operator, checked in every reachable state for every buffer size and start.

Refused calls (non-secure callers, lines too long or not a multiple of a word)
change nothing and are left out. The unit is the word; timestamps count modulo
`Stamps`, more than the number of items that fit. `cut` is history: some but not
all items were deleted at some time, after which sizes are no longer exact
(finding 4). The properties about sizes and retrieval speak of the time before.

## Secure calls

`SecureCall` keeps apart what really runs and what the core believes. `frames`
is the stack of active functions, `psp`, `nPRIV`, `mpu` and `pris` the processor's
state; the partition database is the code's. The properties relate the two.

* `tfm_core_sfn_request_function` is a request: the rules, the checks of
  `tfm_push_lock`, then its effects, or the error. `tfm_core_partition_return` is
  the way back through `tfm_pop_lock`. Requests come from the start-up loop, from
  a partition that runs, and from the non-secure side whenever it is not held off
  (`pris`). A handler runs to its end: SVC handlers do not preempt each other.
* A stack pointer is whose stack it is on and how many exception frames are on
  it. `mpu` is the partition whose memory is open and the shared region.
* Isolation levels 1 and 3 are both in each run; `level` is chosen initially. The
  code has no other one.
* `halted`: the core is in its endless loop. A reserved return value leads there,
  except in a direct call of level 1.

Left out: the integrity check of the request descriptor, which succeeds for the
descriptors the veneers build; fault handlers, which stop the system; the
SUSPENDED state, which nothing sets; init functions that call other partitions,
since there are none.

`MemCheck` adds `tfm_core_validate_secure_caller` and
`tfm_core_memory_permission_check` as operators, over words of `AddressCount`
values where sums wrap. The compiler's `cmse_check_address_range` is external.

`NSLock` composes `SecureCall` with threads: dispatch, wait for the mutex, SVC,
return, release. The step of a thread that calls is a step of `SecureCall`, and
`NSLockProofs` proves that every behaviour of the composition is one of
`SecureCall`, so that its theorems hold there. Direct calls, past the lock, are
made too, and are refused. Assumed: `osMutexNew` succeeds. `tfm_ns_lock_init`
ignores a NULL from it (`tfm_ns_lock_rtx.c:127`) and sets `init` all the same, and
`osMutexAcquire` would then fail unnoticed and exclude nobody. The one mutex is
created in `main` right after `osKernelInitialize`, before there is any thread.

## Boot loader

`BootSlots` is what the application sees: two images, a request, an image on
trial; a boot decides in one step. `BootSwap` is the code: `flash` has sectors of
images and a trailer (magic, copy_done, image_ok, swap_size, status entries) in
each of slot 0, slot 1 and scratch. `boot_swap_if_needed` reads the trailers and
leaves the flash operations still to do in `ops`; `FlashOp` does one;
`boot_mark` and `boot_jump` are the rest of `boot_go`. The running image stages
images, good or bad, padded by imgtool or not, and calls `boot_set_pending` and
`boot_set_confirmed`, which are sequences of flash operations too. `PowerFail`
comes between any two operations, or in the middle of a copied sector. Asserts
and the endless loop are `Halt`.

The operations of a boot can be fixed when it decides, because from then on
nothing but the loader writes flash and the code makes no further choice from
what it reads; the two that copy a flag or entries read their source when
they are done.

Assumed: an erase of one sector and a write of one trailer field are indivisible;
slots are compatible and have sectors of one size.

Three kinds of power failure make the loader lose track of a swap (finding 5):
`FragileSwap` describes the moments. Run `boot` excludes them (`AllFails` FALSE),
so `NoImageLost`, `WritesErased`, `ImplementsSlots` and `BootCompletes` are shown for
power failures anywhere else. A fresh revert may be cut before it
erases slot 0's old trailer and after it has set `image_ok`, not in between; a cut
in between ends in a swap that is completed but not confirmed, or not resumed at
all. Run `boot_image_lost` allows all failures (`AllFails` TRUE) and shows that an
image is then destroyed. `view` is history: what the last completed boot or call
left behind.

## Runs

| Run | Instance | Checks |
|---|---|---|
| `swap` | 5 swap counts, 3 contents, failing headers or failing erases | `Atomic`, `Durable`, `IInv`, `NoRollback` |
| `core_two_blocks` | 2 blocks, 2 objects, program unit 2, sizes 1 and 3, offsets 0 and 1, wipes, one flash error in create, write or prepare | `CallIsAtomic`, `RamMatchesFlash`, `Layout`, `ProgramsErasedFlash`, `ProgramsWholeUnits`, `ImplementsStore` |
| `core_four_blocks` | 4 blocks of 4 units, 3 objects of 2 units, 2 values, deletions in every block, wipes | `CallIsAtomic`, `Layout`, `RamMatchesFlash`, `ProgramsErasedFlash` |
| `object` | an asset of 2 units and one of 1, secure code and one application, 2 values, 2 attributes | `HeaderMatches`, `ReturnsContent`, `UsableUnlessTorn`, `ChangesAsAsked`, `ImplementsAssets` |
| `log` | 10 words, lines of 0, 1, 2, 4 and 7 words, deletions of any number | `ItemsSealed`, `StoredSizeIsTotal`, `RetrievesRecent`, `RetrievesFromFirst`, `ImplementsFifo`, `ReplacesNoMore` |
| `calls` | 3 user partitions (1 trusted, 2 with an init function), 2 threads, levels 1 and 3, 16 addresses | `ChainMatches`, `NoAnomaly`, `Isolated`, `StacksBalanced`, `CallInv`, `OneCaller`, `CallerKnown`, `PermissionExact`, `StartsUp`, `DispatchReturns` |
| `boot` | slots of 3 sectors, images of different lengths, scratch of 1, 2 or 3 sectors, 2 power failures, 2 staged images | `TypeOK`, `NoImageLost`, `WritesErased`, `ImplementsSlots`, `BootCompletes` |
| `delete_other_block` | 4 blocks, deletions in every block | violates `DeleteKeepsOthers` |
| `compact_from_free_entry` | 4 blocks, 4 objects | violates `CompactsFromNextObject` |
| `attributes_by_reference` | as `object` | violates `OnlyWritersChange` |
| `log_retrieval_from_index` | any start, partial deletions | violates `RetrievesFromAny` |
| `boot_image_lost` | scratch of 3 sectors, one power failure anywhere | violates `NoImageLost` |

Why these bounds:

* The swap count has 3 or 5 values instead of 255, so it rolls over within a
  few updates. Below 3 a roll-over could not be told from an update
  (`DefaultValAssumption`); the proofs cover every larger number.
* Two blocks is the smallest area, where data lives in the metadata blocks; four
  is the smallest with a dedicated data block and a data scratch block. The
  default platforms have five, with a second dedicated block, which is handled by
  the same code; the instance is beyond what TLC does in minutes.
* Two objects are enough for one to be moved, or destroyed, while the other
  changes; on two blocks their different sizes make extents differ, and the block
  fills up so that create is refused. On four blocks the third object gives the
  dedicated block two objects while block 0 has one; the objects have one size
  there, which keeps the instance within minutes. A fourth is needed only for
  stale free entries.
* Two assets of different sizes are the fewest for which the shared buffer holds
  more of one than belongs to the other; one application has all permissions on
  one and only the reference on the other, so every row of the policy occurs.
* The log of 10 words holds up to three items. Lines of 0 words (the smallest),
  7 words (the largest that fits) and sizes between put an item, its SIZE field and
  its MAC across the end of the buffer at every place.
* Three partitions allow a chain in which the last could call the first. The
  memory has a region of each kind with addresses before, in and behind it, and
  every start and size is tried.
* Three sectors with a scratch of one make three groups, a scratch of two makes
  two of unequal size, and a scratch of three makes one. Two power failures cut a
  swap and the boot that resumes it. Two staged images leave trailers of one swap
  behind for the next.
* Values, and the identifiers of the core, are symmetric: the code only compares
  them.

`DeleteBlocks`, `WipesAllowed` and `ErrorCalls` restrict the callers and the
errors of a storage instance. `CallIsAtomic` speaks of deletions in logical block
0 only, because of finding 1.

Fairness. `boot`: the loader goes on as long as there is power
(`WF(Loader)`); nothing makes power fail, or the image call. `calls`: main goes
through its loop, a thread that can run does, and a secure function returns in
the end, after finitely many calls of its own (strong, for each depth of the
call stack, because it makes calls in between); the RTX kernel hands a mutex to
the threads in the order they wait, hence strong fairness of `osMutexAcquire`.
Nothing makes a thread dispatch a request. The other runs check safety and assume
none.

Type correctness is part of `IInv`, `RamMatchesFlash`, `HeaderMatches`,
`ItemsSealed` and `CallInv` (of `SecureCall`).

Deadlock is checked, except in `calls` and the boot runs, where the core or the
loader may be in its endless loop.

## What the proofs show

`SSTMetaSwapProofs`, for every number of swap counts above 2, every set of
contents and either kind of flash error:

| Theorem | States |
|---|---|
| `TypeCorrect` | `TypeOK` always holds; the count in RAM is never the erased value |
| `Inductive` | `IInv` always holds |
| `PowerFailureSafe` | `Atomic`: a restart finds the last committed content, or the one before it while the last update is unfinished |
| `RamAgreesWithFlash` | `Durable`: the block the running system uses is the one a restart would choose |
| `UpdatesAreNotLost` | `NoRollback`: no step makes a restart find anything but the content just committed |

Assumptions: `DefaultValAssumption`; `ContentsAssumption` (the values for erased
and for unformatted are no contents).

`Atomic` is not inductive: it says nothing of the scratch block, which the next
step may commit. `IInv` adds that

* two valid blocks differ by exactly one update (`SwapOrder`), without which the
  roll-over would be misread;
* a block with a swap count is complete (`CountIsLast`);
* each phase of a function has left flash and RAM in the shape the next one needs
  (`PhaseShape`, `CleanOK`, `WipeOK`);
* a running system uses the chosen block, counts on from its count, and after a
  failed wipe finds no valid block (`InUseOK`, `LostOK`).

There is one lemma for each action that writes flash and one (`QuietStep`) for those
that do not. Each shows both that `IInv` is preserved and that the step is a
`RestartStep`. They rest on `ActiveIsSuccessor`: of two valid blocks, the one
whose count follows the other's is chosen, roll-over included.

`SecureCallProofs`, for any number of partitions, any of them trusted or with
an init function, and both isolation levels:

| Theorem | States |
|---|---|
| `CallSafety` | `CallInv` always holds |
| `ChainHolds` | `ChainMatches`: the database is an image of the call stack, and no partition is on it twice |
| `NoAnomalyHolds` | `NoAnomaly`: what the core takes for corruption does not come from its own working |
| `IsolationHolds` | `Isolated`: open memory, shared region and privilege are those of who runs |
| `StacksHold` | `StacksBalanced`: every function runs on its stack and leaves it as it was |

Assumption: `CallAssumption` (entries 0 and 1 of the database are the non-secure
side and the core; levels are 1 and 3). None of the properties is inductive. That
a return finds its caller's region needs that waiting partitions keep theirs
(`SharesKept`); that it finds the stack, what was saved for each frame
(`StacksKept`); that the non-secure side cannot come in between, that it is held
off while something it called runs (`HeldOff`); and start-up, where almost every
rule has an exception, is described by `StartUp`. `CallInv` is their conjunction.
`PushInv` and `PopInv` carry the argument: a request that passes the checks of
`LockResult` appends a partition that is not in `frames`; a return removes the
last, and the database entries of the others have not changed. One lemma for
each action follows from them.

`NSLockProofs`, for any number of threads: `ImplementsCalls` (every behaviour with
threads and lock is one of `SecureCall`) and `OneCallerHolds` (`OneCaller`, from
`LockInv`, which adds that nobody goes for the lock before it exists).

`MemCheckProofs`, for every memory map and width of an address:
`CallerKnownHolds` (`CallerKnown`, from `ChainMatches`: the caller in the database
is the function below on the stack) and `PermissionExactHolds`
(`PermissionExact`). Assumption: `MemoryAssumption` (the memories are intervals
and apart; scratch is part of the secure data, and what is behind it is not
non-secure memory). The argument: a buffer that is not empty lies in an interval
when its two ends do (`BufferIn`); the code's comparison, where the limit less the
size wraps, says just that because the size is checked first (`RangeExact`); the
regions of the SAU and the MPU tell the memories apart (`SauFacts`, `MpuFacts`);
and the region the MPU has open is the running partition's (`Isolated`).

`SSTObjectProofs`, for every policy, any number of assets and any sizes:

| Theorem | States |
|---|---|
| `ObjectSafety` | `ServiceInv` always holds |
| `HeaderMatchesHolds` | `HeaderMatches`: a stored header belongs to its object and gives the length of the data |
| `UsableUnlessTornHolds` | `UsableUnlessTorn`: an object without a header is one whose creation was not finished |
| `ContentReturned` | `ReturnsContent`: a call returns what its asset holds, to a caller who may have it |
| `ChangedAsAsked` | `ChangesAsAsked`: an asset changes only as a call asked that the code's policy lets through |
| `AssetsImplemented` | `ImplementsAssets`: every behaviour is one of `AssetStore` |

Assumption: `PolicyAssumption` (an asset has a maximum size above 0 and one of
them is the largest; what marks an absent asset or call is neither). The
invariant `ServiceInv` has three parts. `ObjectInv` adds to the properties that
while a creation is between its core calls the object is empty and its header is
in the buffer, that a running service has a formatted store, and that the buffer,
whatever was in it before, has room for every asset. `CallInv` says that a service
that is not ready has answered nothing, and that a creation under way is one the
policy allows: the permission was checked one step, and one core call, before the
asset appears. The third part is `ReturnsContent` itself. `OverwriteMatches` is the
heart of it: units written over the start of an object leave a sound one if they
begin with a header for the longer of the two. `ChangedBuffer` shows that a write
hands over such units, and that none of them is left from another asset. Each
action has one lemma, for the invariant, for the change it makes to each asset and
for the refinement (`ObjectStep` joins them).

`AuditLogProofs`, for every size of the buffer, the header and the MAC, all lines
that fit and deletions of any number of items:

| Theorem | States |
|---|---|
| `LogInvariant` | `LogInv` always holds |
| `ItemsStaySealed` | `ItemsSealed`: every item a reader finds ends in its MAC, and `last_el_idx` is the last of them |
| `StoredSizeStaysTotal` | `StoredSizeIsTotal`: `stored_size` is exact until some of the items are deleted |
| `RecentIsRetrieved` | `RetrievesRecent`: the newest items that fit, for every size of the result |
| `FirstIsRetrieved` | `RetrievesFromFirst`: the oldest items that fit, for every size of the result |
| `NoMoreIsReplaced` | `ReplacesNoMore`: a new line pushes out no item that could have stayed |
| `LogImplementsFifo` | `ImplementsFifo`: every behaviour is one of `LogFifo` |

Assumption: `LogAssumption` (a header has a timestamp and a size, the MAC a word, an
item without a line fits, and there are more timestamps than items). That the
items are sealed is not inductive: a new item is written where the last one ends,
and only their total size keeps it from the first. `LogInv` says that the items
found along the SIZE fields lie behind each other within `stored_size` words, which
is at most the buffer (`Stored`), that `stored_size` is exact unless `cut`, and that
`last_el_idx` is the last item. After a partial deletion `stored_size` is too large,
never too small, so items are still not overwritten: `LogImplementsFifo` and
`ItemsStaySealed` need no condition on `cut`.

The model finds items with recursive functions, and `Induction` is what makes them
provable: it states induction for a *set* of numbers, which the provers can
instantiate. By it the recursive functions exist and have the expected
equations (`WalkStep`, `SpaceStep`), an item's index is the first one's plus the
space before it, modulo the buffer (`Position`), and the walk does not change when
words outside of it do (`Frame`). `DropStored` and `AddStored` are the two ways a log
changes. `CopiedWords` says what the two parts of a copy across the end of the
buffer leave at each index.

Only model-checked: `SSTCore`, `BootSwap`, and the refinements of `SSTStore` and
`BootSlots`. Liveness (`BootCompletes`, `StartsUp`, `DispatchReturns`) is out of the
prover's reach and stays with TLC.

## Findings

1. **A deletion in a dedicated data block loses the data of logical block 0**
   (`sst_core.c:1642`, run `delete_other_block`). Every metadata update swaps the
   metadata blocks, and logical block 0 lives in them. Create (1271) and write
   (1450) migrate its data as the note at 1073 asks; delete does not.
2. **A deletion may compact from the wrong place** (`sst_core.c:1613`, run
   `compact_from_free_entry`). A freed entry keeps its data index and gets logical
   block 0; a later deletion there takes it for an object to move.
3. **Attributes are set by callers who may only read** (`sst_asset_management.c:362`,
   run `attributes_by_reference`). `sst_am_set_attributes` asks the policy for any
   of all permissions, READ among them, which for secure code acting for an
   application becomes REFERENCE; an application that may only read passes too.
   The comments in `sst_am_check_s_ns_policy` say
   that such code "only allows read by reference" (93) and that "Other permissions
   can not be delegated" (113). `OnlyWritersChange` states the rule of the comments,
   `ChangesAsAsked` the one of the code: the two differ in `set_attributes` only.
4. **Retrieval from a later start runs past the newest item** (`log_core.c:682`,
   run `log_retrieval_from_index`). After a partial deletion retrieval from the
   oldest item does so too: `log_core_delete_items` leaves `stored_size` as it was
   (490), although it is "the total size of the items currently stored in the log"
   (129). `StoredSizeIsTotal`, `RetrievesFromFirst` and `ReplacesNoMore` speak of the
   time before (`cut`); `RetrievesFromAny` does not.
5. **An interrupted image swap is not always completed, and may destroy an image**
   (`loader.c:101`, run `boot_image_lost`), although `boot_copy_image` says that it
   is completed (976). (a) With an image that reaches the last sector the status is
   in scratch, but the trailer of an earlier swap, or of padding, in slot 0 hides
   it: the next boot boots half-swapped slots, or rejects the new image as invalid
   and erases slot 1, in which those of its sectors are that scratch, if it is
   smaller than a slot, has no copy of. (b) The trailer in slot 0
   has just been erased and scratch still has one of an earlier swap, which is
   taken for the status: the next boot takes up the swap at group 0, state 2, and
   erases slot 0 (922), the only place where its image was. (c) A revert that is
   cut is not recognised as one (`boot_previous_swap_type`).

   The run shows (b); with a scratch of two sectors it shows (a). A test swap of a
   large image B and a small image A goes well; B reaches the last sector, so
   scratch keeps a trailer with a good magic and two entries. A small image C is
   then put into slot 1 without a request, and a reset starts the revert. It
   copies C to scratch, whose last sector is not erased again, and erases slot 0's
   trailer (888). The power fails. The next boot finds no magic in slot 0, takes
   scratch's trailer, and erases A in slot 0.

Also noticed, without a run of its own:

* `sst_core_wipe_all` is documented to wipe "all the storage" (`sst_core.h:190`),
  but its erase loop (`sst_core.c:1856`) covers no block on areas of up to six
  blocks: old data stays in the data blocks. It does no harm to later calls:
  `core_four_blocks` shows that only erased flash is programmed, since every update
  ends by erasing the data scratch block.
* `log_core.h` asks for lines of at least 20 bytes, which is not checked. The
  run adds shorter ones, down to 0, and they work.
* `sst_object_create` returns success for an object whose creation was cut between
  its two core calls, and that object can be neither read nor written until it is
  deleted (`UsableUnlessTorn` says that this is the only way to get one).
* The comment at `sst_core.c:607` calls it necessary that the old metadata block is
  erased before the old data block. Start-up prefers the newer of two valid
  metadata blocks, so no property of the models depends on that order; that both
  are erased only after the commit does matter (`CallIsAtomic`).
* `tfm_spm_partition_err_handler` passes a partition id for an index, which is
  outside the database: a partition whose init function fails stays callable.
* `boot_set_pending(1)` cut between its two writes leaves a request for a test.
  `BootSlots` allows that.
* The MPU limit of the scratch region is inclusive and one granule too far. The
  software check behind it is exact (`PermissionExact`).

The integration guide (`tfm_sst_integration_guide.md:63-65`) leaves failures of
the storage medium out of the design, so these are limits and not findings:

* A flash error after the exchange of the data scratch block in RAM
  (`sst_core.c:1415`), on four blocks, leaves `scratch_idx` naming a block in use.
  `core_two_blocks` is therefore the run with errors.
* Delete and wipe ignore the result of some writes. `ErrorCalls` leaves them out.
* A header that fails, followed by an erase that fails, leaves two valid blocks
  whose counts differ by two. The history variable `failed` excludes this.
* A read error in a lookup is answered with NOT_FOUND (`sst_core.c:1211`), and a
  create that follows would make a second object. Lookups in the models succeed.

## Not modelled

Most lines of the repository are not a system with states of its own, and models
of them would say nothing:

* CMSIS and device headers, and the platform drivers and start-up code: register
  definitions, and register access in a fixed order.
* Cryptography (TinyCrypt, the audit log's and the boot loader's use of mbed TLS,
  image signatures), JSON and JWT: computations without shared state; to a
  protocol they are a Boolean, as `Valid` is to `BootSwap`.
* Encryption of objects: off in the default build.
* Veneers and client APIs: pass-through calls.
* The copy of a log line to the UART: output only.
* Test suites and the example application, except its use of the non-secure lock.
* `MCUBOOT_OVERWRITE_ONLY`, which the build does not select.

What is modelled is the code that keeps state across calls, partitions or resets.
Open within it: that `SSTCore` implements `SSTMetaSwap`, which would carry the
theorems over to the detailed core; an instance of `SSTCore` with five blocks; and
the hazards with a note in `PROJECT.json`.
