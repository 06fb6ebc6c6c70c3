------------------------------ MODULE BootSwap -------------------------------
(***************************************************************************)
(* The boot loader's image swap (bl2/ext/mcuboot/bootutil, built with      *)
(* MCUBOOT_VALIDATE_SLOT0 and without MCUBOOT_OVERWRITE_ONLY).  Two image  *)
(* slots are exchanged sector group by sector group through a scratch      *)
(* area.  How far the exchange got is recorded in status bytes in the      *)
(* trailer at the end of slot 0, or of scratch while the group that holds  *)
(* slot 0's own trailer is exchanged.  A reset may come between any two    *)
(* flash operations; the next boot must find out from the trailers what    *)
(* was going on.                                                           *)
(*                                                                         *)
(* boot_go runs as: read the trailers and decide, which yields `ops', the  *)
(* flash operations still to do (boot_swap_if_needed); do them one by one  *)
(* (FlashOp); mark the outcome in slot 0's trailer (boot_mark); check      *)
(* slot 0 and jump (boot_jump).                                            *)
(***************************************************************************)
EXTENDS Integers, FiniteSets, SequencesExt

CONSTANTS
    Images,         \* records [id, len]: an image takes len sectors of a slot
    None,           \* no image
    Sectors,        \* sectors of an image slot; the last holds the trailer
    ScratchSizes,   \* sizes, in sectors, the scratch area may have
    MaxFails,       \* bound: power failures while the loader runs
    MaxStages,      \* bound: images put into slot 1
    AllFails        \* power may also fail where the loader is known to
                    \* lose track of a swap (FragileSwap)

ASSUME BootAssumption ==
    /\ Sectors \in Nat \ {0}
    /\ \A img \in Images : img.len \in 1..Sectors
    /\ ScratchSizes \subseteq 1..Sectors
    /\ MaxFails \in Nat /\ MaxStages \in Nat /\ AllFails \in BOOLEAN

VARIABLES
    flash,      \* area -> data sectors and trailer; all else is volatile
    mode,       \* "reset", "swap", "mark", "run" or "halt"
    ops,        \* flash operations still to do before the next decision
    swap_type,  \* local of boot_go; "resume" until the partial swap is done
    fails,      \* power failures so far
    stages,     \* images staged so far
    view        \* history: what the last completed boot or call left behind

vars == <<flash, mode, ops, swap_type, fails, stages, view>>

Areas == {"slot0", "slot1", "scratch"}
Slot(s) == IF s = 0 THEN "slot0" ELSE "slot1"
------------------------------------------------------------------------------
(* Flash contents.  A sector is erased or holds a sector of an image, which *)
(* is not whole when the copy was cut between two chunks.                   *)
Erased == <<>>
Part(img, i) == [img |-> img, i |-> i, whole |-> TRUE]

(* status: offsets of the status entries written; an entry is (idx, state) *)
(* at offset 3 * idx + state.                                              *)
Blank == [magic |-> "unset", copy_done |-> FALSE, image_ok |-> FALSE,
          swap_size |-> 0, status |-> {}]

BOOT_STATUS_STATE_COUNT == 3

area_sectors(f, a) == Len(f[a].data)

(* EraseSector: the last sector of an area takes the trailer with it. *)
flash_area_erase(f, a, i) ==
    [f EXCEPT ![a].data[i] = Erased,
              ![a].tr = IF i = area_sectors(f, a) THEN Blank ELSE @]

(* A slot's trailer is never copied with the data of its last sector; image *)
(* data in scratch's last sector covers scratch's trailer, unless the group *)
(* is the one that leaves room for a trailer (`keep').                      *)
flash_area_copy(f, o, whole) ==
    LET c == f[o.src].data[o.i]
    IN  [f EXCEPT
            ![o.dst].data[o.j] =
                IF c = Erased THEN c ELSE [c EXCEPT !.whole = @ /\ whole],
            ![o.dst].tr =
                IF o.dst = "scratch" /\ o.j = area_sectors(f, "scratch")
                       /\ ~o.keep /\ c # Erased
                THEN [Blank EXCEPT !.magic = "bad"] ELSE @]

(* Slip: one sector too few is erased. *)
EraseTooFew(a, lo, hi) == [k \in 1..(hi - lo) |->
                              [op |-> "erase", dst |-> a, i |-> lo + k - 1]]

Erase(a, lo, hi) == [k \in 1..(hi - lo + 1) |->
                        [op |-> "erase", dst |-> a, i |-> lo + k - 1]]
Copy(a, i, b, j, n, keep) == [k \in 1..n |->
    [op |-> "copy", src |-> a, i |-> i + k - 1,
     dst |-> b, j |-> j + k - 1, keep |-> keep]]
boot_write_magic(a) == <<[op |-> "magic", dst |-> a]>>
boot_write_image_ok(a) == <<[op |-> "image_ok", dst |-> a]>>
boot_write_copy_done(a) == <<[op |-> "copy_done", dst |-> a]>>
boot_write_swap_size(a, n) == <<[op |-> "swap_size", dst |-> a, n |-> n]>>
(* Slip: the entries of a group leave room for one more state. *)
WriteStatusTooFar(a, idx, state) ==
    <<[op |-> "status", dst |-> a,
       n |-> (BOOT_STATUS_STATE_COUNT + 1) * idx + state]>>

boot_write_status(a, idx, state) ==
    <<[op |-> "status", dst |-> a,
       n |-> BOOT_STATUS_STATE_COUNT * idx + state]>>

(* The flash after operation o. *)
Apply(f, o) ==
    CASE o.op = "erase"     -> flash_area_erase(f, o.dst, o.i)
      [] o.op = "copy"      -> flash_area_copy(f, o, TRUE)
      [] o.op = "magic"     -> [f EXCEPT ![o.dst].tr.magic = "good"]
      [] o.op = "image_ok"  -> [f EXCEPT ![o.dst].tr.image_ok = TRUE]
      [] o.op = "copy_done" -> [f EXCEPT ![o.dst].tr.copy_done = TRUE]
      [] o.op = "swap_size" -> [f EXCEPT ![o.dst].tr.swap_size = o.n]
      [] o.op = "status"    -> [f EXCEPT ![o.dst].tr.status = @ \cup {o.n}]
      [] o.op = "inherit_ok" ->
            [f EXCEPT ![o.dst].tr.image_ok = @ \/ f[o.src].tr.image_ok]
      [] o.op = "entries"   ->
            [f EXCEPT !["slot0"].tr.status = @ \cup f["scratch"].tr.status]

(* The cells operation o programs are erased. *)
ProgramsErased(f, o) ==
    LET tr == f[o.dst].tr
    IN  CASE o.op = "erase"     -> TRUE
          [] o.op = "copy"      -> f[o.dst].data[o.j] = Erased
          [] o.op = "magic"     -> tr.magic = "unset"
          [] o.op = "image_ok"  -> ~tr.image_ok
          [] o.op = "copy_done" -> ~tr.copy_done
          [] o.op = "swap_size" -> tr.swap_size = 0
          [] o.op = "status"    -> o.n \notin tr.status
          [] o.op = "inherit_ok" -> ~(tr.image_ok /\ f[o.src].tr.image_ok)
          [] o.op = "entries"   -> tr.status = {}
------------------------------------------------------------------------------
(* Reading the trailers. *)

(* boot_status_tables: the first line that matches. *)
boot_status_source(f) ==
    LET slot0   == f["slot0"].tr
        scratch == f["scratch"].tr
    IN  IF slot0.magic = "good"
        THEN IF slot0.copy_done THEN "none" ELSE "slot0"
        ELSE IF scratch.magic = "good" THEN "scratch"
        ELSE IF slot0.magic = "unset" /\ ~slot0.copy_done THEN "slot0"
        ELSE "none"

(* Slip: the first entry that is not written is taken. *)
ReadStatusBehind(entries) ==
    LET next == CHOOSE i \in 0..(BOOT_STATUS_STATE_COUNT * Sectors + 1) :
                    /\ i \notin entries
                    /\ \A j \in entries : j < i => j..(i - 1) \subseteq entries
                    /\ entries = {} => i = 0
                    /\ entries # {} => \E j \in entries : j < i
    IN  [idx |-> next \div BOOT_STATUS_STATE_COUNT,
         state |-> next % BOOT_STATUS_STATE_COUNT]

(* The last entry of the first run of written entries. *)
boot_read_status_bytes(entries) ==
    IF entries = {}
    THEN [idx |-> 0, state |-> 0]
    ELSE LET last == CHOOSE i \in entries :
                        /\ i + 1 \notin entries
                        /\ \A j \in entries : j < i => j..i \subseteq entries
         IN  [idx |-> last \div BOOT_STATUS_STATE_COUNT,
              state |-> last % BOOT_STATUS_STATE_COUNT]

boot_read_status(f) ==
    LET source == boot_status_source(f)
    IN  boot_read_status_bytes(
            IF source = "none" THEN {} ELSE f[source].tr.status)

(* Slip: a confirmed image is reverted as well. *)
SwapTypeIgnoresOk(f) ==
    LET slot0 == f["slot0"].tr
        slot1 == f["slot1"].tr
    IN  IF slot1.magic = "good"
        THEN IF slot1.image_ok THEN "perm" ELSE "test"
        ELSE IF slot0.magic = "good" /\ slot1.magic = "unset" /\ slot0.copy_done
             THEN "revert"
             ELSE "none"

(* boot_swap_tables: the first line that matches. *)
boot_swap_type(f) ==
    LET slot0 == f["slot0"].tr
        slot1 == f["slot1"].tr
    IN  IF slot1.magic = "good"
        THEN IF slot1.image_ok THEN "perm" ELSE "test"
        ELSE IF /\ slot0.magic = "good" /\ slot1.magic = "unset"
                /\ ~slot0.image_ok /\ slot0.copy_done
             THEN "revert"
             ELSE "none"

boot_previous_swap_type(f) ==
    LET post == boot_swap_type(f)
    IN  CASE post = "none"   -> "perm"
          [] post = "revert" -> "test"
          [] OTHER           -> "fail"

(* The header is in the first chunk of a slot's first sector. *)
HasHeader(f, a) == f[a].data[1] # Erased
boot_img_hdr(f, a) == f[a].data[1].img

(* The image is hashed over all its sectors. *)
boot_image_check(f, a) ==
    LET img == boot_img_hdr(f, a)
    IN  \A i \in 1..img.len : f[a].data[i] = Part(img, i)
Valid(f, a) == HasHeader(f, a) /\ boot_image_check(f, a)

boot_validated_swap_type(f) ==
    IF boot_swap_type(f) # "none" /\ ~Valid(f, "slot1") THEN "fail"
    ELSE boot_swap_type(f)

(* The size is in the TLV area behind the image; 0 when it is not there. *)
boot_read_image_size(f, a) ==
    LET img == boot_img_hdr(f, a)
    IN  IF f[a].data[img.len] = Part(img, img.len) THEN img.len ELSE 0
------------------------------------------------------------------------------
(* Swapping. *)

(* Write image_ok into b's trailer if it is set in a's. *)
InheritImageOk(a, b) == <<[op |-> "inherit_ok", src |-> a, dst |-> b]>>

boot_status_init_by_id(a, size) ==
    InheritImageOk("slot1", a)
        \o boot_write_swap_size(a, size) \o boot_write_magic(a)

boot_erase_last_sector_by_id(a) == Erase(a, Sectors, Sectors)

(* The group of sectors first..last, number idx from the end, of a swap of *)
(* `size' sectors, from state `state' on.                                  *)
boot_swap_sectors(first, last, idx, state, size) ==
    LET n           == last - first + 1
        use_scratch == idx = 0 /\ last = Sectors
        loc         == IF use_scratch THEN "scratch" ELSE "slot0"
        state0 ==
            Erase("scratch", 1, n)
                \o Copy("slot1", first, "scratch", 1, n, use_scratch)
                \o (CASE idx # 0     -> <<>>
                      [] use_scratch -> boot_status_init_by_id(loc, size)
                      [] OTHER       -> boot_erase_last_sector_by_id("slot0")
                                        \o boot_status_init_by_id(loc, size))
                \o boot_write_status(loc, idx, 1)
        state1 ==
            Erase("slot1", first, last)
                \o Copy("slot0", first, "slot1", first, n, FALSE)
                \o (IF idx = 0 /\ ~use_scratch
                    THEN boot_erase_last_sector_by_id("slot1") ELSE <<>>)
                \o boot_write_status(loc, idx, 2)
        state2 ==
            Erase("slot0", first, last)
                \o Copy("scratch", 1, "slot0", first, n, FALSE)
                \o (IF use_scratch
                    THEN <<[op |-> "entries", dst |-> "slot0"]>>
                         \o InheritImageOk("scratch", "slot0")
                         \o boot_write_swap_size("slot0", size)
                         \o boot_write_magic("slot0")
                    ELSE <<>>)
                \o boot_write_status("slot0", idx + 1, 0)
    IN  (IF state = 0 THEN state0 ELSE <<>>)
            \o (IF state <= 1 THEN state1 ELSE <<>>) \o state2

(* The first sector of the group that ends in `last'. *)
boot_copy_sz(last, scratch_sz) ==
    IF last > scratch_sz THEN last - scratch_sz + 1 ELSE 1

(* The sectors up to `size' in groups that fit scratch, from the last group *)
(* down; the groups before bs.idx are done.                                 *)
boot_copy_image(f, bs, size) ==
    LET k       == area_sectors(f, "scratch")
        total   == IF size = 0 THEN 1 ELSE size
        groups  == (total + k - 1) \div k
        group[idx \in Nat, last \in Nat] ==
            boot_swap_sectors(boot_copy_sz(last, k), last, idx,
                              IF idx = bs.idx THEN bs.state ELSE 0, size)
    IN  IF bs.idx >= groups THEN <<>>
        ELSE FlattenSeq([n \in 1..(groups - bs.idx) |->
                LET idx == bs.idx + n - 1 IN group[idx, total - idx * k]])

(* Slip: the size is always read from slot 0. *)
SwapSizeOfSlot0(f) == f["slot0"].tr.swap_size

boot_read_swap_size(f) ==
    IF f["slot0"].tr.magic = "good"
    THEN f["slot0"].tr.swap_size ELSE f["scratch"].tr.swap_size

(* The slots whose header is there, and the larger of their images' sizes. *)
WithHeader(f) == {a \in {"slot0", "slot1"} : HasHeader(f, a)}
LargestSize(f) ==
    LET sizes == {0} \cup {boot_read_image_size(f, a) : a \in WithHeader(f)}
    IN  CHOOSE n \in sizes : \A m \in sizes : m <= n
------------------------------------------------------------------------------
(* What the flash says of the slots when no boot is under way. *)
View(f) ==
    [slots   |-> [s \in 0..1 |-> IF Valid(f, Slot(s))
                                THEN boot_img_hdr(f, Slot(s)) ELSE None],
     request |-> IF f["slot1"].tr.magic # "good" THEN "none"
                 ELSE IF f["slot1"].tr.image_ok THEN "perm" ELSE "test",
     trial   |-> /\ f["slot0"].tr.magic = "good"
                 /\ f["slot0"].tr.copy_done /\ ~f["slot0"].tr.image_ok]

Filled(img) == [i \in 1..Sectors |-> IF i <= img.len THEN Part(img, i) ELSE Erased]
(* imgtool's padding ends in a trailer with nothing but the magic. *)
PadTo(padded) == IF padded THEN [Blank EXCEPT !.magic = "good"] ELSE Blank

(* A device as it leaves the factory: an image in slot 0, padded or not. *)
Init ==
    /\ \E img \in Images, padded \in BOOLEAN, k \in ScratchSizes :
        flash = [a \in Areas |->
            CASE a = "slot0"   -> [data |-> Filled(img), tr |-> PadTo(padded)]
              [] a = "slot1"   -> [data |-> [i \in 1..Sectors |-> Erased], tr |-> Blank]
              [] a = "scratch" -> [data |-> [i \in 1..k |-> Erased], tr |-> Blank]]
    /\ mode = "reset" /\ ops = <<>> /\ swap_type = "none"
    /\ fails = 0 /\ stages = 0
    /\ view = View(flash)

(* The asserts of boot_copy_image and boot_read_swap_size, and the check of *)
(* slot 0, end in an endless loop.                                          *)
Halt ==
    /\ mode' = "halt" /\ ops' = <<>>
    /\ UNCHANGED <<flash, swap_type, fails, stages, view>>

Decide(type, todo) ==
    /\ mode' = "swap" /\ swap_type' = type /\ ops' = todo
    /\ UNCHANGED <<flash, fails, stages, view>>

(* A partial swap is completed; otherwise a swap that is called for is      *)
(* started, unless slot 1 is not valid: then slot 1 is erased, if anything  *)
(* is in it.                                                                *)
boot_swap_if_needed ==
    /\ mode = "reset"
    /\ \E bs \in {boot_read_status(flash)}, type \in {boot_validated_swap_type(flash)} :
          IF bs.idx # 0 \/ bs.state # 0
          THEN IF \A a \in {"slot0", "scratch"} : flash[a].tr.magic # "good"
               THEN Halt
               ELSE Decide("resume",
                           boot_copy_image(flash, bs, boot_read_swap_size(flash)))
          ELSE IF type = "none"
          THEN Decide(type, <<>>)
          ELSE IF type = "fail"
          THEN Decide(type, IF HasHeader(flash, "slot1")
                            THEN Erase("slot1", 1, Sectors) ELSE <<>>)
          ELSE IF \E a \in WithHeader(flash) : boot_read_image_size(flash, a) = 0
          THEN Halt
          ELSE \E size \in {LargestSize(flash)} :
                   Decide(type, boot_copy_image(flash, bs, size))

(* One flash operation.  The last one of boot_mark, and every one of the    *)
(* application's, is a commit.                                              *)
FlashOp ==
    /\ ops # <<>>
    /\ flash' = Apply(flash, Head(ops))
    /\ ops' = Tail(ops)
    /\ view' = IF mode = "run" \/ (mode = "mark" /\ Len(ops) = 1)
               THEN View(flash') ELSE view
    /\ UNCHANGED <<mode, swap_type, fails, stages>>

boot_set_image_ok(f) ==
    IF f["slot0"].tr.image_ok THEN <<>> ELSE boot_write_image_ok("slot0")

(* boot_go after the swap: the outcome is marked in slot 0's trailer. *)
boot_mark ==
    /\ mode = "swap" /\ ops = <<>>
    /\ LET type == IF swap_type = "resume"
                   THEN boot_previous_swap_type(flash) ELSE swap_type
           todo == (IF type \in {"revert", "fail"}
                    THEN boot_set_image_ok(flash) ELSE <<>>)
                   \o (IF type \in {"test", "perm", "revert"}
                       THEN boot_write_copy_done("slot0") ELSE <<>>)
       IN  /\ ops' = todo
           /\ swap_type' = type
           /\ view' = IF todo = <<>> THEN View(flash) ELSE view
    /\ mode' = "mark"
    /\ UNCHANGED <<flash, fails, stages>>

(* boot_go's last check, then do_boot. *)
boot_jump ==
    /\ mode = "mark" /\ ops = <<>>
    /\ IF Valid(flash, "slot0")
       THEN /\ mode' = "run"
            /\ UNCHANGED <<flash, ops, swap_type, fails, stages, view>>
       ELSE Halt
------------------------------------------------------------------------------
(* The running image. *)

(* An image is written to slot 1; a bad one has a sector missing. *)
Stage ==
    /\ mode = "run" /\ ops = <<>> /\ stages < MaxStages
    /\ \E img \in Images \ {view.slots[0]}, padded \in BOOLEAN, good \in BOOLEAN :
        flash' = [flash EXCEPT !["slot1"] =
            [data |-> IF good THEN Filled(img)
                      ELSE [Filled(img) EXCEPT ![img.len].whole = FALSE],
             tr   |-> PadTo(padded)]]
    /\ stages' = stages + 1
    /\ view' = View(flash')
    /\ UNCHANGED <<mode, ops, swap_type, fails>>

Call(todo) ==
    /\ mode = "run" /\ ops = <<>>
    /\ ops' = todo
    /\ UNCHANGED <<flash, mode, swap_type, fails, stages, view>>

boot_set_pending(permanent) ==
    /\ flash["slot1"].tr.magic = "unset"
    /\ Call(boot_write_magic("slot1")
            \o (IF permanent THEN boot_write_image_ok("slot1") ELSE <<>>))

boot_set_confirmed ==
    /\ flash["slot0"].tr.magic = "good"
    /\ flash["slot0"].tr.copy_done
    /\ ~flash["slot0"].tr.image_ok
    /\ Call(boot_write_image_ok("slot0"))

(* A reset of the running image, in the middle of a call or not. *)
Restart ==
    /\ mode = "run"
    /\ mode' = "reset" /\ ops' = <<>> /\ swap_type' = "none"
    /\ UNCHANGED <<flash, fails, stages, view>>

(* Where a power failure makes the loader lose track of what it was doing:  *)
(*   - in a revert, from the moment slot 0's old trailer is gone until       *)
(*     image_ok is set: the next boot finds nothing to do or, once an entry  *)
(*     is written, completes the swap but takes it for a permanent one, does *)
(*     not set image_ok, and the boot after it reverts again;                *)
(*   - while the swap's status is in scratch and slot 0's trailer of an      *)
(*     earlier swap, or of imgtool's padding, still hides it: the next boot  *)
(*     sees no swap under way, and boots half-swapped slots or rejects the   *)
(*     new image and erases what is left of it in slot 1;                    *)
(*   - while slot 0's trailer is blank before its first entry and scratch    *)
(*     still has the one of an earlier swap: the next boot goes on from that *)
(*     one's last entry, erases slot 0 and loses its image.                  *)
FragileSwap ==
    LET source     == boot_status_source(flash)
        in_scratch == \E k \in 1..Len(ops) : ops[k].op = "entries"
    IN  \/ /\ swap_type = "revert"
           /\ ~flash["slot0"].tr.copy_done /\ ~flash["slot0"].tr.image_ok
        \/ /\ in_scratch /\ 1 \in flash["scratch"].tr.status
           /\ source # "scratch"
        \/ /\ ~in_scratch /\ flash["slot0"].tr.status = {}
           /\ source = "scratch"

(* A reset of the loader, between two flash operations or between two       *)
(* chunks of a copy.                                                        *)
PowerFail ==
    /\ mode \in {"swap", "mark"}
    /\ AllFails \/ ~FragileSwap
    /\ fails < MaxFails
    /\ fails' = fails + 1
    /\ \/ UNCHANGED flash
       \/ /\ ops # <<>> /\ Head(ops).op = "copy"
          /\ flash' = flash_area_copy(flash, Head(ops), FALSE)
    /\ mode' = "reset" /\ ops' = <<>> /\ swap_type' = "none"
    /\ UNCHANGED <<stages, view>>

Loader == boot_swap_if_needed \/ FlashOp \/ boot_mark \/ boot_jump

Next ==
    \/ boot_swap_if_needed \/ FlashOp \/ boot_mark \/ boot_jump
    \/ Stage \/ boot_set_confirmed \/ Restart \/ PowerFail
    \/ \E permanent \in BOOLEAN : boot_set_pending(permanent)

Spec == Init /\ [][Next]_vars

(* The loader does not stop of its own accord; nothing obliges the power to *)
(* fail or the image to call.                                               *)
FairSpec == Spec /\ WF_vars(Loader)
------------------------------------------------------------------------------
Contents == {Erased} \cup [img : Images, i : 1..Sectors, whole : BOOLEAN]
Trailers == [magic : {"unset", "good", "bad"}, copy_done : BOOLEAN,
             image_ok : BOOLEAN, swap_size : 0..Sectors,
             status : SUBSET (0..BOOT_STATUS_STATE_COUNT * Sectors)]

(* The flash holds only images and trailers the code can write: a status    *)
(* entry is never written past the groups of a swap (boot_write_status).    *)
TypeOK ==
    /\ \A a \in Areas :
        /\ flash[a].data \in Seq(Contents)
        /\ flash[a].tr \in Trailers
    /\ mode \in {"reset", "swap", "mark", "run", "halt"}
    /\ swap_type \in {"none", "test", "perm", "revert", "fail", "resume"}
    /\ fails \in 0..MaxFails /\ stages \in 0..MaxStages

(* "If a prior copy operation was interrupted by a system reset, this       *)
(* function completes that operation" (boot_copy_image): while the loader   *)
(* works, and however often it was cut, every sector of both images is      *)
(* whole somewhere in flash, so that boot_swap_sectors never erases the     *)
(* last copy of anything.  This holds when the power does not fail at the   *)
(* moments of FragileSwap (AllFails = FALSE).  It does not when it may fail *)
(* at the second or the third of them (AllFails = TRUE).                    *)
NoImageLost ==
    \A s \in 0..1 : view.slots[s] # None =>
        \A i \in 1..view.slots[s].len :
            \E a \in Areas : \E j \in 1..area_sectors(flash, a) :
                flash[a].data[j] = Part(view.slots[s], i)

(* Flash is programmed only where it is erased, also when a resumed swap    *)
(* repeats a step that was cut (boot_copy_sector: "You must erase the       *)
(* destination region prior to calling this function").                     *)
WritesErased == ops # <<>> => ProgramsErased(flash, Head(ops))

phase == CASE mode = "run"                 -> "run"
           [] mode = "mark" /\ ops = <<>>  -> "booted"
           [] OTHER                        -> "boot"

Slots == INSTANCE BootSlots WITH
    slots <- view.slots, request <- view.request, trial <- view.trial

(* A boot, cut any number of times and resumed from the trailers, has the   *)
(* effect of one boot that decides in one step what the trailers asked for  *)
(* when it began (boot_go against BootSlots).                               *)
ImplementsSlots == Slots!Spec

(* Once the power stays on, a reset ends in a running image: the loader     *)
(* neither halts in an assert nor finds slot 0 invalid (boot_go).           *)
BootCompletes == mode = "reset" ~> mode = "run"
==============================================================================
