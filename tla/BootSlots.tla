------------------------------ MODULE BootSlots ------------------------------
(***************************************************************************)
(* What the boot loader promises to somebody who never sees the flash: two *)
(* slots, a request to try or to install the image of the second one, and  *)
(* an image in the first one that may be on trial.  A boot decides once    *)
(* and in one step: it exchanges the slots when there is a request or an   *)
(* unconfirmed trial, and leaves them alone otherwise.  A power failure    *)
(* only starts a boot again.                                               *)
(***************************************************************************)
EXTENDS Integers

CONSTANTS Images, None

VARIABLES
    phase,      \* "boot": nothing decided; "booted": decided; "run"
    slots,      \* the image in slot 0 and in slot 1; None: no valid image
    request,    \* what is asked of the next boot: "none", "test" or "perm"
    trial       \* the image in slot 0 runs once and is not confirmed yet

vars == <<phase, slots, request, trial>>

Init ==
    /\ phase = "boot"
    /\ slots \in [0..1 -> Images \cup {None}]
    /\ slots[0] # None
    /\ request = "none"
    /\ trial = FALSE

Reset ==
    /\ phase' = "boot"
    /\ UNCHANGED <<slots, request, trial>>

Start ==
    /\ phase = "booted"
    /\ phase' = "run"
    /\ UNCHANGED <<slots, request, trial>>

(* The slots change places: on request, or back after a trial. *)
Exchange ==
    /\ phase = "boot"
    /\ request # "none" \/ trial
    /\ slots[1] # None
    /\ slots' = [s \in 0..1 |-> slots[1 - s]]
    /\ trial' = (request = "test")
    /\ request' = "none"
    /\ phase' = "booted"

(* Slot 1 has nothing valid to offer: the image in slot 0 stays for good. *)
Reject ==
    /\ phase = "boot"
    /\ request # "none" \/ trial
    /\ slots[1] = None
    /\ trial' = FALSE
    /\ request' \in {request, "none"}
    /\ phase' = "booted"
    /\ UNCHANGED slots

Keep ==
    /\ phase = "boot"
    /\ request = "none" /\ ~trial
    /\ phase' = "booted"
    /\ UNCHANGED <<slots, request, trial>>

(* The running image, or a tool, puts an image, valid or not, into slot 1; *)
(* a padded one carries its request with it.                               *)
Stage ==
    /\ phase = "run"
    /\ \E img \in Images \cup {None} : slots' = [slots EXCEPT ![1] = img]
    /\ request' \in {"none", "test"}
    /\ UNCHANGED <<phase, trial>>

Request(kind) ==
    /\ phase = "run"
    /\ request = IF kind = "test" THEN "none" ELSE "test"
    /\ request' = kind
    /\ UNCHANGED <<phase, slots, trial>>

Confirm ==
    /\ phase = "run"
    /\ trial' = FALSE
    /\ UNCHANGED <<phase, slots, request>>

Next ==
    \/ Reset \/ Start
    \/ Exchange \/ Reject \/ Keep
    \/ Stage \/ Confirm
    \/ \E kind \in {"test", "perm"} : Request(kind)

Spec == Init /\ [][Next]_vars
==============================================================================
