------------------------------ MODULE AuditLog ------------------------------
(***************************************************************************)
(* The audit log of log_core.c: items of different sizes in a circular     *)
(* buffer, found only by walking from the first one along the SIZE fields  *)
(* of their headers.  The unit is the 4-byte word.  The words of a header  *)
(* before SIZE stand for the timestamp.  Calls that the code refuses       *)
(* (callers that are not secure, lines that are too long or no multiple of *)
(* a word, no place for the result) change nothing and are left out.       *)
(***************************************************************************)
EXTENDS Integers, Sequences, FiniteSetsExt

CONSTANTS
    LOG_SIZE,                \* words of the buffer
    LOG_FIXED_FIELD_SIZE,    \* words of the header, the last one is SIZE
    LOG_MAC_SIZE,            \* words of the MAC behind the line
    Sizes,                   \* sizes of the lines callers add
    Words,                   \* what the lines are filled with
    Stamps,                  \* timestamps count modulo this
    Deletes                  \* numbers of items callers delete

Overhead == LOG_FIXED_FIELD_SIZE + LOG_MAC_SIZE

(* A header has a timestamp and a size, some item fits, and the items in   *)
(* the buffer have different timestamps.                                   *)
ASSUME LogAssumption ==
    /\ LOG_FIXED_FIELD_SIZE \in Nat /\ LOG_FIXED_FIELD_SIZE >= 2
    /\ LOG_MAC_SIZE \in Nat \ {0}
    /\ LOG_SIZE \in Nat /\ LOG_SIZE >= Overhead
    /\ Stamps \in Nat /\ Stamps * Overhead > LOG_SIZE
    /\ Sizes \subseteq Nat /\ Deletes \subseteq Nat /\ Words \subseteq Nat

VARIABLES
    log_buffer,          \* the words
    log_state,           \* first and last item, their number and total size
    global_timestamp,    \* of the next item
    cut                  \* history: some items, not all, were deleted since
                         \* log_state was last reset; stored_size is then
                         \* too large (log_core_delete_items leaves it)

vars == <<log_buffer, log_state, global_timestamp, cut>>

(* The dummy MAC, bytes 0 to 3, is as a number larger than any size. *)
MacWord == LOG_SIZE

COMPUTE_LOG_ENTRY_SIZE(size) == LOG_FIXED_FIELD_SIZE + size + LOG_MAC_SIZE

GET_SIZE_FIELD(idx) == log_buffer[(idx + LOG_FIXED_FIELD_SIZE - 1) % LOG_SIZE]

EntrySizeAt(idx) == COMPUTE_LOG_ENTRY_SIZE(GET_SIZE_FIELD(idx))

(* Slip: the MAC is not skipped. *)
NextIndexAtMac(idx) == (idx + LOG_FIXED_FIELD_SIZE + GET_SIZE_FIELD(idx)) % LOG_SIZE

GET_NEXT_LOG_INDEX(idx) == (idx + EntrySizeAt(idx)) % LOG_SIZE

(* The index k items behind idx, and the space of the items in between: the *)
(* loops of the code step through them one item at a time.                  *)
Walk(idx, k) ==
    LET at[j \in 0 .. k] == IF j = 0 THEN idx ELSE GET_NEXT_LOG_INDEX(at[j - 1])
    IN  at[k]
SpaceOf(idx, k) ==
    LET to[j \in 0 .. k] == IF j = 0 THEN 0 ELSE to[j - 1] + EntrySizeAt(Walk(idx, j - 1))
    IN  to[k]

log_update_state(first_el_idx, last_el_idx, stored_size, num_items) ==
    [first_el_idx |-> first_el_idx, last_el_idx |-> last_el_idx,
     stored_size |-> stored_size, num_items |-> num_items]

EmptyState == log_update_state(0, 0, 0, 0)

(* The state without the k oldest items. *)
WithoutOldest(k) ==
    log_update_state(Walk(log_state.first_el_idx, k), log_state.last_el_idx,
                     log_state.stored_size - SpaceOf(log_state.first_el_idx, k),
                     log_state.num_items - k)

(* Slip: the log is never filled to the last word. *)
ReplaceTooMany(size) ==
    LET fits == {k \in 0 .. log_state.num_items :
                    size < LOG_SIZE - WithoutOldest(k).stored_size}
    IN  IF fits = {} THEN EmptyState ELSE WithoutOldest(Min(fits))

(* As many of the oldest items go as it takes until size fits; all is reset *)
(* if it does not seem to fit even then.                                    *)
log_replace_item(size) ==
    LET fits == {k \in 0 .. log_state.num_items :
                    size <= LOG_SIZE - WithoutOldest(k).stored_size}
    IN  IF fits = {} THEN EmptyState ELSE WithoutOldest(Min(fits))

(* Word k of a new item whose line is size times the same word. *)
log_format_buffer(size, word, k) ==
    CASE k < LOG_FIXED_FIELD_SIZE - 1 -> global_timestamp
      [] k = LOG_FIXED_FIELD_SIZE - 1 -> size
      [] k >= LOG_FIXED_FIELD_SIZE + size -> MacWord
      [] OTHER -> word

(* Slip: the copy stops at the end of the buffer. *)
CopyWithoutWrap(start_pos, size, word) ==
    [p \in 0 .. LOG_SIZE - 1 |->
        IF p - start_pos \in 0 .. COMPUTE_LOG_ENTRY_SIZE(size) - 1
        THEN log_format_buffer(size, word, p - start_pos)
        ELSE log_buffer[p]]

log_buffer_copy(start_pos, size, word) ==
    [p \in 0 .. LOG_SIZE - 1 |->
        LET k == (p - start_pos) % LOG_SIZE
        IN  IF k < COMPUTE_LOG_ENTRY_SIZE(size) THEN log_format_buffer(size, word, k)
            ELSE log_buffer[p]]
-----------------------------------------------------------------------------
Init ==
    /\ log_buffer = [p \in 0 .. LOG_SIZE - 1 |-> 0]
    /\ log_state = EmptyState
    /\ global_timestamp = 0
    /\ cut = FALSE

log_core_add_line(size, word) ==
    LET entry == COMPUTE_LOG_ENTRY_SIZE(size)
        room == IF log_state.num_items = 0 THEN log_state ELSE log_replace_item(entry)
        start_pos == IF log_state.num_items = 0 THEN 0
                     ELSE IF room.num_items = 0 THEN room.first_el_idx
                     ELSE GET_NEXT_LOG_INDEX(room.last_el_idx)
    IN  /\ size <= LOG_SIZE - Overhead
        /\ log_buffer' = log_buffer_copy(start_pos, size, word)
        /\ log_state' = log_update_state(room.first_el_idx, start_pos,
                                         room.stored_size + entry, room.num_items + 1)
        /\ global_timestamp' = (global_timestamp + 1) % Stamps
        /\ cut' = (cut /\ room # EmptyState)

(* Slip: deleting all items leaves their size behind. *)
DeleteKeepsSize(num_items) ==
    /\ log_state' = IF num_items >= log_state.num_items
                    THEN log_update_state(0, 0, log_state.stored_size, 0)
                    ELSE [log_state EXCEPT !.first_el_idx = Walk(@, num_items),
                                           !.num_items = @ - num_items]
    /\ cut' = (num_items < log_state.num_items /\ (cut \/ num_items > 0))
    /\ UNCHANGED <<log_buffer, global_timestamp>>

log_core_delete_items(num_items) ==
    /\ log_state' = IF num_items >= log_state.num_items THEN EmptyState
                    ELSE [log_state EXCEPT !.first_el_idx = Walk(@, num_items),
                                           !.num_items = @ - num_items]
    /\ cut' = (num_items < log_state.num_items /\ (cut \/ num_items > 0))
    /\ UNCHANGED <<log_buffer, global_timestamp>>

Next ==
    \/ \E size \in Sizes, word \in Words : log_core_add_line(size, word)
    \/ \E num_items \in Deletes : log_core_delete_items(num_items)

Spec == Init /\ [][Next]_vars
-----------------------------------------------------------------------------
(* Retrieval: where the copy to the caller starts, how many words it has,  *)
(* and how many items the caller is told there are.                        *)
TFM_LOG_READ_RECENT == -1

Reply(err, from, size, num_items) ==
    [err |-> err, from |-> from, size |-> size, num_items |-> num_items]
NoItems(err) == Reply(err, 0, 0, 0)

(* Slip: items that fit exactly are skipped. *)
RecentTooFew(size) ==
    LET first == log_state.first_el_idx
        empty == GET_NEXT_LOG_INDEX(log_state.last_el_idx)
        left(k) == IF k = 0 THEN log_state.stored_size
                   ELSE (empty - Walk(first, k)) % LOG_SIZE
        k == Min({j \in 0 .. log_state.num_items :
                     left(j) < size \/ left(j) = 0})
    IN  IF left(k) = 0 THEN NoItems("success")
        ELSE Reply("success", Walk(first, k), left(k), log_state.num_items - k)

(* Items are skipped until those left, measured by the distance to the     *)
(* first empty word, fit.                                                  *)
RetrieveRecent(size) ==
    LET first == log_state.first_el_idx
        empty == GET_NEXT_LOG_INDEX(log_state.last_el_idx)
        left(k) == IF k = 0 THEN log_state.stored_size
                   ELSE (empty - Walk(first, k)) % LOG_SIZE
        k == Min({j \in 0 .. log_state.num_items : left(j) <= size})
    IN  IF left(k) = 0 THEN NoItems("success")
        ELSE Reply("success", Walk(first, k), left(k), log_state.num_items - k)

(* Slip: an item that fits exactly is left out. *)
RetrieveFromTooFew(size, start) ==
    LET idx == Walk(log_state.first_el_idx, start)
        most == Min({size, log_state.stored_size})
        fits == {k \in 1 .. LOG_SIZE \div Overhead : SpaceOf(idx, k) < most}
    IN  IF fits = {} THEN NoItems("success")
        ELSE Reply("success", idx, SpaceOf(idx, Max(fits)), Max(fits))

(* Items are taken while they fit both the caller's buffer and stored_size. *)
RetrieveFrom(size, start) ==
    LET idx == Walk(log_state.first_el_idx, start)
        most == Min({size, log_state.stored_size})
        fits == {k \in 1 .. LOG_SIZE \div Overhead : SpaceOf(idx, k) <= most}
    IN  IF fits = {} THEN NoItems("success")
        ELSE Reply("success", idx, SpaceOf(idx, Max(fits)), Max(fits))

log_core_retrieve(size, start) ==
    CASE size = 0 -> NoItems("failure")
      [] size # 0 /\ log_state.num_items = 0 -> NoItems("success")
      [] OTHER -> CASE start = TFM_LOG_READ_RECENT -> RetrieveRecent(size)
                    [] start \in 0 .. log_state.num_items - 1 -> RetrieveFrom(size, start)
                    [] OTHER -> NoItems("failure")
-----------------------------------------------------------------------------
(* The indexes stay inside the buffer, and what log_state counts never     *)
(* exceeds what the buffer can hold.                                       *)
TypeOK ==
    /\ log_buffer \in [0 .. LOG_SIZE - 1 -> Nat]
    /\ log_state \in [first_el_idx : 0 .. LOG_SIZE - 1, last_el_idx : 0 .. LOG_SIZE - 1,
                      stored_size : 0 .. LOG_SIZE, num_items : 0 .. LOG_SIZE \div Overhead]
    /\ global_timestamp \in 0 .. Stamps - 1

(* The items a reader finds who starts at first_el_idx and follows SIZE.   *)
ItemAt(idx) ==
    [stamp |-> log_buffer[idx],
     line |-> [j \in 1 .. GET_SIZE_FIELD(idx) |->
                  log_buffer[(idx + LOG_FIXED_FIELD_SIZE + j - 1) % LOG_SIZE]]]
Items == [i \in 1 .. log_state.num_items |-> ItemAt(Walk(log_state.first_el_idx, i - 1))]

Space(n) == SpaceOf(log_state.first_el_idx, n)

(* The circular buffer implements the sequence of LogFifo: whatever wraps  *)
(* or is overwritten, a reader finds the newest items, complete and in     *)
(* order (log_replace_item's "older entries first" policy).                *)
Fifo == INSTANCE LogFifo WITH
            Capacity <- LOG_SIZE, log <- Items, next <- global_timestamp,
            Lines <- {[j \in 1 .. size |-> word] : size \in Sizes, word \in Words}
ImplementsFifo == Fifo!Spec

(* The indexes and counts are in range, every stored item ends in its MAC, *)
(* and last_el_idx, from which the next line's place is computed, is the   *)
(* last one a reader finds (log_core_add_line, log_core_delete_items).     *)
ItemsSealed ==
    /\ TypeOK
    /\ \A i \in 1 .. log_state.num_items, m \in 1 .. LOG_MAC_SIZE :
          log_buffer[(Walk(log_state.first_el_idx, i) - m) % LOG_SIZE] = MacWord
    /\ log_state.num_items > 0 =>
          log_state.last_el_idx = Walk(log_state.first_el_idx, log_state.num_items - 1)

(* As long as callers delete all items or none, stored_size, which          *)
(* log_core_get_info reports and replacement and retrieval rely on, is the  *)
(* size of the items a reader finds.                                        *)
StoredSizeIsTotal == ~cut => log_state.stored_size = Space(log_state.num_items)

(* log_replace_item replaces items only "in case not enough space is       *)
(* available in the log": the youngest one that leaves did have to.        *)
ReplacesNoMore ==
    [][\A n \in 1 .. log_state.num_items :
          (~cut /\ global_timestamp' # global_timestamp
                /\ log_state'.num_items = log_state.num_items - n + 1)
             => Space(log_state.num_items) - Space(n - 1)
                   + COMPUTE_LOG_ENTRY_SIZE(GET_SIZE_FIELD(log_state.last_el_idx)') > LOG_SIZE]_vars

(* The reply holds the items from number first to number last, no others.  *)
Holds(reply, first, last) ==
    /\ reply.num_items = last - first
    /\ reply.size = Space(last) - Space(first)
    /\ first < last => reply.from = Walk(log_state.first_el_idx, first)

(* With TFM_LOG_READ_RECENT "the function will retrieve the most recent    *)
(* elements that fit the provided size", for every size.                   *)
RetrievesRecent ==
    ~cut => \A size \in 1 .. LOG_SIZE + 1 :
        LET n == log_state.num_items
            skipped == Min({k \in 0 .. n : Space(n) - Space(k) <= size})
        IN  Holds(log_core_retrieve(size, TFM_LOG_READ_RECENT), skipped, n)

(* The reply to a caller who asks for items from number start on is "the   *)
(* maximum number of items in the log that fit the available space".       *)
RetrievesMost(start) ==
    \A size \in 1 .. LOG_SIZE + 1 :
        LET last == Max({k \in start .. log_state.num_items : Space(k) - Space(start) <= size})
        IN  Holds(log_core_retrieve(size, start), start, last)

(* A caller who starts at the oldest item gets as many as fit.             *)
RetrievesFromFirst == log_state.num_items > 0 /\ ~cut => RetrievesMost(0)

(* So does a caller who starts anywhere, whatever was deleted before       *)
(* (log_core_retrieve).                                                    *)
RetrievesFromAny == \A start \in 0 .. log_state.num_items - 1 : RetrievesMost(start)
=============================================================================
