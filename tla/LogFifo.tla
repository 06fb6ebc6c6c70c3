------------------------------ MODULE LogFifo ------------------------------
(***************************************************************************)
(* What the audit log promises: its items are a sequence in the order of   *)
(* their timestamps, a new one comes last, and only the oldest ones leave, *)
(* to make room or because a caller deletes them.                          *)
(***************************************************************************)
EXTENDS Naturals, Sequences

CONSTANTS Capacity,        \* space for items
          Overhead,        \* space an item takes besides its line
          Lines,           \* the lines callers add
          Stamps,          \* timestamps count modulo this
          Deletes          \* numbers of items callers delete

VARIABLES log,             \* the items, oldest first
          next             \* the next timestamp

TotalSize(items) ==
    LET sum[i \in 0 .. Len(items)] ==
            IF i = 0 THEN 0 ELSE sum[i - 1] + Overhead + Len(items[i].line)
    IN  sum[Len(items)]

DropOldest(n) == SubSeq(log, n + 1, Len(log))

Init == log = <<>> /\ next = 0

Add(line) ==
    /\ \E n \in 0 .. Len(log) :
          log' = Append(DropOldest(n), [stamp |-> next, line |-> line])
    /\ TotalSize(log') <= Capacity
    /\ next' = (next + 1) % Stamps

Delete(n) ==
    /\ log' = DropOldest(n)
    /\ UNCHANGED next

Next ==
    \/ \E line \in Lines : Add(line)
    \/ \E n \in Deletes : Delete(n)

Spec == Init /\ [][Next]_<<log, next>>
=============================================================================
