--------------------------- MODULE AuditLogProofs ---------------------------
(***************************************************************************)
(* Proofs about AuditLog, for every size of the buffer, of the header and  *)
(* of the MAC, and for all lines that fit: the items that a reader finds   *)
(* are complete and in order, retrieval returns the ones asked for, no     *)
(* item is replaced without need, and the circular buffer implements the   *)
(* sequence of LogFifo.                                                    *)
(*                                                                         *)
(* The model finds items by walking along their SIZE fields, a recursion   *)
(* whose value depends on what the buffer holds.  The proofs name that     *)
(* walk for any buffer (WalkIn, SpaceIn), show by induction that it is not *)
(* disturbed by words written outside of it, and then reason about one     *)
(* new item behind a walk (Stored, Copied).                                *)
(***************************************************************************)
EXTENDS AuditLog, Induction

(* The model's walk along the items, in a buffer that is a parameter. *)
SizeIn(b, i) == b[(i + LOG_FIXED_FIELD_SIZE - 1) % LOG_SIZE]
EntryIn(b, i) == COMPUTE_LOG_ENTRY_SIZE(SizeIn(b, i))
NextIn(b, i) == (i + EntryIn(b, i)) % LOG_SIZE

(* The function that a walk from i defines, and where it is after k items. *)
IsWalk(f, b, i, k) == f = [j \in 0 .. k |-> IF j = 0 THEN i ELSE NextIn(b, f[j - 1])]
WalkIn(b, i, k) == (CHOOSE f : IsWalk(f, b, i, k))[k]

(* The same for the space of the items it has passed. *)
IsSpace(f, b, i, k) ==
    f = [j \in 0 .. k |-> IF j = 0 THEN 0 ELSE f[j - 1] + EntryIn(b, WalkIn(b, i, j - 1))]
SpaceIn(b, i, k) == (CHOOSE f : IsSpace(f, b, i, k))[k]

(* The operators of the model are these for the buffer of the state. *)
LEMMA InState ==
    ASSUME NEW i, NEW k
    PROVE  /\ GET_SIZE_FIELD(i) = SizeIn(log_buffer, i)
           /\ EntrySizeAt(i) = EntryIn(log_buffer, i)
           /\ GET_NEXT_LOG_INDEX(i) = NextIn(log_buffer, i)
           /\ Walk(i, k) = WalkIn(log_buffer, i, k)
           /\ SpaceOf(i, k) = SpaceIn(log_buffer, i, k)
<1>1. /\ GET_SIZE_FIELD(i) = SizeIn(log_buffer, i)
      /\ EntrySizeAt(i) = EntryIn(log_buffer, i)
      /\ GET_NEXT_LOG_INDEX(i) = NextIn(log_buffer, i)
  BY DEF GET_SIZE_FIELD, SizeIn, EntrySizeAt, EntryIn, GET_NEXT_LOG_INDEX, NextIn
<1>2. Walk(i, k) = WalkIn(log_buffer, i, k)
  BY DEF Walk, WalkIn, IsWalk, GET_SIZE_FIELD, SizeIn, EntrySizeAt, EntryIn, GET_NEXT_LOG_INDEX, NextIn
<1>3. SpaceOf(i, k) = SpaceIn(log_buffer, i, k)
  BY DEF SpaceOf, SpaceIn, IsSpace, Walk, WalkIn, IsWalk, GET_SIZE_FIELD, SizeIn, EntrySizeAt, EntryIn, GET_NEXT_LOG_INDEX, NextIn
<1> QED
  BY <1>1, <1>2, <1>3

(* The recursive function of a walk exists, for every number of items. *)
LEMMA WalkExists ==
    ASSUME NEW b, NEW i
    PROVE  \A k \in Nat : \E f : IsWalk(f, b, i, k)
<1> DEFINE T == {k \in Nat : \E f : IsWalk(f, b, i, k)}
<1>1. 0 \in T
  <2>1. IsWalk([j \in 0 .. 0 |-> i], b, i, 0)
    BY DEF IsWalk
  <2> QED
    BY <2>1
<1>2. ASSUME NEW k \in Nat, k \in T PROVE k + 1 \in T
  <2>1. PICK f : IsWalk(f, b, i, k)
    BY <1>2
  <2> DEFINE g == [j \in 0 .. k + 1 |-> IF j <= k THEN f[j] ELSE NextIn(b, f[k])]
  <2>2. ASSUME NEW j \in 0 .. k + 1
        PROVE  g[j] = IF j = 0 THEN i ELSE NextIn(b, g[j - 1])
    BY <2>1 DEF IsWalk
  <2>3. IsWalk(g, b, i, k + 1)
    BY <2>2 DEF IsWalk
  <2> QED
    BY <2>3
<1> HIDE DEF T
<1>3. \A k \in Nat : k \in T
  BY <1>1, <1>2, SetInduction
<1> QED
  BY <1>3 DEF T

(* Two walks from the same place agree as far as both go. *)
LEMMA WalkUnique ==
    ASSUME NEW b, NEW i, NEW k \in Nat, NEW m \in Nat, NEW f, NEW g,
           IsWalk(f, b, i, k), IsWalk(g, b, i, m)
    PROVE  \A j \in Nat : j <= k /\ j <= m => f[j] = g[j]
<1> DEFINE T == {j \in Nat : j <= k /\ j <= m => f[j] = g[j]}
<1>1. 0 \in T
  BY DEF IsWalk
<1>2. ASSUME NEW j \in Nat, j \in T PROVE j + 1 \in T
  <2> SUFFICES ASSUME j + 1 <= k, j + 1 <= m PROVE f[j + 1] = g[j + 1]
    OBVIOUS
  <2>1. f[j] = g[j]
    BY <1>2
  <2>2. f[j + 1] = NextIn(b, f[j]) /\ g[j + 1] = NextIn(b, g[j])
    BY DEF IsWalk
  <2> QED
    BY <2>1, <2>2
<1> HIDE DEF T
<1>3. \A j \in Nat : j \in T
  BY <1>1, <1>2, SetInduction
<1> QED
  BY <1>3 DEF T

(* The walk does what its definition says. *)
LEMMA WalkStep ==
    ASSUME NEW b, NEW i
    PROVE  /\ WalkIn(b, i, 0) = i
           /\ \A k \in Nat : WalkIn(b, i, k + 1) = NextIn(b, WalkIn(b, i, k))
<1> DEFINE at(k) == CHOOSE f : IsWalk(f, b, i, k)
<1>1. ASSUME NEW k \in Nat PROVE IsWalk(at(k), b, i, k)
  BY WalkExists
<1>2. WalkIn(b, i, 0) = i
  <2>1. IsWalk(at(0), b, i, 0)
    BY <1>1
  <2> HIDE DEF at
  <2>2. at(0)[0] = i
    BY <2>1 DEF IsWalk
  <2> QED
    BY <2>2 DEF WalkIn, at
<1>3. ASSUME NEW k \in Nat PROVE WalkIn(b, i, k + 1) = NextIn(b, WalkIn(b, i, k))
  <2>1. IsWalk(at(k), b, i, k) /\ IsWalk(at(k + 1), b, i, k + 1)
    BY <1>1
  <2> HIDE DEF at
  <2>2. at(k + 1)[k] = at(k)[k]
    BY <2>1, WalkUnique
  <2>3. at(k + 1)[k + 1] = NextIn(b, at(k + 1)[k])
    BY <2>1 DEF IsWalk
  <2> QED
    BY <2>2, <2>3 DEF WalkIn, at
<1> QED
  BY <1>2, <1>3

(* The sum of the entry sizes along a walk exists. *)
LEMMA SpaceExists ==
    ASSUME NEW b, NEW i
    PROVE  \A k \in Nat : \E f : IsSpace(f, b, i, k)
<1> DEFINE T == {k \in Nat : \E f : IsSpace(f, b, i, k)}
<1>1. 0 \in T
  <2>1. IsSpace([j \in 0 .. 0 |-> 0], b, i, 0)
    BY DEF IsSpace
  <2> QED
    BY <2>1
<1>2. ASSUME NEW k \in Nat, k \in T PROVE k + 1 \in T
  <2>1. PICK f : IsSpace(f, b, i, k)
    BY <1>2
  <2> DEFINE g == [j \in 0 .. k + 1 |->
                     IF j <= k THEN f[j] ELSE f[k] + EntryIn(b, WalkIn(b, i, k))]
  <2>2. ASSUME NEW j \in 0 .. k + 1
        PROVE  g[j] = IF j = 0 THEN 0 ELSE g[j - 1] + EntryIn(b, WalkIn(b, i, j - 1))
    BY <2>1 DEF IsSpace
  <2>3. IsSpace(g, b, i, k + 1)
    BY <2>2 DEF IsSpace
  <2> QED
    BY <2>3
<1> HIDE DEF T
<1>3. \A k \in Nat : k \in T
  BY <1>1, <1>2, SetInduction
<1> QED
  BY <1>3 DEF T

(* It is determined by the buffer and the place where the walk starts. *)
LEMMA SpaceUnique ==
    ASSUME NEW b, NEW i, NEW k \in Nat, NEW m \in Nat, NEW f, NEW g,
           IsSpace(f, b, i, k), IsSpace(g, b, i, m)
    PROVE  \A j \in Nat : j <= k /\ j <= m => f[j] = g[j]
<1> DEFINE T == {j \in Nat : j <= k /\ j <= m => f[j] = g[j]}
<1>1. 0 \in T
  BY DEF IsSpace
<1>2. ASSUME NEW j \in Nat, j \in T PROVE j + 1 \in T
  <2> SUFFICES ASSUME j + 1 <= k, j + 1 <= m PROVE f[j + 1] = g[j + 1]
    OBVIOUS
  <2>1. f[j] = g[j]
    BY <1>2
  <2>2. /\ f[j + 1] = f[j] + EntryIn(b, WalkIn(b, i, j))
        /\ g[j + 1] = g[j] + EntryIn(b, WalkIn(b, i, j))
    BY DEF IsSpace
  <2> QED
    BY <2>1, <2>2
<1> HIDE DEF T
<1>3. \A j \in Nat : j \in T
  BY <1>1, <1>2, SetInduction
<1> QED
  BY <1>3 DEF T

(* And so does the sum. *)
LEMMA SpaceStep ==
    ASSUME NEW b, NEW i
    PROVE  /\ SpaceIn(b, i, 0) = 0
           /\ \A k \in Nat : SpaceIn(b, i, k + 1) = SpaceIn(b, i, k) + EntryIn(b, WalkIn(b, i, k))
<1> DEFINE to(k) == CHOOSE f : IsSpace(f, b, i, k)
<1>1. ASSUME NEW k \in Nat PROVE IsSpace(to(k), b, i, k)
  BY SpaceExists
<1>2. SpaceIn(b, i, 0) = 0
  <2>1. IsSpace(to(0), b, i, 0)
    BY <1>1
  <2> HIDE DEF to
  <2>2. to(0)[0] = 0
    BY <2>1 DEF IsSpace
  <2> QED
    BY <2>2 DEF SpaceIn, to
<1>3. ASSUME NEW k \in Nat
      PROVE  SpaceIn(b, i, k + 1) = SpaceIn(b, i, k) + EntryIn(b, WalkIn(b, i, k))
  <2>1. IsSpace(to(k), b, i, k) /\ IsSpace(to(k + 1), b, i, k + 1)
    BY <1>1
  <2> HIDE DEF to
  <2>2. to(k + 1)[k] = to(k)[k]
    BY <2>1, SpaceUnique
  <2>3. to(k + 1)[k + 1] = to(k + 1)[k] + EntryIn(b, WalkIn(b, i, k))
    BY <2>1 DEF IsSpace
  <2> QED
    BY <2>2, <2>3 DEF SpaceIn, to
<1> QED
  BY <1>2, <1>3
-----------------------------------------------------------------------------
(* A walk goes on by one item. *)
OneOn(b, i, k) ==
    /\ WalkIn(b, i, k + 1) = NextIn(b, WalkIn(b, i, k))
    /\ SpaceIn(b, i, k + 1) = SpaceIn(b, i, k) + EntryIn(b, WalkIn(b, i, k))

(* It does so wherever it is. *)
LEMMA GoesOn ==
    ASSUME NEW b, NEW i, NEW k \in Nat
    PROVE  OneOn(b, i, k)
<1>1. WalkIn(b, i, k + 1) = NextIn(b, WalkIn(b, i, k))
  BY WalkStep
<1>2. SpaceIn(b, i, k + 1) = SpaceIn(b, i, k) + EntryIn(b, WalkIn(b, i, k))
  BY SpaceStep, Zenon
<1> QED
  BY <1>1, <1>2 DEF OneOn

(* The indexes of the buffer, and the buffers. *)
Indexes == 0 .. LOG_SIZE - 1
Buffers == [Indexes -> Nat]

(* What the assumption says of the constants, as the proofs use it. *)
LEMMA Constants ==
    /\ LOG_SIZE \in Nat /\ LOG_FIXED_FIELD_SIZE \in Nat /\ LOG_MAC_SIZE \in Nat
    /\ LOG_FIXED_FIELD_SIZE >= 2 /\ LOG_MAC_SIZE >= 1
    /\ Overhead \in Nat /\ Overhead = LOG_FIXED_FIELD_SIZE + LOG_MAC_SIZE
    /\ Overhead <= LOG_SIZE /\ LOG_SIZE >= 3
    /\ Stamps \in Nat /\ Stamps >= 1
<1>1. Stamps # 0
  BY LogAssumption DEF Overhead
<1> QED
  BY <1>1, LogAssumption DEF Overhead

(* The remainder of a number that is at most one turn off. *)
LEMMA Wrap ==
    ASSUME NEW x \in Int, -LOG_SIZE <= x, x < 2 * LOG_SIZE
    PROVE  x % LOG_SIZE = IF x < 0 THEN x + LOG_SIZE
                          ELSE IF x >= LOG_SIZE THEN x - LOG_SIZE ELSE x
<1>1. LOG_SIZE \in Nat \ {0}
  BY Constants
<1>2. CASE 0 <= x /\ x < LOG_SIZE
  BY <1>1, <1>2
<1>3. CASE LOG_SIZE <= x
  BY <1>1, <1>3
<1>4. CASE x < 0
  BY <1>1, <1>4
<1> QED
  BY <1>1, <1>2, <1>3, <1>4

(* An index and a distance wrap around at most once. *)
LEMMA WrapSum ==
    ASSUME NEW i \in Indexes, NEW s \in Nat, s <= LOG_SIZE
    PROVE  (i + s) % LOG_SIZE = IF i + s >= LOG_SIZE THEN i + s - LOG_SIZE ELSE i + s
BY Wrap, Constants DEF Indexes

(* Every number modulo LOG_SIZE is an index. *)
LEMMA ModIndex ==
    ASSUME NEW x \in Int PROVE x % LOG_SIZE \in Indexes
<1>1. LOG_SIZE \in Nat \ {0}
  BY Constants
<1> QED
  BY <1>1 DEF Indexes

(* Two distances one after the other are their sum. *)
LEMMA ModAdd ==
    ASSUME NEW i \in Indexes, NEW s \in Nat, NEW t \in Nat, s + t <= LOG_SIZE
    PROVE  (((i + s) % LOG_SIZE) + t) % LOG_SIZE = (i + (s + t)) % LOG_SIZE
<1>1. (i + s) % LOG_SIZE = IF i + s >= LOG_SIZE THEN i + s - LOG_SIZE ELSE i + s
  BY WrapSum, Constants
<1>2. (i + (s + t)) % LOG_SIZE =
        IF i + (s + t) >= LOG_SIZE THEN i + (s + t) - LOG_SIZE ELSE i + (s + t)
  BY WrapSum
<1>3. CASE i + s >= LOG_SIZE
  <2>1. (i + s - LOG_SIZE + t) % LOG_SIZE = i + s - LOG_SIZE + t
    BY <1>3, Wrap, Constants DEF Indexes
  <2> QED
    BY <1>1, <1>2, <1>3, <2>1, Constants DEF Indexes
<1>4. CASE ~(i + s >= LOG_SIZE)
  BY <1>1, <1>4, Constants DEF Indexes
<1> QED
  BY <1>3, <1>4

(* An entry has its overhead and its line, and the next index is one. *)
LEMMA EntryFacts ==
    ASSUME NEW b \in Buffers, NEW i \in Indexes
    PROVE  /\ SizeIn(b, i) \in Nat
           /\ EntryIn(b, i) \in Nat
           /\ EntryIn(b, i) = Overhead + SizeIn(b, i)
           /\ NextIn(b, i) \in Indexes
<1>1. (i + LOG_FIXED_FIELD_SIZE - 1) % LOG_SIZE \in Indexes
  BY ModIndex, Constants DEF Indexes
<1>2. SizeIn(b, i) \in Nat
  BY <1>1 DEF SizeIn, Buffers
<1>3. EntryIn(b, i) \in Nat /\ EntryIn(b, i) = Overhead + SizeIn(b, i)
  BY <1>2, Constants DEF EntryIn, COMPUTE_LOG_ENTRY_SIZE
<1>4. NextIn(b, i) \in Indexes
  BY <1>3, ModIndex DEF NextIn, Indexes
<1> QED
  BY <1>2, <1>3, <1>4

(* A walk stays inside the buffer. *)
LEMMA WalkType ==
    ASSUME NEW b \in Buffers, NEW i \in Indexes, NEW k \in Nat
    PROVE  WalkIn(b, i, k) \in Indexes /\ SpaceIn(b, i, k) \in Nat
<1> DEFINE T == {j \in Nat : WalkIn(b, i, j) \in Indexes /\ SpaceIn(b, i, j) \in Nat}
<1>1. 0 \in T
  BY WalkStep, SpaceStep
<1>2. ASSUME NEW j \in Nat, j \in T PROVE j + 1 \in T
  <2>1. WalkIn(b, i, j) \in Indexes /\ SpaceIn(b, i, j) \in Nat
    BY <1>2
  <2>2. EntryIn(b, WalkIn(b, i, j)) \in Nat /\ NextIn(b, WalkIn(b, i, j)) \in Indexes
    BY <2>1, EntryFacts
  <2>3. WalkIn(b, i, j + 1) = NextIn(b, WalkIn(b, i, j))
    BY WalkStep
  <2>4. SpaceIn(b, i, j + 1) = SpaceIn(b, i, j) + EntryIn(b, WalkIn(b, i, j))
    BY SpaceStep, Zenon
  <2> QED
    BY <2>1, <2>2, <2>3, <2>4
<1> HIDE DEF T
<1>3. \A j \in Nat : j \in T
  BY <1>1, <1>2, SetInduction
<1> QED
  BY <1>3 DEF T

(* Every item takes some space. *)
LEMMA SpaceGrows ==
    ASSUME NEW b \in Buffers, NEW i \in Indexes, NEW k \in Nat, NEW m \in Nat, k < m
    PROVE  SpaceIn(b, i, k) + Overhead <= SpaceIn(b, i, m)
<1> DEFINE T == {j \in Nat : k < j => SpaceIn(b, i, k) + Overhead <= SpaceIn(b, i, j)}
<1>1. 0 \in T
  OBVIOUS
<1>2. ASSUME NEW j \in Nat, j \in T PROVE j + 1 \in T
  <2>1. SpaceIn(b, i, j + 1) = SpaceIn(b, i, j) + EntryIn(b, WalkIn(b, i, j))
    BY SpaceStep, Zenon
  <2>2. EntryIn(b, WalkIn(b, i, j)) \in Nat /\ EntryIn(b, WalkIn(b, i, j)) >= Overhead
    BY WalkType, EntryFacts, Constants
  <2>3. SpaceIn(b, i, j) \in Nat /\ SpaceIn(b, i, k) \in Nat
    BY WalkType
  <2> QED
    BY <1>2, <2>1, <2>2, <2>3, Constants
<1> HIDE DEF T
<1>3. \A j \in Nat : j \in T
  BY <1>1, <1>2, SetInduction
<1> QED
  BY <1>3 DEF T

(* Each item passed has taken its overhead at least. *)
LEMMA SpaceCount ==
    ASSUME NEW b \in Buffers, NEW i \in Indexes, NEW k \in Nat
    PROVE  k * Overhead <= SpaceIn(b, i, k)
<1> DEFINE T == {j \in Nat : j * Overhead <= SpaceIn(b, i, j)}
<1>1. 0 \in T
  BY SpaceStep, Constants
<1>2. ASSUME NEW j \in Nat, j \in T PROVE j + 1 \in T
  <2>1. SpaceIn(b, i, j) + Overhead <= SpaceIn(b, i, j + 1)
    BY SpaceGrows
  <2>2. SpaceIn(b, i, j) \in Nat /\ SpaceIn(b, i, j + 1) \in Nat
    <3>1. j + 1 \in Nat
      OBVIOUS
    <3> QED
      BY <3>1, WalkType
  <2>3. (j + 1) * Overhead = j * Overhead + Overhead /\ j * Overhead \in Nat
    BY Constants
  <2> QED
    BY <1>2, <2>1, <2>2, <2>3, Constants
<1> HIDE DEF T
<1>3. \A j \in Nat : j \in T
  BY <1>1, <1>2, SetInduction
<1> QED
  BY <1>3 DEF T

(* So a buffer holds no more items than their overheads leave room for. *)
LEMMA CountBound ==
    ASSUME NEW b \in Buffers, NEW i \in Indexes, NEW k \in Nat, SpaceIn(b, i, k) <= LOG_SIZE
    PROVE  k <= LOG_SIZE \div Overhead
<1>1. k * Overhead <= LOG_SIZE
  BY SpaceCount, WalkType, Constants
<1> QED
  BY <1>1, Constants

(* As long as they do not exceed the buffer, the items lie one behind the   *)
(* other: the space of the first k is the distance to item k.               *)
LEMMA Position ==
    ASSUME NEW b \in Buffers, NEW i \in Indexes, NEW k \in Nat, SpaceIn(b, i, k) <= LOG_SIZE
    PROVE  WalkIn(b, i, k) = (i + SpaceIn(b, i, k)) % LOG_SIZE
<1> DEFINE T == {j \in Nat : SpaceIn(b, i, j) <= LOG_SIZE
                                => WalkIn(b, i, j) = (i + SpaceIn(b, i, j)) % LOG_SIZE}
<1>1. 0 \in T
  <2>1. i % LOG_SIZE = i /\ i + 0 = i
    BY Wrap, Constants DEF Indexes
  <2>2. WalkIn(b, i, 0) = i /\ SpaceIn(b, i, 0) = 0
    BY WalkStep, SpaceStep
  <2> QED
    BY <2>1, <2>2
<1>2. ASSUME NEW j \in Nat, j \in T PROVE j + 1 \in T
  <2> SUFFICES ASSUME SpaceIn(b, i, j + 1) <= LOG_SIZE
               PROVE  WalkIn(b, i, j + 1) = (i + SpaceIn(b, i, j + 1)) % LOG_SIZE
    OBVIOUS
  <2> DEFINE w == WalkIn(b, i, j)
             s == SpaceIn(b, i, j)
             e == EntryIn(b, w)
  <2>1. w \in Indexes /\ s \in Nat
    BY WalkType, Zenon
  <2>2. e \in Nat
    BY <2>1, EntryFacts
  <2>3. SpaceIn(b, i, j + 1) = s + e
    BY SpaceStep
  <2>4. WalkIn(b, i, j + 1) = (w + e) % LOG_SIZE
    BY WalkStep DEF NextIn
  <2>5. w = (i + s) % LOG_SIZE
    BY <1>2, <2>1, <2>2, <2>3, Constants
  <2> HIDE DEF w, s, e
  <2>6. (((i + s) % LOG_SIZE) + e) % LOG_SIZE = (i + (s + e)) % LOG_SIZE
    BY <2>1, <2>2, <2>3, ModAdd
  <2> QED
    BY <2>3, <2>4, <2>5, <2>6
<1> HIDE DEF T
<1>3. \A j \in Nat : j \in T
  BY <1>1, <1>2, SetInduction
<1> QED
  BY <1>3 DEF T

(* A walk may be made in two parts. *)
LEMMA Shift ==
    ASSUME NEW b \in Buffers, NEW i \in Indexes, NEW k \in Nat, NEW m \in Nat
    PROVE  /\ WalkIn(b, WalkIn(b, i, k), m) = WalkIn(b, i, k + m)
           /\ SpaceIn(b, i, k) + SpaceIn(b, WalkIn(b, i, k), m) = SpaceIn(b, i, k + m)
<1> DEFINE w == WalkIn(b, i, k)
           T == {j \in Nat : /\ WalkIn(b, w, j) = WalkIn(b, i, k + j)
                             /\ SpaceIn(b, i, k) + SpaceIn(b, w, j) = SpaceIn(b, i, k + j)}
<1>0. w \in Indexes /\ SpaceIn(b, i, k) \in Nat
  BY WalkType
<1>1. 0 \in T
  <2>1. WalkIn(b, w, 0) = w /\ SpaceIn(b, w, 0) = 0
    BY WalkStep, SpaceStep
  <2>2. k + 0 = k
    OBVIOUS
  <2> QED
    BY <1>0, <2>1, <2>2
<1> HIDE DEF w, T
<1>2. ASSUME NEW j \in Nat, j \in T PROVE j + 1 \in T
  <2>1. k + (j + 1) = (k + j) + 1 /\ k + j \in Nat
    OBVIOUS
  <2>2. /\ WalkIn(b, w, j + 1) = NextIn(b, WalkIn(b, w, j))
        /\ SpaceIn(b, w, j + 1) = SpaceIn(b, w, j) + EntryIn(b, WalkIn(b, w, j))
    <3>1. OneOn(b, w, j)
      BY GoesOn
    <3> QED
      BY <3>1 DEF OneOn
  <2>3. /\ WalkIn(b, i, (k + j) + 1) = NextIn(b, WalkIn(b, i, k + j))
        /\ SpaceIn(b, i, (k + j) + 1) = SpaceIn(b, i, k + j) + EntryIn(b, WalkIn(b, i, k + j))
    <3> DEFINE kj == k + j
    <3>1. kj \in Nat
      OBVIOUS
    <3> HIDE DEF kj
    <3>2. OneOn(b, i, kj)
      BY <3>1, GoesOn
    <3> QED
      BY <3>2 DEF OneOn, kj
  <2>4. SpaceIn(b, w, j) \in Nat /\ WalkIn(b, w, j) \in Indexes
    BY <1>0, WalkType, Zenon
  <2>5. EntryIn(b, WalkIn(b, w, j)) \in Nat
    BY <2>4, EntryFacts
  <2>6. WalkIn(b, w, j) = WalkIn(b, i, k + j) /\ SpaceIn(b, i, k) + SpaceIn(b, w, j) = SpaceIn(b, i, k + j)
    BY <1>2 DEF T
  <2> QED
    BY <1>0, <2>1, <2>2, <2>3, <2>4, <2>5, <2>6 DEF T
<1>3. \A j \in Nat : j \in T
  BY <1>1, <1>2, SetInduction
<1> QED
  BY <1>3 DEF T, w

(* The words from i on, as many as s, are the same in two buffers. *)
Agree(b, c, i, s) ==
    \A d \in Nat : d < s => c[(i + d) % LOG_SIZE] = b[(i + d) % LOG_SIZE]

(* The items of a buffer depend on their own words only. *)
LEMMA Frame ==
    ASSUME NEW b \in Buffers, NEW c \in Buffers, NEW i \in Indexes, NEW n \in Nat,
           SpaceIn(b, i, n) <= LOG_SIZE, Agree(b, c, i, SpaceIn(b, i, n))
    PROVE  \A k \in 0 .. n : WalkIn(c, i, k) = WalkIn(b, i, k) /\ SpaceIn(c, i, k) = SpaceIn(b, i, k)
<1> DEFINE T == {j \in Nat : j <= n => /\ WalkIn(c, i, j) = WalkIn(b, i, j)
                                       /\ SpaceIn(c, i, j) = SpaceIn(b, i, j)}
<1>1. 0 \in T
  BY WalkStep, SpaceStep
<1>2. ASSUME NEW j \in Nat, j \in T PROVE j + 1 \in T
  <2> SUFFICES ASSUME j + 1 <= n
               PROVE  /\ WalkIn(c, i, j + 1) = WalkIn(b, i, j + 1)
                      /\ SpaceIn(c, i, j + 1) = SpaceIn(b, i, j + 1)
    OBVIOUS
  <2> DEFINE w == WalkIn(b, i, j)
             s == SpaceIn(b, i, j)
             t == LOG_FIXED_FIELD_SIZE - 1
  <2>1. WalkIn(c, i, j) = w /\ SpaceIn(c, i, j) = s
    BY <1>2
  <2>2. w \in Indexes /\ s \in Nat /\ SpaceIn(b, i, n) \in Nat
    BY WalkType, Zenon
  <2>3. s + Overhead <= SpaceIn(b, i, n)
    BY SpaceGrows
  <2>4. t \in Nat /\ t < Overhead
    BY Constants
  <2>5. w = (i + s) % LOG_SIZE
    BY <2>2, <2>3, Position, Constants
  <2>6. /\ WalkIn(b, i, j + 1) = NextIn(b, w) /\ WalkIn(c, i, j + 1) = NextIn(c, w)
        /\ SpaceIn(b, i, j + 1) = s + EntryIn(b, w) /\ SpaceIn(c, i, j + 1) = s + EntryIn(c, w)
    <3>1. /\ WalkIn(b, i, j + 1) = NextIn(b, w)
          /\ SpaceIn(b, i, j + 1) = s + EntryIn(b, w)
      BY WalkStep, SpaceStep
    <3>2. /\ WalkIn(c, i, j + 1) = NextIn(c, WalkIn(c, i, j))
          /\ SpaceIn(c, i, j + 1) = SpaceIn(c, i, j) + EntryIn(c, WalkIn(c, i, j))
      BY WalkStep, SpaceStep
    <3> QED
      BY <2>1, <3>1, <3>2
  <2> HIDE DEF w, s
  <2>7. (w + t) % LOG_SIZE = (i + (s + t)) % LOG_SIZE
    <3>1. s + t <= LOG_SIZE
      BY <2>2, <2>3, <2>4, Constants
    <3> HIDE DEF t
    <3> QED
      BY <2>2, <2>4, <2>5, <3>1, ModAdd
  <2>8. c[(w + t) % LOG_SIZE] = b[(w + t) % LOG_SIZE]
    <3>1. s + t \in Nat /\ s + t < SpaceIn(b, i, n)
      BY <2>2, <2>3, <2>4, Constants
    <3> HIDE DEF t
    <3> QED
      BY <2>7, <3>1 DEF Agree
  <2>9. w + t = w + LOG_FIXED_FIELD_SIZE - 1
    BY <2>2, Constants DEF Indexes
  <2>10. SizeIn(c, w) = SizeIn(b, w)
    BY <2>8, <2>9 DEF SizeIn
  <2> QED
    BY <2>6, <2>10 DEF NextIn, EntryIn
<1> HIDE DEF T
<1>3. \A j \in Nat : j \in T
  BY <1>1, <1>2, SetInduction
<1> QED
  BY <1>3 DEF T
-----------------------------------------------------------------------------
(* The words of a new item, and the buffer after they were copied to start. *)
Formatted(ts, size, word, k) ==
    CASE k < LOG_FIXED_FIELD_SIZE - 1 -> ts
      [] k = LOG_FIXED_FIELD_SIZE - 1 -> size
      [] k >= LOG_FIXED_FIELD_SIZE + size -> MacWord
      [] OTHER -> word
(* log_buffer_copy in a buffer that is a parameter. *)
Copied(b, ts, start, size, word) ==
    [p \in Indexes |->
        IF (p - start) % LOG_SIZE < Overhead + size
        THEN Formatted(ts, size, word, (p - start) % LOG_SIZE) ELSE b[p]]

(* log_buffer_copy is that, in the present buffer. *)
LEMMA CopiedInState ==
    ASSUME NEW start, NEW size \in Nat, NEW word
    PROVE  log_buffer_copy(start, size, word)
              = Copied(log_buffer, global_timestamp, start, size, word)
<1>1. COMPUTE_LOG_ENTRY_SIZE(size) = Overhead + size
  BY Constants DEF COMPUTE_LOG_ENTRY_SIZE
<1> QED
  BY <1>1 DEF log_buffer_copy, Copied, log_format_buffer, Formatted, Indexes

(* The words of an item that log_format_buffer makes. *)
LEMMA FormattedWords ==
    ASSUME NEW ts, NEW size \in Nat, NEW word, NEW k \in Nat, k < Overhead + size
    PROVE  /\ k = 0 => Formatted(ts, size, word, k) = ts
           /\ k = LOG_FIXED_FIELD_SIZE - 1 => Formatted(ts, size, word, k) = size
           /\ k >= LOG_FIXED_FIELD_SIZE + size => Formatted(ts, size, word, k) = MacWord
           /\ k >= LOG_FIXED_FIELD_SIZE /\ k < LOG_FIXED_FIELD_SIZE + size
                => Formatted(ts, size, word, k) = word
           /\ Formatted(ts, size, word, k) \in {ts, size, word, MacWord}
BY Constants DEF Formatted

(* The distance from one index to another that is d behind it. *)
LEMMA Ahead ==
    ASSUME NEW i \in Indexes, NEW d \in Indexes
    PROVE  (((i + d) % LOG_SIZE) - i) % LOG_SIZE = d
<1> DEFINE q == (i + d) % LOG_SIZE
<1>1. q = IF i + d >= LOG_SIZE THEN i + d - LOG_SIZE ELSE i + d
  BY Wrap, Constants DEF Indexes
<1> HIDE DEF q
<1>2. q - i = d - LOG_SIZE \/ q - i = d
  BY <1>1, Constants DEF Indexes
<1>3. (d - LOG_SIZE) % LOG_SIZE = d
  <2>1. d - LOG_SIZE \in Int /\ -LOG_SIZE <= d - LOG_SIZE /\ d - LOG_SIZE < 0
    BY Constants DEF Indexes
  <2>2. (d - LOG_SIZE) % LOG_SIZE = d - LOG_SIZE + LOG_SIZE
    BY <2>1, Wrap, Constants
  <2> QED
    BY <2>2, Constants DEF Indexes
<1>4. d % LOG_SIZE = d
  BY Wrap, Constants DEF Indexes
<1>5. (q - i) % LOG_SIZE = d
  BY <1>2, <1>3, <1>4
<1> QED
  BY <1>5 DEF q

(* The distance from an index to one that is s - d before it. *)
LEMMA Behind ==
    ASSUME NEW i \in Indexes, NEW s \in Nat, s <= LOG_SIZE, NEW d \in Nat, d < s
    PROVE  (((i + d) % LOG_SIZE) - ((i + s) % LOG_SIZE)) % LOG_SIZE = LOG_SIZE - s + d
<1> DEFINE p == IF i + d >= LOG_SIZE THEN i + d - LOG_SIZE ELSE i + d
           q == IF i + s >= LOG_SIZE THEN i + s - LOG_SIZE ELSE i + s
<1>1. (i + d) % LOG_SIZE = p
  BY WrapSum, Constants
<1>2. (i + s) % LOG_SIZE = q
  BY WrapSum
<1>3. p - q \in Int /\ (p - q = d - s \/ p - q = d - s + LOG_SIZE)
  BY Constants DEF Indexes
<1>4. (d - s) % LOG_SIZE = LOG_SIZE - s + d
  <2>1. d - s \in Int /\ -LOG_SIZE <= d - s /\ d - s < 0 /\ d - s < 2 * LOG_SIZE
    BY Constants
  <2>2. (d - s) % LOG_SIZE = d - s + LOG_SIZE
    BY <2>1, Wrap
  <2> QED
    BY <2>2, Constants
<1>5. (d - s + LOG_SIZE) % LOG_SIZE = LOG_SIZE - s + d
  <2>1. d - s + LOG_SIZE \in Int /\ 0 <= d - s + LOG_SIZE /\ d - s + LOG_SIZE < LOG_SIZE
    BY Constants
  <2>2. (d - s + LOG_SIZE) % LOG_SIZE = d - s + LOG_SIZE
    BY <2>1, Wrap, Constants
  <2> QED
    BY <2>2, Constants
<1> HIDE DEF p, q
<1> QED
  BY <1>1, <1>2, <1>3, <1>4, <1>5

(* A copied item is found word by word from its start on, over the end of   *)
(* the buffer too.                                                          *)
LEMMA CopiedWords ==
    ASSUME NEW b \in Buffers, NEW ts \in Nat, NEW start \in Indexes,
           NEW size \in Nat, NEW word \in Nat, size <= LOG_SIZE - Overhead
    PROVE  /\ Copied(b, ts, start, size, word) \in Buffers
           /\ \A d \in Nat : d < Overhead + size =>
                 Copied(b, ts, start, size, word)[(start + d) % LOG_SIZE]
                    = Formatted(ts, size, word, d)
<1> DEFINE c == Copied(b, ts, start, size, word)
<1>1. c \in Buffers
  <2> SUFFICES ASSUME NEW p \in Indexes PROVE c[p] \in Nat
    BY DEF Copied, Buffers
  <2> DEFINE k == (p - start) % LOG_SIZE
  <2>1. k \in Nat
    BY ModIndex DEF Indexes
  <2>2. c[p] = IF k < Overhead + size THEN Formatted(ts, size, word, k) ELSE b[p]
    BY DEF Copied
  <2>3. b[p] \in Nat
    BY DEF Buffers
  <2> HIDE DEF k
  <2>4. k < Overhead + size => Formatted(ts, size, word, k) \in {ts, size, word, MacWord}
    BY <2>1, FormattedWords
  <2>5. MacWord \in Nat
    BY Constants DEF MacWord
  <2> QED
    BY <2>2, <2>3, <2>4, <2>5
<1>2. ASSUME NEW d \in Nat, d < Overhead + size
      PROVE  c[(start + d) % LOG_SIZE] = Formatted(ts, size, word, d)
  <2>1. d \in Indexes
    BY <1>2, Constants DEF Indexes
  <2>2. (start + d) % LOG_SIZE \in Indexes
    BY <2>1, ModIndex DEF Indexes
  <2>3. (((start + d) % LOG_SIZE) - start) % LOG_SIZE = d
    BY <2>1, Ahead
  <2> QED
    BY <1>2, <2>2, <2>3 DEF Copied
<1> QED
  BY <1>1, <1>2

(* A line that is copied behind the items and fits leaves them alone. *)
LEMMA CopiedAgrees ==
    ASSUME NEW b \in Buffers, NEW ts \in Nat, NEW i \in Indexes, NEW s \in Nat,
           NEW size \in Nat, NEW word \in Nat, s + Overhead + size <= LOG_SIZE
    PROVE  Agree(b, Copied(b, ts, (i + s) % LOG_SIZE, size, word), i, s)
<1> SUFFICES ASSUME NEW d \in Nat, d < s
             PROVE  Copied(b, ts, (i + s) % LOG_SIZE, size, word)[(i + d) % LOG_SIZE]
                       = b[(i + d) % LOG_SIZE]
  BY DEF Agree
<1>1. (i + d) % LOG_SIZE \in Indexes
  BY ModIndex DEF Indexes
<1>2. (((i + d) % LOG_SIZE) - ((i + s) % LOG_SIZE)) % LOG_SIZE = LOG_SIZE - s + d
  <2>1. s <= LOG_SIZE
    BY Constants
  <2> QED
    BY <2>1, Behind
<1>3. ~(LOG_SIZE - s + d < Overhead + size)
  BY Constants
<1> QED
  BY <1>1, <1>2, <1>3 DEF Copied
-----------------------------------------------------------------------------
(* The m items from w on fit into sz words, and each ends in its MAC. *)
Sealed(b, w, m) ==
    \A k \in 1 .. m, j \in 1 .. LOG_MAC_SIZE :
        b[(w + (SpaceIn(b, w, k) - j)) % LOG_SIZE] = MacWord
(* m items from w on, sealed, take no more than sz words. *)
Stored(b, w, m, sz) ==
    /\ w \in Indexes /\ m \in Nat /\ sz \in 0 .. LOG_SIZE
    /\ SpaceIn(b, w, m) <= sz
    /\ Sealed(b, w, m)

(* An empty log stores no items. *)
LEMMA StoredNone ==
    ASSUME NEW b \in Buffers PROVE Stored(b, 0, 0, 0)
BY SpaceStep, Constants DEF Stored, Sealed, Indexes

(* No item takes more space than all of them. *)
LEMMA SpaceWithin ==
    ASSUME NEW b \in Buffers, NEW i \in Indexes, NEW n \in Nat, NEW k \in 0 .. n
    PROVE  SpaceIn(b, i, k) <= SpaceIn(b, i, n)
<1>1. k \in Nat /\ SpaceIn(b, i, k) \in Nat /\ SpaceIn(b, i, n) \in Nat
  BY WalkType
<1>2. CASE k < n
  BY <1>1, <1>2, SpaceGrows, Constants
<1>3. CASE k = n
  BY <1>1, <1>3
<1> QED
  BY <1>2, <1>3

(* The k oldest items leave. *)
LEMMA DropStored ==
    ASSUME NEW b \in Buffers, NEW w, NEW m, NEW sz, Stored(b, w, m, sz), NEW k \in 0 .. m
    PROVE  /\ Stored(b, WalkIn(b, w, k), m - k, sz - SpaceIn(b, w, k))
           /\ Stored(b, WalkIn(b, w, k), m - k, sz)
           /\ SpaceIn(b, WalkIn(b, w, k), m - k) = SpaceIn(b, w, m) - SpaceIn(b, w, k)
<1> DEFINE v == WalkIn(b, w, k)
           s == SpaceIn(b, w, k)
<1>1. w \in Indexes /\ m \in Nat /\ sz \in 0 .. LOG_SIZE /\ SpaceIn(b, w, m) <= sz /\ Sealed(b, w, m)
  BY DEF Stored
<1>2. k \in Nat /\ m - k \in Nat /\ k + (m - k) = m
  BY <1>1
<1>3. v \in Indexes /\ s \in Nat /\ SpaceIn(b, w, m) \in Nat
  BY <1>1, <1>2, WalkType
<1>4. s <= SpaceIn(b, w, m)
  BY <1>1, SpaceWithin
<1>5. s + SpaceIn(b, v, m - k) = SpaceIn(b, w, m)
  BY <1>1, <1>2, Shift
<1>6. SpaceIn(b, v, m - k) \in Nat
  BY <1>2, <1>3, WalkType
<1>7. v = (w + s) % LOG_SIZE
  BY <1>1, <1>2, <1>3, <1>4, Position, Constants
<1>8. Sealed(b, v, m - k)
  <2> SUFFICES ASSUME NEW i \in 1 .. m - k, NEW j \in 1 .. LOG_MAC_SIZE
               PROVE  b[(v + (SpaceIn(b, v, i) - j)) % LOG_SIZE] = MacWord
    BY DEF Sealed
  <2>1. i \in Nat /\ k + i \in 1 .. m /\ k + i \in Nat /\ i > 0
    BY <1>1, <1>2
  <2>2. s + SpaceIn(b, v, i) = SpaceIn(b, w, k + i)
    BY <1>1, <1>2, <2>1, Shift
  <2>3. SpaceIn(b, w, k + i) <= SpaceIn(b, w, m) /\ SpaceIn(b, w, k + i) \in Nat
    <3>1. k + i \in 0 .. m
      BY <1>1, <2>1
    <3> QED
      BY <1>1, <2>1, <3>1, SpaceWithin, WalkType, Zenon
  <2>4. SpaceIn(b, v, i) \in Nat /\ Overhead <= SpaceIn(b, v, i)
    <3>1. SpaceIn(b, v, 0) = 0
      BY SpaceStep
    <3>2. SpaceIn(b, v, i) \in Nat
      BY <1>3, <2>1, WalkType
    <3>3. SpaceIn(b, v, 0) + Overhead <= SpaceIn(b, v, i)
      BY <1>3, <2>1, SpaceGrows
    <3> QED
      BY <3>1, <3>2, <3>3, Constants
  <2> DEFINE t == SpaceIn(b, v, i) - j
  <2>5. t \in Nat /\ s + t <= LOG_SIZE /\ s + t = SpaceIn(b, w, k + i) - j
    BY <1>1, <1>3, <2>2, <2>3, <2>4, Constants
  <2> HIDE DEF t, s, v
  <2>6. (v + t) % LOG_SIZE = (w + (s + t)) % LOG_SIZE
    BY <1>1, <1>3, <1>7, <2>5, ModAdd, Zenon
  <2>7. b[(w + (SpaceIn(b, w, k + i) - j)) % LOG_SIZE] = MacWord
    BY <1>1, <2>1 DEF Sealed
  <2> QED
    BY <2>5, <2>6, <2>7 DEF t
<1> HIDE DEF s, v
<1>9. /\ Stored(b, v, m - k, sz - s) /\ Stored(b, v, m - k, sz)
      /\ SpaceIn(b, v, m - k) = SpaceIn(b, w, m) - s
  BY <1>1, <1>2, <1>3, <1>4, <1>5, <1>6, <1>8, Constants DEF Stored
<1> QED
  BY <1>9 DEF s, v

(* c is b with an item of size words behind the m items from w on. *)
Added(b, c, w, m, sz, ts, size, word) ==
    /\ c \in Buffers
    /\ Stored(c, w, m + 1, sz + Overhead + size)
    /\ Agree(b, c, w, SpaceIn(b, w, m))
    /\ WalkIn(c, w, m) = WalkIn(b, w, m)
    /\ SizeIn(c, WalkIn(b, w, m)) = size
    /\ SpaceIn(c, w, m + 1) = SpaceIn(b, w, m) + Overhead + size
    /\ \A d \in Nat : d < Overhead + size =>
          c[(WalkIn(b, w, m) + d) % LOG_SIZE] = Formatted(ts, size, word, d)

(* A line is copied behind the items. *)
LEMMA AddStored ==
    ASSUME NEW b \in Buffers, NEW w, NEW m, NEW sz, Stored(b, w, m, sz),
           NEW ts \in Nat, NEW size \in Nat, NEW word \in Nat,
           sz + Overhead + size <= LOG_SIZE,
           NEW c, c = Copied(b, ts, WalkIn(b, w, m), size, word)
    PROVE  Added(b, c, w, m, sz, ts, size, word)
<1> DEFINE s == SpaceIn(b, w, m)
           v == WalkIn(b, w, m)
           entry == Overhead + size
<1>1. w \in Indexes /\ m \in Nat /\ sz \in 0 .. LOG_SIZE /\ s <= sz /\ Sealed(b, w, m)
  BY DEF Stored
<1>2. v \in Indexes /\ s \in Nat
  BY <1>1, WalkType
<1>3. v = (w + s) % LOG_SIZE
  BY <1>1, <1>2, Position, Constants
<1>4. size <= LOG_SIZE - Overhead /\ s + Overhead + size <= LOG_SIZE /\ s <= LOG_SIZE
      /\ s + entry <= LOG_SIZE /\ entry \in Nat /\ sz + entry \in 0 .. LOG_SIZE
  BY <1>1, <1>2, Constants
<1>5. c \in Buffers /\ \A d \in Nat : d < entry => c[(v + d) % LOG_SIZE] = Formatted(ts, size, word, d)
  <2> HIDE DEF v
  <2>1. /\ Copied(b, ts, v, size, word) \in Buffers
        /\ \A d \in Nat : d < Overhead + size =>
              Copied(b, ts, v, size, word)[(v + d) % LOG_SIZE] = Formatted(ts, size, word, d)
    BY <1>2, <1>4, CopiedWords
  <2>2. c = Copied(b, ts, v, size, word)
    BY DEF v
  <2> QED
    BY <2>1, <2>2
<1>6. Agree(b, c, w, s)
  BY <1>1, <1>2, <1>3, <1>4, CopiedAgrees
<1>7. \A k \in 0 .. m : WalkIn(c, w, k) = WalkIn(b, w, k) /\ SpaceIn(c, w, k) = SpaceIn(b, w, k)
  BY <1>1, <1>4, <1>5, <1>6, Frame
<1>8. WalkIn(c, w, m) = v /\ SpaceIn(c, w, m) = s
  BY <1>1, <1>7
<1> HIDE DEF s, v, entry
<1>9. SizeIn(c, v) = size
  <2> DEFINE t == LOG_FIXED_FIELD_SIZE - 1
  <2>1. t \in Nat /\ t < entry /\ v + t = v + LOG_FIXED_FIELD_SIZE - 1
    BY <1>2, Constants DEF Indexes, entry
  <2>2. Formatted(ts, size, word, t) = size
    BY <2>1, FormattedWords DEF entry
  <2>3. c[(v + t) % LOG_SIZE] = Formatted(ts, size, word, t)
    <3> HIDE DEF t
    <3> QED
      BY <1>5, <2>1
  <2> QED
    BY <2>1, <2>2, <2>3 DEF SizeIn
<1>10. EntryIn(c, v) = entry
  BY <1>2, <1>5, <1>9, EntryFacts DEF entry
<1>11. SpaceIn(c, w, m + 1) = s + entry
  <2>1. OneOn(c, w, m)
    BY <1>1, GoesOn
  <2> QED
    BY <1>8, <1>10, <2>1 DEF OneOn
<1>12. Sealed(c, w, m + 1)
  <2> SUFFICES ASSUME NEW k \in 1 .. m + 1, NEW j \in 1 .. LOG_MAC_SIZE
               PROVE  c[(w + (SpaceIn(c, w, k) - j)) % LOG_SIZE] = MacWord
    BY DEF Sealed
  <2>1. CASE k \in 1 .. m
    <3>1. SpaceIn(c, w, k) = SpaceIn(b, w, k) /\ k \in 0 .. m /\ k \in Nat /\ 0 < k
      BY <1>1, <1>7, <2>1
    <3>2. SpaceIn(b, w, k) <= s /\ SpaceIn(b, w, k) \in Nat
      BY <1>1, <3>1, SpaceWithin, WalkType DEF s
    <3>3. Overhead <= SpaceIn(b, w, k)
      <4>1. SpaceIn(b, w, 0) = 0
        BY SpaceStep
      <4>2. SpaceIn(b, w, 0) + Overhead <= SpaceIn(b, w, k)
        BY <1>1, <3>1, SpaceGrows
      <4> QED
        BY <4>1, <4>2, Constants
    <3> DEFINE t == SpaceIn(b, w, k) - j
    <3>4. t \in Nat /\ t < s
      BY <1>2, <3>2, <3>3, Constants
    <3>5. b[(w + t) % LOG_SIZE] = MacWord
      BY <1>1, <2>1 DEF Sealed
    <3> HIDE DEF t
    <3>6. c[(w + t) % LOG_SIZE] = MacWord
      BY <1>6, <3>4, <3>5 DEF Agree
    <3> QED
      BY <3>1, <3>6 DEF t
  <2>2. CASE k = m + 1
    <3> DEFINE t == entry - j
    <3>1. t \in Nat /\ t < entry /\ t >= LOG_FIXED_FIELD_SIZE + size /\ s + t <= LOG_SIZE
          /\ s + t = (s + entry) - j
      BY <1>2, <1>4, Constants DEF entry
    <3> HIDE DEF t
    <3>2. c[(v + t) % LOG_SIZE] = MacWord
      BY <1>5, <3>1, FormattedWords DEF entry
    <3>3. (v + t) % LOG_SIZE = (w + (s + t)) % LOG_SIZE
      BY <1>1, <1>2, <1>3, <3>1, ModAdd
    <3> QED
      BY <1>11, <2>2, <3>1, <3>2, <3>3
  <2> QED
    BY <1>1, <2>1, <2>2
<1>13. Stored(c, w, m + 1, sz + entry)
  BY <1>1, <1>2, <1>4, <1>11, <1>12 DEF Stored
<1>14. sz + entry = sz + Overhead + size /\ s + entry = s + Overhead + size
  BY <1>1, <1>2, Constants DEF entry
<1> QED
  BY <1>5, <1>6, <1>8, <1>9, <1>11, <1>13, <1>14 DEF s, v, entry, Added
-----------------------------------------------------------------------------
(* The type of log_state. *)
States == [first_el_idx : Indexes, last_el_idx : Indexes,
           stored_size : 0 .. LOG_SIZE, num_items : Nat]

(* The inductive invariant, for a buffer, a state and the history flag: the *)
(* items fit into stored_size words, even when some were deleted and        *)
(* stored_size is too large.                                                *)
Good(b, st, c) ==
    /\ b \in Buffers /\ st \in States /\ c \in BOOLEAN
    /\ Stored(b, st.first_el_idx, st.num_items, st.stored_size)
    /\ ~c => st.stored_size = SpaceIn(b, st.first_el_idx, st.num_items)
    /\ st.num_items > 0 => st.last_el_idx = WalkIn(b, st.first_el_idx, st.num_items - 1)
    /\ st.num_items = 0 => st = EmptyState /\ ~c
LogInv == Good(log_buffer, log_state, cut) /\ global_timestamp \in 0 .. Stamps - 1

(* What log_core_add_line makes room for a new item of this size with, and  *)
(* where it puts the item.                                                  *)
Room(entry) == IF log_state.num_items = 0 THEN log_state ELSE log_replace_item(entry)
StartPos(entry) ==
    IF log_state.num_items = 0 THEN 0
    ELSE IF Room(entry).num_items = 0 THEN Room(entry).first_el_idx
    ELSE GET_NEXT_LOG_INDEX(Room(entry).last_el_idx)

(* A step of log_core_add_line, in terms of Copied and StartPos. *)
LEMMA AddInState ==
    ASSUME NEW size \in Nat, NEW word, log_core_add_line(size, word)
    PROVE  LET entry == Overhead + size
               room == Room(entry)
           IN  /\ size <= LOG_SIZE - Overhead
               /\ log_buffer' = Copied(log_buffer, global_timestamp, StartPos(entry), size, word)
               /\ log_state' = log_update_state(room.first_el_idx, StartPos(entry),
                                                room.stored_size + entry, room.num_items + 1)
               /\ global_timestamp' = (global_timestamp + 1) % Stamps
               /\ cut' = (cut /\ room # EmptyState)
<1>1. COMPUTE_LOG_ENTRY_SIZE(size) = Overhead + size
  BY Constants DEF COMPUTE_LOG_ENTRY_SIZE
<1>2. log_buffer_copy(StartPos(Overhead + size), size, word)
        = Copied(log_buffer, global_timestamp, StartPos(Overhead + size), size, word)
  BY CopiedInState
<1> QED
  BY <1>1, <1>2 DEF log_core_add_line, Room, StartPos

(* WithoutOldest in a buffer and a state that are parameters. *)
StateOf(b, st, k) ==
    log_update_state(WalkIn(b, st.first_el_idx, k), st.last_el_idx,
                     st.stored_size - SpaceIn(b, st.first_el_idx, k), st.num_items - k)

(* WithoutOldest is that, in the present state. *)
LEMMA WithoutInState ==
    ASSUME NEW k PROVE WithoutOldest(k) = StateOf(log_buffer, log_state, k)
BY InState DEF WithoutOldest, StateOf

(* log_replace_item removes as many of the oldest items as it takes until   *)
(* the new one fits, and resets the state only after callers deleted some.  *)
LEMMA RoomFacts ==
    ASSUME LogInv, NEW entry \in Nat, entry <= LOG_SIZE
    PROVE  \/ \E k \in 0 .. log_state.num_items :
                 /\ Room(entry) = StateOf(log_buffer, log_state, k)
                 /\ entry <= LOG_SIZE - StateOf(log_buffer, log_state, k).stored_size
                 /\ \A j \in 0 .. k - 1 :
                       entry > LOG_SIZE - StateOf(log_buffer, log_state, j).stored_size
           \/ Room(entry) = EmptyState /\ cut
<1> DEFINE st == log_state
           b == log_buffer
           n == log_state.num_items
<1>1. st \in States /\ b \in Buffers /\ n \in Nat
  BY DEF LogInv, Good, States
<1>2. \A k \in 0 .. n : StateOf(b, st, k).stored_size \in Int
  <2> TAKE k \in 0 .. n
  <2>1. k \in Nat /\ st.first_el_idx \in Indexes /\ st.stored_size \in Nat
    BY <1>1, Constants DEF States
  <2>2. SpaceIn(b, st.first_el_idx, k) \in Nat
    BY <1>1, <2>1, WalkType, Zenon
  <2> QED
    BY <2>1, <2>2 DEF StateOf, log_update_state
<1>3. CASE n = 0
  <2>1. st = EmptyState
    BY <1>3 DEF LogInv, Good
  <2>2. WalkIn(b, 0, 0) = 0 /\ SpaceIn(b, 0, 0) = 0
    BY WalkStep, SpaceStep
  <2>3. StateOf(b, st, 0) = EmptyState
    BY <2>1, <2>2 DEF StateOf, EmptyState, log_update_state
  <2>4. EmptyState.stored_size = 0
    BY DEF EmptyState, log_update_state
  <2>5. Room(entry) = st
    BY <1>3 DEF Room
  <2>6. entry <= LOG_SIZE - 0
    BY Constants
  <2>7. \A j \in 0 .. 0 - 1 : entry > LOG_SIZE - StateOf(b, st, j).stored_size
    OBVIOUS
  <2> QED
    BY <1>1, <1>3, <2>1, <2>3, <2>4, <2>5, <2>6, <2>7
<1>4. CASE n # 0
  <2> DEFINE fits == {k \in 0 .. n : entry <= LOG_SIZE - StateOf(b, st, k).stored_size}
  <2>1. Room(entry) = IF fits = {} THEN EmptyState ELSE StateOf(b, st, Min(fits))
    BY <1>4, WithoutInState DEF Room, log_replace_item
  <2>2. CASE fits # {}
    <3>1. PICK k \in fits : \A j \in fits : k <= j
      <4>1. fits \subseteq Nat
        BY <1>1
      <4> HIDE DEF fits
      <4> QED
        BY <2>2, <4>1, LeastNumber, Zenon
    <3>2. \A x \in fits : (\A j \in fits : x <= j) => x = k
      BY <1>1, <3>1
    <3>3. Min(fits) = k
      <4> HIDE DEF fits
      <4> QED
        BY <3>1, <3>2 DEF Min
    <3>4. \A j \in 0 .. k - 1 : entry > LOG_SIZE - StateOf(b, st, j).stored_size
      <4> SUFFICES ASSUME NEW j \in 0 .. k - 1
                   PROVE  entry > LOG_SIZE - StateOf(b, st, j).stored_size
        OBVIOUS
      <4>1. j \in 0 .. n /\ ~(k <= j)
        BY <1>1, <3>1
      <4>2. j \notin fits
        BY <3>1, <4>1
      <4> QED
        BY <1>2, <4>1, <4>2, Constants
    <3> QED
      BY <2>1, <2>2, <3>1, <3>3, <3>4, Zenon
  <2>3. CASE fits = {}
    <3> SUFFICES ASSUME ~cut PROVE FALSE
      BY <2>1, <2>3 DEF LogInv, Good
    <3>1. st.stored_size = SpaceIn(b, st.first_el_idx, n) /\ st.stored_size \in Nat
      BY <1>1, Constants DEF LogInv, Good, States
    <3>2. StateOf(b, st, n).stored_size = 0
      BY <3>1 DEF StateOf, log_update_state
    <3>3. n \in fits
      BY <1>1, <3>2, Constants
    <3> QED
      BY <2>3, <3>3
  <2> QED
    BY <2>2, <2>3
<1> QED
  BY <1>3, <1>4

(* The k oldest items left; the others, from w on, are in sz words.         *)
AddsTo(entry, k, w, sz) ==
    /\ Room(entry).first_el_idx = w
    /\ Room(entry).num_items = log_state.num_items - k
    /\ Room(entry).stored_size = sz
    /\ Stored(log_buffer, w, log_state.num_items - k, sz)
    /\ sz + entry <= LOG_SIZE
    /\ StartPos(entry) = WalkIn(log_buffer, w, log_state.num_items - k)
    /\ k < log_state.num_items => w = WalkIn(log_buffer, log_state.first_el_idx, k)
    /\ ~cut \/ Room(entry) = EmptyState => sz = SpaceIn(log_buffer, w, log_state.num_items - k)
    /\ ~cut => \A j \in 0 .. k - 1 :
          entry > LOG_SIZE - (SpaceIn(log_buffer, log_state.first_el_idx, log_state.num_items)
                                - SpaceIn(log_buffer, log_state.first_el_idx, j))

(* log_replace_item drops some k of the oldest items, and the rest leaves   *)
(* room.                                                                    *)
LEMMA AddFacts ==
    ASSUME LogInv, NEW entry \in Nat, entry <= LOG_SIZE
    PROVE  \E k \in 0 .. log_state.num_items : \E w, sz : AddsTo(entry, k, w, sz)
<1> DEFINE st == log_state
           b == log_buffer
           i == log_state.first_el_idx
           n == log_state.num_items
<1>1. b \in Buffers /\ st \in States /\ i \in Indexes /\ n \in Nat /\ st.stored_size \in 0 .. LOG_SIZE
  BY DEF LogInv, Good, States
<1>2. Stored(b, i, n, st.stored_size) /\ (~cut => st.stored_size = SpaceIn(b, i, n))
  BY DEF LogInv, Good
<1>3. ASSUME NEW k \in 0 .. n,
             Room(entry) = StateOf(b, st, k),
             entry <= LOG_SIZE - StateOf(b, st, k).stored_size,
             \A j \in 0 .. k - 1 : entry > LOG_SIZE - StateOf(b, st, j).stored_size
      PROVE  AddsTo(entry, k, WalkIn(b, i, k), st.stored_size - SpaceIn(b, i, k))
  <2> DEFINE w == WalkIn(b, i, k)
             sz == st.stored_size - SpaceIn(b, i, k)
  <2>1. /\ Stored(b, w, n - k, sz)
        /\ SpaceIn(b, w, n - k) = SpaceIn(b, i, n) - SpaceIn(b, i, k)
    BY <1>1, <1>2, DropStored
  <2>2. /\ Room(entry).first_el_idx = w /\ Room(entry).num_items = n - k
        /\ Room(entry).stored_size = sz /\ Room(entry).last_el_idx = st.last_el_idx
    BY <1>3 DEF StateOf, log_update_state
  <2>3. sz \in 0 .. LOG_SIZE /\ n - k \in Nat /\ w \in Indexes
    BY <2>1 DEF Stored
  <2>4. sz + entry <= LOG_SIZE
    BY <1>3, <2>2, <2>3, Constants
  <2>5. StartPos(entry) = WalkIn(b, w, n - k)
    <3>1. CASE n = 0
      <4>1. k = 0 /\ n - k = 0 /\ i = 0
        <5>1. log_state = EmptyState
          BY <3>1 DEF LogInv, Good
        <5>2. i = 0
          BY <5>1 DEF EmptyState, log_update_state
        <5>3. k = 0
          BY <3>1
        <5> QED
          BY <3>1, <5>2, <5>3
      <4>2. WalkIn(b, 0, 0) = 0
        BY WalkStep
      <4> QED
        BY <3>1, <4>1, <4>2 DEF StartPos
    <3>2. CASE n # 0 /\ n - k = 0
      <4>1. WalkIn(b, w, 0) = w
        BY WalkStep
      <4> QED
        BY <2>2, <3>2, <4>1 DEF StartPos
    <3>3. CASE n # 0 /\ n - k # 0
      <4>1. StartPos(entry) = NextIn(b, st.last_el_idx)
        BY <2>2, <3>3, InState DEF StartPos
      <4>2. st.last_el_idx = WalkIn(b, i, n - 1) /\ n - 1 \in Nat /\ (n - 1) + 1 = n
        <5>1. n # 0 => st.last_el_idx = WalkIn(b, i, n - 1)
          BY <1>1 DEF LogInv, Good
        <5>2. n - 1 \in Nat /\ (n - 1) + 1 = n
          BY <1>1, <3>3
        <5> QED
          BY <3>3, <5>1, <5>2
      <4>3. WalkIn(b, i, (n - 1) + 1) = NextIn(b, WalkIn(b, i, n - 1))
        <5> DEFINE p == n - 1
        <5>1. p \in Nat
          BY <4>2
        <5> HIDE DEF p
        <5>2. OneOn(b, i, p)
          BY <5>1, GoesOn
        <5> QED
          BY <5>2 DEF OneOn, p
      <4>4. k \in Nat /\ k + (n - k) = n
        BY <1>1
      <4>5. WalkIn(b, w, n - k) = WalkIn(b, i, k + (n - k))
        BY <1>1, <2>3, <4>4, Shift
      <4> QED
        BY <4>1, <4>2, <4>3, <4>4, <4>5
    <3> QED
      BY <3>1, <3>2, <3>3
  <2>6. ~cut \/ Room(entry) = EmptyState => sz = SpaceIn(b, w, n - k)
    <3>1. CASE ~cut
      BY <1>2, <2>1, <3>1
    <3>2. CASE Room(entry) = EmptyState
      <4>1. n - k = 0 /\ sz = 0
        BY <2>2, <3>2 DEF EmptyState, log_update_state
      <4> QED
        BY <4>1, SpaceStep
    <3> QED
      BY <3>1, <3>2
  <2>7. ~cut => \A j \in 0 .. k - 1 :
          entry > LOG_SIZE - (SpaceIn(b, i, n) - SpaceIn(b, i, j))
    <3> SUFFICES ASSUME ~cut, NEW j \in 0 .. k - 1
                 PROVE  entry > LOG_SIZE - (SpaceIn(b, i, n) - SpaceIn(b, i, j))
      OBVIOUS
    <3>1. StateOf(b, st, j).stored_size = SpaceIn(b, i, n) - SpaceIn(b, i, j)
      BY <1>2 DEF StateOf, log_update_state
    <3> QED
      BY <1>3, <3>1
  <2> QED
    BY <2>1, <2>2, <2>4, <2>5, <2>6, <2>7 DEF AddsTo
<1>4. ASSUME Room(entry) = EmptyState, cut
      PROVE  AddsTo(entry, n, 0, 0)
  <2>1. /\ Room(entry).first_el_idx = 0 /\ Room(entry).num_items = 0 /\ Room(entry).stored_size = 0
        /\ n - n = 0
    BY <1>1, <1>4 DEF EmptyState, log_update_state
  <2>2. WalkIn(b, 0, 0) = 0 /\ SpaceIn(b, 0, 0) = 0
    BY WalkStep, SpaceStep
  <2>3. Stored(b, 0, 0, 0)
    BY <1>1, StoredNone
  <2>4. StartPos(entry) = 0
    BY <2>1 DEF StartPos
  <2> QED
    BY <1>1, <1>4, <2>1, <2>2, <2>3, <2>4, Constants DEF AddsTo
<1> QED
  <2>1. CASE Room(entry) = EmptyState /\ cut
    BY <1>1, <1>4, <2>1
  <2>2. CASE \E k \in 0 .. n :
                 /\ Room(entry) = StateOf(b, st, k)
                 /\ entry <= LOG_SIZE - StateOf(b, st, k).stored_size
                 /\ \A j \in 0 .. k - 1 : entry > LOG_SIZE - StateOf(b, st, j).stored_size
    BY <1>3, <2>2
  <2> QED
    BY <2>1, <2>2, RoomFacts

(* The empty log satisfies the invariant. *)
LEMMA InitGood ==
    Init => LogInv
<1> SUFFICES ASSUME Init PROVE LogInv
  OBVIOUS
<1>1. log_buffer \in Buffers
  BY DEF Init, Buffers, Indexes
<1>2. 0 \in Indexes /\ 0 \in 0 .. LOG_SIZE /\ global_timestamp \in 0 .. Stamps - 1
  BY Constants DEF Init, Indexes
<1>3. log_state = EmptyState /\ ~cut /\ cut \in BOOLEAN
  BY Zenon DEF Init
<1>4. EmptyState \in States
  BY <1>2 DEF EmptyState, log_update_state, States
<1>5. EmptyState.first_el_idx = 0 /\ EmptyState.num_items = 0 /\ EmptyState.stored_size = 0
  BY DEF EmptyState, log_update_state
<1>6. Stored(log_buffer, 0, 0, 0) /\ SpaceIn(log_buffer, 0, 0) = 0
  BY <1>1, StoredNone, SpaceStep
<1> QED
  BY <1>1, <1>2, <1>3, <1>4, <1>5, <1>6 DEF LogInv, Good

(* log_core_add_line keeps the invariant. *)
LEMMA AddGood ==
    ASSUME LogInv, NEW size \in Nat, NEW word \in Nat, log_core_add_line(size, word)
    PROVE  LogInv'
<1> DEFINE entry == Overhead + size
           b == log_buffer
           n == log_state.num_items
<1>1. /\ size <= LOG_SIZE - Overhead
      /\ log_buffer' = Copied(b, global_timestamp, StartPos(entry), size, word)
      /\ log_state' = log_update_state(Room(entry).first_el_idx, StartPos(entry),
                                       Room(entry).stored_size + entry, Room(entry).num_items + 1)
      /\ global_timestamp' = (global_timestamp + 1) % Stamps
      /\ cut' = (cut /\ Room(entry) # EmptyState)
  BY AddInState
<1>2. b \in Buffers /\ cut \in BOOLEAN /\ global_timestamp \in Nat /\ n \in Nat
  BY Constants DEF LogInv, Good, States
<1>3. entry \in Nat /\ entry <= LOG_SIZE
  BY <1>1, Constants
<1>4. PICK k \in 0 .. n : \E w, sz : AddsTo(entry, k, w, sz)
  <2> HIDE DEF entry
  <2> QED
    BY <1>3, AddFacts
<1>5. PICK w, sz : AddsTo(entry, k, w, sz)
  BY <1>4
<1> DEFINE m == n - k
<1>6. Stored(b, w, m, sz) /\ StartPos(entry) = WalkIn(b, w, m)
  BY <1>5 DEF AddsTo
<1>7. w \in Indexes /\ m \in Nat /\ sz \in Nat /\ SpaceIn(b, w, m) \in Nat
      /\ WalkIn(b, w, m) \in Indexes
  <2>1. w \in Indexes /\ m \in Nat /\ sz \in Nat
    BY <1>6, Constants DEF Stored
  <2> HIDE DEF m
  <2> QED
    BY <1>2, <2>1, WalkType
<1>8. sz + Overhead + size <= LOG_SIZE /\ sz + entry \in 0 .. LOG_SIZE /\ sz + Overhead + size = sz + entry
  BY <1>3, <1>5, <1>7, Constants DEF AddsTo
<1>9. log_state' = log_update_state(w, WalkIn(b, w, m), sz + entry, m + 1)
  BY <1>1, <1>5, <1>6 DEF AddsTo
<1>10. /\ log_state'.first_el_idx = w /\ log_state'.last_el_idx = WalkIn(b, w, m)
       /\ log_state'.stored_size = sz + entry /\ log_state'.num_items = m + 1
       /\ log_state' \in States
  BY <1>7, <1>8, <1>9 DEF log_update_state, States
<1>11. /\ log_buffer' \in Buffers
       /\ Stored(log_buffer', w, m + 1, sz + Overhead + size)
       /\ WalkIn(log_buffer', w, m) = WalkIn(b, w, m)
       /\ SpaceIn(log_buffer', w, m + 1) = SpaceIn(b, w, m) + Overhead + size
  <2>1. log_buffer' = Copied(b, global_timestamp, WalkIn(b, w, m), size, word)
    BY <1>1, <1>6
  <2> HIDE DEF m, b
  <2>2. Added(b, log_buffer', w, m, sz, global_timestamp, size, word)
    BY <1>2, <1>6, <1>8, <2>1, AddStored
  <2> QED
    BY <2>2 DEF Added
<1>12. ~cut' => sz = SpaceIn(b, w, m)
  BY <1>1, <1>2, <1>5 DEF AddsTo
<1>13. cut' \in BOOLEAN
  BY <1>1
<1>14. m + 1 > 0 /\ m + 1 # 0 /\ (m + 1) - 1 = m
  BY <1>7
<1>15. global_timestamp' \in 0 .. Stamps - 1
  BY <1>1, <1>2, Constants
<1> HIDE DEF m, entry, b
<1>16. Good(log_buffer', log_state', cut')
  BY <1>8, <1>10, <1>11, <1>12, <1>13, <1>14 DEF Good
<1> QED
  BY <1>15, <1>16 DEF LogInv

(* log_core_delete_items keeps the invariant. *)
LEMMA DeleteGood ==
    ASSUME LogInv, NEW k \in Nat, log_core_delete_items(k)
    PROVE  LogInv'
<1> DEFINE b == log_buffer
           st == log_state
           i == log_state.first_el_idx
           n == log_state.num_items
<1>1. /\ log_state' = IF k >= n THEN EmptyState
                      ELSE [st EXCEPT !.first_el_idx = WalkIn(b, i, k), !.num_items = n - k]
      /\ cut' = (k < n /\ (cut \/ k > 0))
      /\ log_buffer' = b /\ global_timestamp' = global_timestamp
  BY InState, Zenon DEF log_core_delete_items
<1>2. /\ b \in Buffers /\ st \in States /\ cut \in BOOLEAN /\ global_timestamp \in 0 .. Stamps - 1
      /\ Stored(b, i, n, st.stored_size)
      /\ ~cut => st.stored_size = SpaceIn(b, i, n)
      /\ n > 0 => st.last_el_idx = WalkIn(b, i, n - 1)
  BY DEF LogInv, Good
<1>3. n \in Nat /\ i \in Indexes
  BY <1>2 DEF States
<1>4. CASE k >= n
  <2>0. ~(k < n)
    BY <1>3, <1>4
  <2>1. log_state' = EmptyState /\ ~cut' /\ cut' \in BOOLEAN
    BY <1>1, <1>4, <2>0, Zenon
  <2>2. EmptyState \in States
    BY Constants DEF EmptyState, log_update_state, States, Indexes
  <2>3. EmptyState.first_el_idx = 0 /\ EmptyState.num_items = 0 /\ EmptyState.stored_size = 0
    BY DEF EmptyState, log_update_state
  <2>4. Stored(b, 0, 0, 0) /\ SpaceIn(b, 0, 0) = 0
    BY <1>2, StoredNone, SpaceStep
  <2>5. ~(0 > 0)
    OBVIOUS
  <2>6. Good(log_buffer', log_state', cut')
    BY <1>1, <1>2, <2>1, <2>2, <2>3, <2>4, <2>5, Zenon DEF Good
  <2> QED
    BY <1>1, <1>2, <2>6 DEF LogInv
<1>5. CASE ~(k >= n)
  <2>1. k \in 0 .. n /\ n - k \in Nat /\ n - k > 0 /\ n > 0 /\ n - k # 0
    BY <1>3, <1>5
  <2>2. WalkIn(b, i, k) \in Indexes
    BY <1>2, <1>3, WalkType
  <2>3. /\ log_state'.first_el_idx = WalkIn(b, i, k) /\ log_state'.num_items = n - k
        /\ log_state'.stored_size = st.stored_size /\ log_state'.last_el_idx = st.last_el_idx
        /\ log_state' \in States
    BY <1>1, <1>2, <1>5, <2>1, <2>2 DEF States
  <2>4. Stored(b, WalkIn(b, i, k), n - k, st.stored_size)
    BY <1>2, <2>1, DropStored
  <2>5. ~cut' => st.stored_size = SpaceIn(b, WalkIn(b, i, k), n - k)
    <3> SUFFICES ASSUME ~cut' PROVE st.stored_size = SpaceIn(b, WalkIn(b, i, k), n - k)
      OBVIOUS
    <3>0. k < n
      BY <1>3, <1>5
    <3>1. ~cut /\ ~(k > 0)
      BY <1>1, <3>0, Zenon
    <3>3. k = 0 /\ n - k = n
      BY <1>3, <3>1
    <3>2. WalkIn(b, i, 0) = i
      BY WalkStep
    <3> QED
      BY <1>2, <3>1, <3>2, <3>3
  <2>6. st.last_el_idx = WalkIn(b, WalkIn(b, i, k), (n - k) - 1)
    <3>1. (n - k) - 1 \in Nat /\ k + ((n - k) - 1) = n - 1
      BY <1>3, <2>1
    <3>2. WalkIn(b, WalkIn(b, i, k), (n - k) - 1) = WalkIn(b, i, k + ((n - k) - 1))
      BY <1>2, <1>3, <3>1, Shift
    <3> QED
      BY <1>2, <2>1, <3>1, <3>2
  <2>7. cut' \in BOOLEAN
    BY <1>1
  <2> HIDE DEF b, st, i, n
  <2>8. Good(log_buffer', log_state', cut')
    BY <1>1, <1>2, <2>1, <2>3, <2>4, <2>5, <2>6, <2>7 DEF Good
  <2> QED
    BY <1>1, <1>2, <2>8 DEF LogInv
<1> QED
  BY <1>4, <1>5

(* The inductive invariant holds in every reachable state: the items that a *)
(* reader finds from first_el_idx on are sealed, end at last_el_idx and fit *)
(* the buffer, and stored_size is their size unless some were cut           *)
(* (log_core_add_line, log_core_delete_items).                              *)
THEOREM LogInvariant == Spec => []LogInv
<1>1. LogInv /\ [Next]_vars => LogInv'
  <2> SUFFICES ASSUME LogInv, [Next]_vars PROVE LogInv'
    OBVIOUS
  <2>1. CASE UNCHANGED vars
    BY <2>1 DEF LogInv, vars
  <2>2. ASSUME NEW size \in Sizes, NEW word \in Words, log_core_add_line(size, word)
        PROVE  LogInv'
    BY <2>2, AddGood, LogAssumption
  <2>3. ASSUME NEW k \in Deletes, log_core_delete_items(k)
        PROVE  LogInv'
    BY <2>3, DeleteGood, LogAssumption
  <2> QED
    BY <2>1, <2>2, <2>3 DEF Next
<1> QED
  BY <1>1, InitGood, PTL DEF Spec
-----------------------------------------------------------------------------
(* Going back from the end of a distance leaves the shorter distance. *)
LEMMA ModSub ==
    ASSUME NEW i \in Indexes, NEW s \in Nat, s <= LOG_SIZE, NEW j \in Nat, j <= s
    PROVE  (((i + s) % LOG_SIZE) - j) % LOG_SIZE = (i + (s - j)) % LOG_SIZE
<1> DEFINE q == (i + s) % LOG_SIZE
           x == i + (s - j)
<1>1. q = IF i + s >= LOG_SIZE THEN i + s - LOG_SIZE ELSE i + s
  BY WrapSum
<1>2. x \in Nat /\ x < 2 * LOG_SIZE
  BY Constants DEF Indexes
<1> HIDE DEF q
<1>3. q \in Int /\ (q - j = x \/ (q - j = x - LOG_SIZE /\ q >= 0 /\ q < LOG_SIZE))
  BY <1>1, Constants DEF Indexes
<1> HIDE DEF x
<1>4. CASE q - j = x
  BY <1>4 DEF q, x
<1>5. CASE q - j = x - LOG_SIZE /\ q >= 0 /\ q < LOG_SIZE
  <2>1. x - LOG_SIZE \in Int /\ -LOG_SIZE <= x - LOG_SIZE /\ x - LOG_SIZE < LOG_SIZE
    BY <1>2, <1>5, Constants
  <2>2. (x - LOG_SIZE) % LOG_SIZE = IF x - LOG_SIZE < 0 THEN x - LOG_SIZE + LOG_SIZE ELSE x - LOG_SIZE
    BY <2>1, Wrap, Constants
  <2>3. x % LOG_SIZE = IF x >= LOG_SIZE THEN x - LOG_SIZE ELSE x
    BY <1>2, Wrap, Constants
  <2>4. (x - LOG_SIZE) % LOG_SIZE = x % LOG_SIZE
    BY <1>2, <2>2, <2>3, Constants
  <2> QED
    BY <1>5, <2>4 DEF q, x
<1> QED
  BY <1>3, <1>4, <1>5

(* The least element of a set is its Min. *)
LEMMA MinIs ==
    ASSUME NEW T, T \subseteq Int, NEW x \in T, \A y \in T : x <= y
    PROVE  Min(T) = x
<1>1. \A z \in T : (\A y \in T : z <= y) => z = x
  OBVIOUS
<1> QED
  BY <1>1, Zenon DEF Min

(* The greatest element of a set is its Max. *)
LEMMA MaxIs ==
    ASSUME NEW T, T \subseteq Int, NEW x \in T, \A y \in T : x >= y
    PROVE  Max(T) = x
<1>1. \A z \in T : (\A y \in T : z >= y) => z = x
  OBVIOUS
<1> QED
  BY <1>1, Zenon DEF Max

(* The lesser of two numbers. *)
LEMMA MinOfTwo ==
    ASSUME NEW x \in Int, NEW y \in Int
    PROVE  Min({x, y}) = IF x <= y THEN x ELSE y
<1>1. CASE x <= y
  <2>1. \A z \in {x, y} : x <= z
    BY <1>1
  <2> QED
    BY <1>1, <2>1, MinIs
<1>2. CASE ~(x <= y)
  <2>1. \A z \in {x, y} : y <= z
    BY <1>2
  <2> QED
    BY <1>2, <2>1, MinIs
<1> QED
  BY <1>1, <1>2

(* The invariant implies that the items are sealed. *)
LEMMA SealedFromInv ==
    LogInv => ItemsSealed
<1> SUFFICES ASSUME LogInv PROVE ItemsSealed
  OBVIOUS
<1> DEFINE b == log_buffer
           i == log_state.first_el_idx
           n == log_state.num_items
<1>1. /\ b \in Buffers /\ log_state \in States /\ global_timestamp \in 0 .. Stamps - 1
      /\ Stored(b, i, n, log_state.stored_size)
      /\ n > 0 => log_state.last_el_idx = WalkIn(b, i, n - 1)
  BY DEF LogInv, Good
<1>2. i \in Indexes /\ n \in Nat /\ log_state.stored_size \in 0 .. LOG_SIZE
      /\ SpaceIn(b, i, n) <= log_state.stored_size /\ Sealed(b, i, n)
  BY <1>1 DEF Stored
<1>3. SpaceIn(b, i, n) \in Nat
  BY <1>1, <1>2, WalkType
<1>4. SpaceIn(b, i, n) <= LOG_SIZE
  BY <1>2, <1>3, Constants
<1>5. n \in 0 .. LOG_SIZE \div Overhead
  <2>1. n <= LOG_SIZE \div Overhead
    BY <1>1, <1>2, <1>4, CountBound
  <2>2. LOG_SIZE \div Overhead \in Nat
    BY Constants
  <2> QED
    BY <1>2, <2>1, <2>2
<1>6. TypeOK
  BY <1>1, <1>5 DEF TypeOK, Buffers, States, Indexes
<1>7. ASSUME NEW k \in 1 .. n, NEW j \in 1 .. LOG_MAC_SIZE
      PROVE  b[(WalkIn(b, i, k) - j) % LOG_SIZE] = MacWord
  <2>1. k \in Nat /\ k \in 0 .. n /\ 0 < k /\ j \in Nat
    BY <1>2, Constants
  <2>2. SpaceIn(b, i, k) \in Nat /\ SpaceIn(b, i, k) <= SpaceIn(b, i, n)
    BY <1>1, <1>2, <2>1, WalkType, SpaceWithin
  <2>3. SpaceIn(b, i, 0) + Overhead <= SpaceIn(b, i, k) /\ SpaceIn(b, i, 0) = 0
    BY <1>1, <1>2, <2>1, SpaceGrows, SpaceStep
  <2>4. SpaceIn(b, i, k) <= LOG_SIZE /\ j <= SpaceIn(b, i, k)
    BY <1>3, <1>4, <2>1, <2>2, <2>3, Constants
  <2>5. WalkIn(b, i, k) = (i + SpaceIn(b, i, k)) % LOG_SIZE
    BY <1>1, <1>2, <2>1, <2>4, Position
  <2>6. (((i + SpaceIn(b, i, k)) % LOG_SIZE) - j) % LOG_SIZE = (i + (SpaceIn(b, i, k) - j)) % LOG_SIZE
    BY <1>2, <2>1, <2>2, <2>4, ModSub
  <2>7. b[(i + (SpaceIn(b, i, k) - j)) % LOG_SIZE] = MacWord
    BY <1>2 DEF Sealed
  <2> QED
    BY <2>5, <2>6, <2>7
<1> QED
  BY <1>1, <1>6, <1>7, InState DEF ItemsSealed

(* The indexes and counts stay in range, every stored item ends in its MAC, *)
(* and last_el_idx is the last item a reader finds who walks from           *)
(* first_el_idx along the SIZE fields, for every size of the buffer.        *)
THEOREM ItemsStaySealed == Spec => []ItemsSealed
  BY LogInvariant, SealedFromInv, PTL

(* As long as callers delete all items or none, the stored_size that        *)
(* log_core_get_info reports is the size of the items a reader finds.       *)
THEOREM StoredSizeStaysTotal == Spec => []StoredSizeIsTotal
<1>1. LogInv => StoredSizeIsTotal
  BY InState DEF LogInv, Good, StoredSizeIsTotal, Space
<1> QED
  BY <1>1, LogInvariant, PTL
-----------------------------------------------------------------------------
(* The spaces of the first k items grow with k and fit the buffer. *)
LEMMA SpaceFacts ==
    ASSUME LogInv
    PROVE  /\ log_state.num_items \in Nat /\ log_state.first_el_idx \in Indexes
           /\ \A k \in Nat : Space(k) \in Nat
           /\ Space(0) = 0
           /\ \A k, m \in Nat : k < m => Space(k) + Overhead <= Space(m)
           /\ Space(log_state.num_items) <= LOG_SIZE
           /\ log_state.num_items <= LOG_SIZE \div Overhead
           /\ ~cut => log_state.stored_size = Space(log_state.num_items)
<1> DEFINE b == log_buffer
           i == log_state.first_el_idx
           n == log_state.num_items
<1>1. /\ b \in Buffers /\ log_state \in States
      /\ Stored(b, i, n, log_state.stored_size)
      /\ ~cut => log_state.stored_size = SpaceIn(b, i, n)
  BY DEF LogInv, Good
<1>2. i \in Indexes /\ n \in Nat /\ log_state.stored_size \in 0 .. LOG_SIZE
      /\ SpaceIn(b, i, n) <= log_state.stored_size
  BY <1>1 DEF Stored
<1>3. \A k : Space(k) = SpaceIn(b, i, k)
  BY InState DEF Space
<1>4. \A k \in Nat : SpaceIn(b, i, k) \in Nat
  BY <1>1, <1>2, WalkType, Zenon
<1>5. SpaceIn(b, i, 0) = 0
  BY SpaceStep
<1>6. \A k, m \in Nat : k < m => SpaceIn(b, i, k) + Overhead <= SpaceIn(b, i, m)
  BY <1>1, <1>2, SpaceGrows
<1>7. SpaceIn(b, i, n) <= LOG_SIZE
  BY <1>2, <1>4, Constants
<1>8. n <= LOG_SIZE \div Overhead
  BY <1>1, <1>2, <1>7, CountBound
<1> HIDE DEF b, i, n
<1>9. /\ \A k \in Nat : Space(k) \in Nat
      /\ Space(0) = 0
      /\ \A k, m \in Nat : k < m => Space(k) + Overhead <= Space(m)
      /\ Space(n) <= LOG_SIZE
      /\ ~cut => log_state.stored_size = Space(n)
  BY <1>1, <1>3, <1>4, <1>5, <1>6, <1>7
<1> QED
  BY <1>2, <1>8, <1>9 DEF i, n

(* The distance from item k to the first empty word, which                  *)
(* log_core_retrieve measures, is the space of the items from k on.         *)
LEMMA DistanceLeft ==
    ASSUME LogInv, log_state.num_items > 0, NEW k \in 1 .. log_state.num_items
    PROVE  (GET_NEXT_LOG_INDEX(log_state.last_el_idx) - Walk(log_state.first_el_idx, k)) % LOG_SIZE
              = Space(log_state.num_items) - Space(k)
<1> DEFINE b == log_buffer
           i == log_state.first_el_idx
           n == log_state.num_items
           s == SpaceIn(b, i, k)
           t == SpaceIn(b, i, n)
<1>1. /\ b \in Buffers /\ log_state \in States
      /\ Stored(b, i, n, log_state.stored_size)
      /\ log_state.last_el_idx = WalkIn(b, i, n - 1)
  BY DEF LogInv, Good
<1>2. i \in Indexes /\ n \in Nat /\ log_state.stored_size \in 0 .. LOG_SIZE
      /\ t <= log_state.stored_size
  BY <1>1 DEF Stored
<1>3. k \in Nat /\ k \in 0 .. n /\ n - 1 \in Nat /\ (n - 1) + 1 = n /\ 0 < k
  BY <1>2
<1>4. s \in Nat /\ t \in Nat /\ s <= t
  BY <1>1, <1>2, <1>3, WalkType, SpaceWithin
<1>5. t <= LOG_SIZE /\ s <= LOG_SIZE
  BY <1>2, <1>4, Constants
<1>6. GET_NEXT_LOG_INDEX(log_state.last_el_idx) = WalkIn(b, i, n)
  <2>1. GET_NEXT_LOG_INDEX(log_state.last_el_idx) = NextIn(b, WalkIn(b, i, n - 1))
    BY <1>1, InState
  <2>2. WalkIn(b, i, (n - 1) + 1) = NextIn(b, WalkIn(b, i, n - 1))
    <3> DEFINE p == n - 1
    <3>1. p \in Nat
      BY <1>3
    <3> HIDE DEF p
    <3>2. OneOn(b, i, p)
      BY <3>1, GoesOn
    <3> QED
      BY <3>2 DEF OneOn, p
  <2> QED
    BY <1>3, <2>1, <2>2
<1>7. WalkIn(b, i, n) = (i + t) % LOG_SIZE /\ WalkIn(b, i, k) = (i + s) % LOG_SIZE
  BY <1>1, <1>2, <1>3, <1>5, Position
<1>8. Overhead <= s
  <2>1. SpaceIn(b, i, 0) = 0
    BY SpaceStep
  <2>2. SpaceIn(b, i, 0) + Overhead <= s
    BY <1>1, <1>2, <1>3, SpaceGrows
  <2> QED
    BY <1>4, <2>1, <2>2, Constants
<1>9. Walk(i, k) = WalkIn(b, i, k) /\ Space(n) = t /\ Space(k) = s
  BY InState DEF Space
<1> HIDE DEF b, i, n, s, t
<1> DEFINE p == IF i + t >= LOG_SIZE THEN i + t - LOG_SIZE ELSE i + t
           q == IF i + s >= LOG_SIZE THEN i + s - LOG_SIZE ELSE i + s
<1>10. (i + t) % LOG_SIZE = p /\ (i + s) % LOG_SIZE = q
  BY <1>2, <1>4, <1>5, WrapSum
<1>11. p - q = t - s \/ p - q = t - s - LOG_SIZE
  BY <1>2, <1>4, <1>5, Constants DEF Indexes
<1> HIDE DEF p, q
<1>12. (t - s) % LOG_SIZE = t - s
  <2>1. t - s \in Int /\ 0 <= t - s /\ t - s < LOG_SIZE
    BY <1>4, <1>5, <1>8, Constants
  <2> QED
    BY <2>1, Wrap, Constants
<1>13. (t - s - LOG_SIZE) % LOG_SIZE = t - s
  <2>1. t - s - LOG_SIZE \in Int /\ -LOG_SIZE <= t - s - LOG_SIZE /\ t - s - LOG_SIZE < 0
    BY <1>4, <1>5, <1>8, Constants
  <2>2. (t - s - LOG_SIZE) % LOG_SIZE = t - s - LOG_SIZE + LOG_SIZE
    BY <2>1, Wrap, Constants
  <2> QED
    BY <1>4, <2>2, Constants
<1>14. (p - q) % LOG_SIZE = t - s
  BY <1>11, <1>12, <1>13
<1> QED
  BY <1>6, <1>7, <1>9, <1>10, <1>14 DEF b, i, n, s, t

(* The invariant implies that RetrieveRecent returns the newest items. *)
LEMMA RecentFromInv ==
    LogInv => RetrievesRecent
<1> SUFFICES ASSUME LogInv, ~cut, NEW size \in 1 .. LOG_SIZE + 1
             PROVE  LET n == log_state.num_items
                        skipped == Min({k \in 0 .. n : Space(n) - Space(k) <= size})
                    IN  Holds(log_core_retrieve(size, TFM_LOG_READ_RECENT), skipped, n)
  BY DEF RetrievesRecent
<1> DEFINE n == log_state.num_items
           first == log_state.first_el_idx
           fits == {k \in 0 .. n : Space(n) - Space(k) <= size}
<1>1. /\ n \in Nat /\ (\A k \in Nat : Space(k) \in Nat) /\ Space(0) = 0
      /\ \A k, m \in Nat : k < m => Space(k) + Overhead <= Space(m)
      /\ log_state.stored_size = Space(n)
  BY SpaceFacts
<1>2. size \in Nat /\ size # 0
  BY Constants
<1>3. PICK skipped \in fits : \A j \in fits : skipped <= j
  <2>1. n \in fits
    BY <1>1, <1>2
  <2>2. fits \subseteq Nat
    BY <1>1
  <2> HIDE DEF fits
  <2> QED
    BY <2>1, <2>2, LeastNumber, Zenon
<1>4. Min(fits) = skipped
  <2>1. fits \subseteq Int
    BY <1>1
  <2> HIDE DEF fits
  <2> QED
    BY <1>3, <2>1, MinIs
<1>5. skipped \in 0 .. n /\ skipped \in Nat
  BY <1>1, <1>3
<1> HIDE DEF fits
<1>6. CASE n = 0
  <2>1. log_core_retrieve(size, TFM_LOG_READ_RECENT) = NoItems("success")
    BY <1>2, <1>6 DEF log_core_retrieve
  <2>2. skipped = 0
    BY <1>5, <1>6
  <2> QED
    BY <1>1, <1>4, <1>6, <2>1, <2>2 DEF Holds, NoItems, Reply, fits
<1>7. CASE n # 0
  <2> DEFINE left(k) == IF k = 0 THEN log_state.stored_size
                        ELSE (GET_NEXT_LOG_INDEX(log_state.last_el_idx) - Walk(first, k)) % LOG_SIZE
  <2>1. \A k \in 0 .. n : left(k) = Space(n) - Space(k)
    <3> TAKE k \in 0 .. n
    <3>1. CASE k = 0
      BY <1>1, <3>1
    <3>2. CASE k # 0
      <4>1. k \in 1 .. n /\ n > 0
        BY <1>1, <3>2
      <4> QED
        BY <3>2, <4>1, DistanceLeft
    <3> QED
      BY <3>1, <3>2
  <2>2. {k \in 0 .. n : left(k) <= size} = fits
    BY <2>1 DEF fits
  <2>3. log_core_retrieve(size, TFM_LOG_READ_RECENT) = RetrieveRecent(size)
    BY <1>1, <1>2, <1>7 DEF log_core_retrieve, TFM_LOG_READ_RECENT
  <2>4. RetrieveRecent(size) =
          IF left(skipped) = 0 THEN NoItems("success")
          ELSE Reply("success", Walk(first, skipped), left(skipped), n - skipped)
    BY <1>4, <2>2 DEF RetrieveRecent
  <2>5. left(skipped) = Space(n) - Space(skipped)
    BY <1>5, <2>1
  <2> HIDE DEF left
  <2>6. CASE skipped = n
    <3>1. Space(n) - Space(skipped) = 0 /\ n - n = 0
      BY <1>1, <2>6
    <3>2. log_core_retrieve(size, TFM_LOG_READ_RECENT) = NoItems("success")
      BY <2>3, <2>4, <2>5, <3>1
    <3> QED
      BY <1>1, <1>4, <2>6, <3>1, <3>2 DEF Holds, NoItems, Reply, fits
  <2>7. CASE skipped # n
    <3>1. skipped < n
      BY <1>1, <1>5, <2>7
    <3>2. Space(skipped) + Overhead <= Space(n)
      BY <1>1, <1>5, <3>1
    <3>3. Space(n) - Space(skipped) # 0
      BY <1>1, <1>5, <3>2, Constants
    <3>4. log_core_retrieve(size, TFM_LOG_READ_RECENT)
            = Reply("success", Walk(first, skipped), Space(n) - Space(skipped), n - skipped)
      BY <2>3, <2>4, <2>5, <3>3
    <3> QED
      BY <1>4, <3>4 DEF Holds, Reply, fits
  <2> QED
    BY <2>6, <2>7
<1> QED
  BY <1>6, <1>7

(* As long as callers delete all items or none, a caller who asks for the   *)
(* most recent items gets, for every size of the result, exactly the        *)
(* newest ones that fit.                                                    *)
THEOREM RecentIsRetrieved == Spec => []RetrievesRecent
  BY LogInvariant, RecentFromInv, PTL

(* The invariant implies that RetrieveFrom returns the oldest items. *)
LEMMA FromFirstFromInv ==
    LogInv => RetrievesFromFirst
<1> SUFFICES ASSUME LogInv, log_state.num_items > 0, ~cut, NEW size \in 1 .. LOG_SIZE + 1
             PROVE  LET last == Max({k \in 0 .. log_state.num_items : Space(k) - Space(0) <= size})
                    IN  Holds(log_core_retrieve(size, 0), 0, last)
  BY DEF RetrievesFromFirst, RetrievesMost
<1> DEFINE n == log_state.num_items
           first == log_state.first_el_idx
           fits == {k \in 0 .. n : Space(k) - Space(0) <= size}
           taken == {k \in 1 .. LOG_SIZE \div Overhead : Space(k) <= Min({size, log_state.stored_size})}
<1>1. /\ n \in Nat /\ (\A k \in Nat : Space(k) \in Nat) /\ Space(0) = 0
      /\ \A k, m \in Nat : k < m => Space(k) + Overhead <= Space(m)
      /\ log_state.stored_size = Space(n) /\ n <= LOG_SIZE \div Overhead
      /\ log_state.first_el_idx \in Indexes
  BY SpaceFacts
<1>2. size \in Nat /\ size # 0
  BY Constants
<1>3. Walk(first, 0) = first
  BY InState, WalkStep
<1>4. Min({size, Space(n)}) = IF size <= Space(n) THEN size ELSE Space(n)
  <2>1. size \in Int /\ Space(n) \in Int
    BY <1>1, <1>2
  <2> QED
    BY <2>1, MinOfTwo
<1>5. taken = fits \ {0}
  <2>1. ASSUME NEW k \in taken PROVE k \in fits \ {0}
    <3>0. k \in Nat /\ k # 0 /\ Space(k) <= Min({size, Space(n)})
      <4>1. LOG_SIZE \div Overhead \in Int
        BY Constants
      <4> QED
        BY <1>1, <4>1
    <3>1. k \in Nat /\ k # 0 /\ Space(k) <= size /\ Space(k) <= Space(n)
      BY <1>1, <1>2, <1>4, <3>0
    <3>2. ~(n < k)
      <4> SUFFICES ASSUME n < k PROVE FALSE
        OBVIOUS
      <4>1. Space(n) + Overhead <= Space(k)
        BY <1>1, <3>1
      <4> QED
        BY <1>1, <3>1, <4>1, Constants
    <3> QED
      BY <1>1, <3>1, <3>2
  <2>2. ASSUME NEW k \in fits \ {0} PROVE k \in taken
    <3>1. k \in Nat /\ k \in 1 .. n /\ Space(k) <= size
      BY <1>1, <1>2
    <3>2. Space(k) <= Space(n)
      <4>1. CASE k = n
        BY <1>1, <4>1
      <4>2. CASE k < n
        <5>1. Space(k) + Overhead <= Space(n)
          BY <1>1, <3>1, <4>2
        <5> QED
          BY <1>1, <3>1, <5>1, Constants
      <4> QED
        BY <1>1, <3>1, <4>1, <4>2
    <3>3. k \in 1 .. LOG_SIZE \div Overhead
      BY <1>1, <3>1, Constants
    <3> QED
      BY <1>1, <1>4, <3>1, <3>2, <3>3
  <2> QED
    BY <2>1, <2>2, Zenon
<1>6. PICK last \in fits : \A j \in fits : last >= j
  <2>1. 0 \in fits
    BY <1>1, <1>2
  <2>2. fits \subseteq Nat /\ \A j \in fits : j \in Nat /\ j <= n
    BY <1>1
  <2> HIDE DEF fits, n
  <2>3. \E x \in fits : \A j \in fits : j <= x
    BY <1>1, <2>1, <2>2, GreatestNumber, Zenon
  <2> QED
    BY <2>2, <2>3
<1>7. Max(fits) = last /\ fits \subseteq Int
  <2>1. fits \subseteq Int
    BY <1>1
  <2> HIDE DEF fits
  <2> QED
    BY <1>6, <2>1, MaxIs
<1>8. log_core_retrieve(size, 0) =
        IF taken = {} THEN NoItems("success")
        ELSE Reply("success", first, Space(Max(taken)), Max(taken))
  <2>1. log_core_retrieve(size, 0) = RetrieveFrom(size, 0)
    BY <1>1, <1>2 DEF log_core_retrieve, TFM_LOG_READ_RECENT
  <2> QED
    BY <1>3, <2>1 DEF RetrieveFrom, Space
<1>9. last \in Nat
  BY <1>1, <1>6
<1> HIDE DEF fits, taken
<1>10. CASE last = 0
  <2>1. taken = {}
    <3> SUFFICES ASSUME NEW k \in taken PROVE FALSE
      OBVIOUS
    <3>1. k \in Nat /\ k # 0 /\ 0 >= k
      BY <1>1, <1>5, <1>6, <1>10 DEF fits
    <3> QED
      BY <3>1
  <2>2. log_core_retrieve(size, 0) = NoItems("success")
    BY <1>8, <2>1
  <2> QED
    BY <1>1, <1>7, <1>10, <2>2 DEF Holds, NoItems, Reply, fits
<1>11. CASE last # 0
  <2>1. last \in taken /\ taken \subseteq Int
    BY <1>5, <1>6, <1>7, <1>11
  <2>2. Max(taken) = last
    BY <1>5, <1>6, <2>1, MaxIs, Zenon
  <2>3. log_core_retrieve(size, 0) = Reply("success", first, Space(last), last)
    BY <1>8, <2>1, <2>2
  <2>4. Space(last) - Space(0) = Space(last) /\ last - 0 = last
    BY <1>1, <1>9
  <2> QED
    BY <1>3, <1>7, <2>3, <2>4 DEF Holds, Reply, fits
<1> QED
  BY <1>10, <1>11

(* As long as callers delete all items or none, a caller who starts at the  *)
(* oldest item gets as many items as fit, for every size of the result.     *)
THEOREM FirstIsRetrieved == Spec => []RetrievesFromFirst
  BY LogInvariant, FromFirstFromInv, PTL
-----------------------------------------------------------------------------
(* The youngest item that log_replace_item dropped did not fit beside the   *)
(* new one.                                                                 *)
LEMMA ReplaceStep ==
    ASSUME LogInv, NEW size \in Nat, NEW word \in Nat, log_core_add_line(size, word), ~cut,
           NEW n \in 1 .. log_state.num_items, log_state'.num_items = log_state.num_items - n + 1
    PROVE  Space(log_state.num_items) - Space(n - 1)
              + COMPUTE_LOG_ENTRY_SIZE(GET_SIZE_FIELD(log_state.last_el_idx)') > LOG_SIZE
<1> DEFINE entry == Overhead + size
           b == log_buffer
           num == log_state.num_items
<1>1. /\ size <= LOG_SIZE - Overhead
      /\ log_buffer' = Copied(b, global_timestamp, StartPos(entry), size, word)
      /\ log_state' = log_update_state(Room(entry).first_el_idx, StartPos(entry),
                                       Room(entry).stored_size + entry, Room(entry).num_items + 1)
  BY AddInState
<1>2. b \in Buffers /\ global_timestamp \in Nat /\ num \in Nat
  BY Constants DEF LogInv, Good, States
<1>3. entry \in Nat /\ entry <= LOG_SIZE
  BY <1>1, Constants
<1>4. PICK k \in 0 .. num : \E w, sz : AddsTo(entry, k, w, sz)
  <2> HIDE DEF entry
  <2> QED
    BY <1>3, AddFacts
<1>5. PICK w, sz : AddsTo(entry, k, w, sz)
  BY <1>4
<1> DEFINE m == num - k
<1>6. Stored(b, w, m, sz) /\ StartPos(entry) = WalkIn(b, w, m)
  BY <1>5 DEF AddsTo
<1>7. sz \in Nat /\ sz + Overhead + size <= LOG_SIZE
  <2>1. sz \in 0 .. LOG_SIZE
    BY <1>6 DEF Stored
  <2>2. sz + entry <= LOG_SIZE
    BY <1>5 DEF AddsTo
  <2> HIDE DEF m
  <2> QED
    BY <2>1, <2>2, Constants
<1>8. log_state'.last_el_idx = WalkIn(b, w, m) /\ log_state'.num_items = m + 1
  BY <1>1, <1>5, <1>6 DEF AddsTo, log_update_state
<1>9. SizeIn(log_buffer', WalkIn(b, w, m)) = size
  <2>1. log_buffer' = Copied(b, global_timestamp, WalkIn(b, w, m), size, word)
    BY <1>1, <1>6
  <2> HIDE DEF m, b
  <2>2. Added(b, log_buffer', w, m, sz, global_timestamp, size, word)
    BY <1>2, <1>6, <1>7, <2>1, AddStored
  <2> QED
    BY <2>2 DEF Added
<1>10. GET_SIZE_FIELD(log_state.last_el_idx)' = size
  BY <1>8, <1>9 DEF GET_SIZE_FIELD, SizeIn
<1>11. COMPUTE_LOG_ENTRY_SIZE(size) = entry
  BY Constants DEF COMPUTE_LOG_ENTRY_SIZE
<1>12. k = n
  BY <1>2, <1>8
<1>13. n - 1 \in 0 .. k - 1 /\ n - 1 \in Nat
  BY <1>2, <1>12
<1>14. entry > LOG_SIZE - (Space(num) - Space(n - 1))
  BY <1>5, <1>13, InState DEF AddsTo, Space
<1>15. Space(num) \in Nat /\ Space(n - 1) \in Nat
  BY <1>2, <1>13, SpaceFacts
<1> HIDE DEF entry
<1>16. Space(num) - Space(n - 1) + entry > LOG_SIZE
  BY <1>3, <1>14, <1>15, Constants
<1> QED
  BY <1>10, <1>11, <1>16

(* log_replace_item removes no item that could stay: without the youngest   *)
(* one that leaves, the new line would not have fitted.                     *)
THEOREM NoMoreIsReplaced == Spec => ReplacesNoMore
<1> DEFINE Replaces ==
        \A n \in 1 .. log_state.num_items :
          (~cut /\ global_timestamp' # global_timestamp
                /\ log_state'.num_items = log_state.num_items - n + 1)
             => Space(log_state.num_items) - Space(n - 1)
                   + COMPUTE_LOG_ENTRY_SIZE(GET_SIZE_FIELD(log_state.last_el_idx)') > LOG_SIZE
<1>1. LogInv /\ [Next]_vars => [Replaces]_vars
  <2> SUFFICES ASSUME LogInv, Next PROVE Replaces
    OBVIOUS
  <2>1. ASSUME NEW size \in Sizes, NEW word \in Words, log_core_add_line(size, word)
        PROVE  Replaces
    <3>1. size \in Nat /\ word \in Nat
      BY LogAssumption
    <3> QED
      BY <2>1, <3>1, ReplaceStep
  <2>2. ASSUME NEW k \in Deletes, log_core_delete_items(k)
        PROVE  Replaces
    BY <2>2 DEF log_core_delete_items
  <2> QED
    BY <2>1, <2>2 DEF Next
<1>2. Spec => [][Replaces]_vars
  BY <1>1, LogInvariant, PTL DEF Spec
<1> QED
  BY <1>2 DEF ReplacesNoMore
-----------------------------------------------------------------------------
(* The items of the log in a buffer that is a parameter. *)
LogItems == [stamp : Nat, line : Seq(Nat)]
ItemIn(b, v) ==
    [stamp |-> b[v],
     line |-> [j \in 1 .. SizeIn(b, v) |-> b[(v + LOG_FIXED_FIELD_SIZE + j - 1) % LOG_SIZE]]]
ItemsIn(b, i, n) == [k \in 1 .. n |-> ItemIn(b, WalkIn(b, i, k - 1))]

(* They are Items, in the present state. *)
LEMMA ItemsInState == Items = ItemsIn(log_buffer, log_state.first_el_idx, log_state.num_items)
BY InState DEF Items, ItemAt, ItemsIn, ItemIn

(* And in the next one. *)
LEMMA ItemsInNext == Items' = ItemsIn(log_buffer', log_state'.first_el_idx, log_state'.num_items)
BY DEF Items, ItemAt, ItemsIn, ItemIn, Walk, WalkIn, IsWalk, GET_SIZE_FIELD, SizeIn,
       EntrySizeAt, EntryIn, GET_NEXT_LOG_INDEX, NextIn

(* A function on 1 .. n is a sequence. *)
LEMMA FunctionIsSeq ==
    ASSUME NEW S, NEW n \in Nat, NEW f \in [1 .. n -> S]
    PROVE  f \in Seq(S) /\ Len(f) = n
OBVIOUS

(* An item has a timestamp and a line of the size in its header. *)
LEMMA ItemType ==
    ASSUME NEW b \in Buffers, NEW v \in Indexes
    PROVE  /\ ItemIn(b, v) \in LogItems
           /\ Len(ItemIn(b, v).line) = SizeIn(b, v)
<1> DEFINE line == [j \in 1 .. SizeIn(b, v) |-> b[(v + LOG_FIXED_FIELD_SIZE + j - 1) % LOG_SIZE]]
<1>1. SizeIn(b, v) \in Nat
  BY EntryFacts
<1>2. b[v] \in Nat
  BY DEF Buffers
<1>3. ASSUME NEW j \in 1 .. SizeIn(b, v) PROVE b[(v + LOG_FIXED_FIELD_SIZE + j - 1) % LOG_SIZE] \in Nat
  <2>1. v + LOG_FIXED_FIELD_SIZE + j - 1 \in Int
    BY <1>1, Constants DEF Indexes
  <2>2. (v + LOG_FIXED_FIELD_SIZE + j - 1) % LOG_SIZE \in Indexes
    BY <2>1, ModIndex
  <2> QED
    BY <2>2 DEF Buffers
<1>4. line \in [1 .. SizeIn(b, v) -> Nat]
  BY <1>3
<1> HIDE DEF line
<1>5. line \in Seq(Nat) /\ Len(line) = SizeIn(b, v)
  BY <1>1, <1>4, FunctionIsSeq
<1>6. ItemIn(b, v) = [stamp |-> b[v], line |-> line]
  BY DEF ItemIn, line
<1>7. /\ [stamp |-> b[v], line |-> line] \in LogItems
      /\ [stamp |-> b[v], line |-> line].line = line
  BY <1>2, <1>5 DEF LogItems
<1> QED
  BY <1>5, <1>6, <1>7

(* The items are a sequence of those. *)
LEMMA ItemsType ==
    ASSUME NEW b \in Buffers, NEW i \in Indexes, NEW n \in Nat
    PROVE  /\ ItemsIn(b, i, n) \in Seq(LogItems)
           /\ Len(ItemsIn(b, i, n)) = n
           /\ \A k \in 1 .. n : ItemsIn(b, i, n)[k] = ItemIn(b, WalkIn(b, i, k - 1))
<1>1. ASSUME NEW k \in 1 .. n PROVE ItemIn(b, WalkIn(b, i, k - 1)) \in LogItems
  <2>1. k - 1 \in Nat
    OBVIOUS
  <2> QED
    BY <2>1, WalkType, ItemType
<1>2. ItemsIn(b, i, n) \in [1 .. n -> LogItems]
  BY <1>1 DEF ItemsIn
<1>3. \A k \in 1 .. n : ItemsIn(b, i, n)[k] = ItemIn(b, WalkIn(b, i, k - 1))
  BY DEF ItemsIn
<1> QED
  BY <1>2, <1>3, FunctionIsSeq

(* Sequences with the same elements are equal. *)
LEMMA SameSeq ==
    ASSUME NEW S, NEW s \in Seq(S), NEW t \in Seq(S), Len(s) = Len(t),
           \A j \in 1 .. Len(s) : s[j] = t[j]
    PROVE  s = t
OBVIOUS

(* A sequence without its first k elements. *)
LEMMA SubSeqFacts ==
    ASSUME NEW S, NEW s \in Seq(S), NEW k \in 0 .. Len(s)
    PROVE  /\ SubSeq(s, k + 1, Len(s)) \in Seq(S)
           /\ Len(SubSeq(s, k + 1, Len(s))) = Len(s) - k
           /\ \A j \in 1 .. Len(s) - k : SubSeq(s, k + 1, Len(s))[j] = s[k + j]
OBVIOUS

(* A sequence with one more element. *)
LEMMA AppendFacts ==
    ASSUME NEW S, NEW s \in Seq(S), NEW e \in S
    PROVE  /\ Append(s, e) \in Seq(S)
           /\ Len(Append(s, e)) = Len(s) + 1
           /\ \A j \in 1 .. Len(s) : Append(s, e)[j] = s[j]
           /\ Append(s, e)[Len(s) + 1] = e
OBVIOUS

(* The items behind the k oldest are the rest of the sequence. *)
LEMMA ItemsDrop ==
    ASSUME NEW b \in Buffers, NEW i \in Indexes, NEW n \in Nat, NEW k \in 0 .. n
    PROVE  ItemsIn(b, WalkIn(b, i, k), n - k) = SubSeq(ItemsIn(b, i, n), k + 1, Len(ItemsIn(b, i, n)))
<1> DEFINE v == WalkIn(b, i, k)
           s == ItemsIn(b, i, n)
           t == ItemsIn(b, v, n - k)
           u == SubSeq(s, k + 1, Len(s))
<1>1. k \in Nat /\ n - k \in Nat
  OBVIOUS
<1>2. v \in Indexes
  BY <1>1, WalkType
<1>3. /\ s \in Seq(LogItems) /\ Len(s) = n
      /\ \A j \in 1 .. n : s[j] = ItemIn(b, WalkIn(b, i, j - 1))
  BY ItemsType
<1> HIDE DEF v
<1>4. /\ t \in Seq(LogItems) /\ Len(t) = n - k
      /\ \A j \in 1 .. n - k : t[j] = ItemIn(b, WalkIn(b, v, j - 1))
  BY <1>1, <1>2, ItemsType
<1> HIDE DEF s, t
<1>5. /\ u \in Seq(LogItems) /\ Len(u) = n - k
      /\ \A j \in 1 .. n - k : u[j] = s[k + j]
  BY <1>3, SubSeqFacts
<1> HIDE DEF u
<1>6. ASSUME NEW j \in 1 .. n - k PROVE t[j] = u[j]
  <2>1. j - 1 \in Nat /\ k + j \in 1 .. n /\ (k + j) - 1 = k + (j - 1)
    BY <1>1
  <2>2. WalkIn(b, v, j - 1) = WalkIn(b, i, k + (j - 1))
    BY <1>1, <2>1, Shift DEF v
  <2>3. s[k + j] = ItemIn(b, WalkIn(b, i, (k + j) - 1))
    BY <1>3, <2>1
  <2> QED
    BY <1>4, <1>5, <2>1, <2>2, <2>3
<1>7. t = u
  BY <1>4, <1>5, <1>6, SameSeq
<1> QED
  BY <1>7 DEF s, t, u, v

(* An item is the same in a buffer with the same words where it is. *)
LEMMA ItemFrame ==
    ASSUME NEW b \in Buffers, NEW c \in Buffers, NEW w \in Indexes, NEW m \in Nat,
           SpaceIn(b, w, m) <= LOG_SIZE, Agree(b, c, w, SpaceIn(b, w, m)),
           NEW k \in 0 .. m - 1
    PROVE  ItemIn(c, WalkIn(b, w, k)) = ItemIn(b, WalkIn(b, w, k))
<1> DEFINE v == WalkIn(b, w, k)
           s == SpaceIn(b, w, k)
<1>1. k \in Nat /\ k + 1 \in 0 .. m /\ k \in 0 .. m /\ k + 1 \in Nat
  OBVIOUS
<1>2. v \in Indexes /\ s \in Nat /\ SpaceIn(b, w, m) \in Nat
  BY <1>1, WalkType, Zenon
<1>3. SizeIn(b, v) \in Nat /\ EntryIn(b, v) = Overhead + SizeIn(b, v)
  BY <1>2, EntryFacts
<1>4. s + EntryIn(b, v) <= SpaceIn(b, w, m)
  <2>1. SpaceIn(b, w, k + 1) = s + EntryIn(b, v)
    BY <1>1, SpaceStep
  <2>2. SpaceIn(b, w, k + 1) <= SpaceIn(b, w, m)
    BY <1>1, SpaceWithin
  <2> QED
    BY <2>1, <2>2
<1>5. v = (w + s) % LOG_SIZE
  <2>1. s <= LOG_SIZE
    BY <1>2, <1>3, <1>4, Constants
  <2> QED
    BY <1>1, <2>1, Position
<1> HIDE DEF v, s
<1>6. ASSUME NEW t \in Nat, t < Overhead + SizeIn(b, v)
      PROVE  c[(v + t) % LOG_SIZE] = b[(v + t) % LOG_SIZE]
  <2>1. s + t \in Nat /\ s + t < SpaceIn(b, w, m) /\ s + t <= LOG_SIZE
    BY <1>2, <1>3, <1>4, <1>6, Constants
  <2>2. (v + t) % LOG_SIZE = (w + (s + t)) % LOG_SIZE
    BY <1>2, <1>5, <2>1, ModAdd
  <2> QED
    BY <2>1, <2>2 DEF Agree
<1>7. SizeIn(c, v) = SizeIn(b, v)
  <2> DEFINE t == LOG_FIXED_FIELD_SIZE - 1
  <2>1. t \in Nat /\ t < Overhead + SizeIn(b, v) /\ v + t = v + LOG_FIXED_FIELD_SIZE - 1
    BY <1>2, <1>3, Constants DEF Indexes
  <2> HIDE DEF t
  <2>2. c[(v + t) % LOG_SIZE] = b[(v + t) % LOG_SIZE]
    BY <1>6, <2>1
  <2> QED
    BY <2>1, <2>2 DEF SizeIn
<1>8. c[v] = b[v]
  <2>1. v + 0 = v /\ v % LOG_SIZE = v /\ 0 < Overhead + SizeIn(b, v)
    BY <1>2, <1>3, Wrap, Constants DEF Indexes
  <2>2. c[(v + 0) % LOG_SIZE] = b[(v + 0) % LOG_SIZE]
    BY <1>6, <2>1
  <2> QED
    BY <2>1, <2>2
<1>9. ASSUME NEW j \in 1 .. SizeIn(b, v)
      PROVE  c[(v + LOG_FIXED_FIELD_SIZE + j - 1) % LOG_SIZE]
                = b[(v + LOG_FIXED_FIELD_SIZE + j - 1) % LOG_SIZE]
  <2> DEFINE t == LOG_FIXED_FIELD_SIZE + (j - 1)
  <2>1. t \in Nat /\ t < Overhead + SizeIn(b, v) /\ v + t = v + LOG_FIXED_FIELD_SIZE + j - 1
    BY <1>2, <1>3, Constants DEF Indexes
  <2> HIDE DEF t
  <2> QED
    BY <1>6, <2>1
<1>10. ItemIn(c, v) = ItemIn(b, v)
  BY <1>7, <1>8, <1>9 DEF ItemIn
<1> QED
  BY <1>10 DEF v

(* The item that log_core_add_line adds. *)
NewItem(ts, size, word) == [stamp |-> ts, line |-> [j \in 1 .. size |-> word]]

(* The new item comes last. *)
LEMMA ItemsAdd ==
    ASSUME NEW b \in Buffers, NEW w, NEW m, NEW sz, Stored(b, w, m, sz),
           NEW ts \in Nat, NEW size \in Nat, NEW word \in Nat,
           sz + Overhead + size <= LOG_SIZE,
           NEW c, c = Copied(b, ts, WalkIn(b, w, m), size, word)
    PROVE  ItemsIn(c, w, m + 1) = Append(ItemsIn(b, w, m), NewItem(ts, size, word))
<1> DEFINE v == WalkIn(b, w, m)
           item == NewItem(ts, size, word)
           s == ItemsIn(b, w, m)
           t == ItemsIn(c, w, m + 1)
<1>1. w \in Indexes /\ m \in Nat /\ m + 1 \in Nat /\ sz \in 0 .. LOG_SIZE /\ SpaceIn(b, w, m) <= sz
  BY DEF Stored
<1>2. /\ c \in Buffers /\ Agree(b, c, w, SpaceIn(b, w, m))
      /\ SizeIn(c, v) = size
      /\ \A d \in Nat : d < Overhead + size => c[(v + d) % LOG_SIZE] = Formatted(ts, size, word, d)
  <2>1. Added(b, c, w, m, sz, ts, size, word)
    BY AddStored
  <2> QED
    BY <2>1 DEF Added
<1>3. SpaceIn(b, w, m) \in Nat /\ v \in Indexes
  BY <1>1, WalkType
<1>4. SpaceIn(b, w, m) <= LOG_SIZE
  BY <1>1, <1>3, Constants
<1>5. \A k \in 0 .. m : WalkIn(c, w, k) = WalkIn(b, w, k)
  BY <1>1, <1>2, <1>4, Frame
<1> HIDE DEF v
<1>6. ItemIn(c, v) = item
  <2>1. c[v] = ts
    <3>1. v + 0 = v /\ v % LOG_SIZE = v /\ 0 < Overhead + size
      BY <1>3, Wrap, Constants DEF Indexes
    <3>2. c[(v + 0) % LOG_SIZE] = Formatted(ts, size, word, 0)
      BY <1>2, <3>1
    <3>3. Formatted(ts, size, word, 0) = ts
      BY <3>1, FormattedWords
    <3> QED
      BY <3>1, <3>2, <3>3
  <2>2. ASSUME NEW j \in 1 .. size
        PROVE  c[(v + LOG_FIXED_FIELD_SIZE + j - 1) % LOG_SIZE] = word
    <3> DEFINE d == LOG_FIXED_FIELD_SIZE + (j - 1)
    <3>1. /\ d \in Nat /\ d < Overhead + size /\ d >= LOG_FIXED_FIELD_SIZE
          /\ d < LOG_FIXED_FIELD_SIZE + size /\ v + d = v + LOG_FIXED_FIELD_SIZE + j - 1
      BY <1>3, Constants DEF Indexes
    <3> HIDE DEF d
    <3>2. c[(v + d) % LOG_SIZE] = Formatted(ts, size, word, d)
      BY <1>2, <3>1
    <3>3. Formatted(ts, size, word, d) = word
      BY <3>1, FormattedWords
    <3> QED
      BY <3>1, <3>2, <3>3
  <2>3. [j \in 1 .. SizeIn(c, v) |-> c[(v + LOG_FIXED_FIELD_SIZE + j - 1) % LOG_SIZE]]
           = [j \in 1 .. size |-> word]
    BY <1>2, <2>2
  <2> QED
    BY <2>1, <2>3, Zenon DEF ItemIn, NewItem
<1>7. item \in LogItems
  BY <1>2, <1>3, <1>6, ItemType
<1> HIDE DEF item
<1>8. /\ s \in Seq(LogItems) /\ Len(s) = m
      /\ \A k \in 1 .. m : s[k] = ItemIn(b, WalkIn(b, w, k - 1))
  BY <1>1, ItemsType
<1>9. /\ t \in Seq(LogItems) /\ Len(t) = m + 1
      /\ \A k \in 1 .. m + 1 : t[k] = ItemIn(c, WalkIn(c, w, k - 1))
  BY <1>1, <1>2, ItemsType
<1> HIDE DEF s, t
<1>10. /\ Append(s, item) \in Seq(LogItems) /\ Len(Append(s, item)) = m + 1
       /\ \A k \in 1 .. m : Append(s, item)[k] = s[k]
       /\ Append(s, item)[m + 1] = item
  <2>1. /\ Append(s, item) \in Seq(LogItems)
        /\ Len(Append(s, item)) = Len(s) + 1
        /\ \A k \in 1 .. Len(s) : Append(s, item)[k] = s[k]
        /\ Append(s, item)[Len(s) + 1] = item
    <3>1. s \in Seq(LogItems) /\ item \in LogItems
      BY <1>7, <1>8
    <3> QED
      BY ONLY <3>1, AppendFacts
  <2> QED
    BY <1>8, <2>1, Zenon
<1>11. ASSUME NEW k \in 1 .. m + 1 PROVE t[k] = Append(s, item)[k]
  <2>1. k - 1 \in 0 .. m
    BY <1>1
  <2>2. t[k] = ItemIn(c, WalkIn(b, w, k - 1))
    BY <1>5, <1>9, <2>1
  <2>3. CASE k = m + 1
    <3>1. k - 1 = m
      BY <1>1, <2>3
    <3> QED
      BY <1>6, <1>10, <2>2, <2>3, <3>1 DEF v
  <2>4. CASE k # m + 1
    <3>1. k - 1 \in 0 .. m - 1 /\ k \in 1 .. m
      BY <1>1, <2>4
    <3>2. ItemIn(c, WalkIn(b, w, k - 1)) = ItemIn(b, WalkIn(b, w, k - 1))
      BY <1>1, <1>2, <1>4, <3>1, ItemFrame
    <3> QED
      BY <1>8, <1>10, <2>2, <3>1, <3>2
  <2> QED
    BY <2>3, <2>4
<1>12. t = Append(s, item)
  BY <1>9, <1>10, <1>11, SameSeq
<1> QED
  BY <1>12 DEF s, t, item

(* The function that LogFifo sums the sizes of items with. *)
IsSum(f, items) ==
    f = [j \in 0 .. Len(items) |-> IF j = 0 THEN 0 ELSE f[j - 1] + Overhead + Len(items[j].line)]

(* It is determined by the items. *)
LEMMA SumUnique ==
    ASSUME NEW items, Len(items) \in Nat, NEW f, IsSum(f, items), NEW g, IsSum(g, items)
    PROVE  f[Len(items)] = g[Len(items)]
<1> DEFINE T == {j \in Nat : j <= Len(items) => f[j] = g[j]}
<1>1. /\ \A j \in 0 .. Len(items) :
           f[j] = IF j = 0 THEN 0 ELSE f[j - 1] + Overhead + Len(items[j].line)
      /\ \A j \in 0 .. Len(items) :
           g[j] = IF j = 0 THEN 0 ELSE g[j - 1] + Overhead + Len(items[j].line)
  BY Zenon DEF IsSum
<1>2. 0 \in T
  BY <1>1
<1>3. ASSUME NEW j \in Nat, j \in T PROVE j + 1 \in T
  <2> SUFFICES ASSUME j + 1 <= Len(items) PROVE f[j + 1] = g[j + 1]
    OBVIOUS
  <2>1. j + 1 \in 0 .. Len(items) /\ j + 1 # 0 /\ (j + 1) - 1 = j /\ j <= Len(items)
    OBVIOUS
  <2>2. f[j] = g[j]
    BY <1>3, <2>1
  <2> QED
    BY <1>1, <2>1, <2>2
<1> HIDE DEF T
<1>4. \A j \in Nat : j \in T
  BY <1>2, <1>3, SetInduction
<1> QED
  BY <1>4 DEF T

(* The size LogFifo gives the items is the space they take in the buffer. *)
LEMMA TotalIsSpace ==
    ASSUME NEW b \in Buffers, NEW i \in Indexes, NEW n \in Nat
    PROVE  Fifo!TotalSize(ItemsIn(b, i, n)) = SpaceIn(b, i, n)
<1> DEFINE items == ItemsIn(b, i, n)
           f == [j \in 0 .. n |-> SpaceIn(b, i, j)]
<1>1. Len(items) = n /\ \A k \in 1 .. n : items[k] = ItemIn(b, WalkIn(b, i, k - 1))
  BY ItemsType
<1> HIDE DEF items
<1>2. ASSUME NEW j \in 0 .. n
      PROVE  f[j] = IF j = 0 THEN 0 ELSE f[j - 1] + Overhead + Len(items[j].line)
  <2>1. CASE j = 0
    BY <2>1, SpaceStep
  <2>2. CASE j # 0
    <3>1. j \in 1 .. n /\ j - 1 \in Nat /\ (j - 1) + 1 = j /\ j - 1 \in 0 .. n
      BY <2>2
    <3>2. WalkIn(b, i, j - 1) \in Indexes /\ SpaceIn(b, i, j - 1) \in Nat
      BY <3>1, WalkType
    <3>3. Len(items[j].line) = SizeIn(b, WalkIn(b, i, j - 1))
      BY <1>1, <3>1, <3>2, ItemType
    <3>4. SizeIn(b, WalkIn(b, i, j - 1)) \in Nat
          /\ EntryIn(b, WalkIn(b, i, j - 1)) = Overhead + SizeIn(b, WalkIn(b, i, j - 1))
      BY <3>2, EntryFacts
    <3>5. SpaceIn(b, i, (j - 1) + 1) = SpaceIn(b, i, j - 1) + EntryIn(b, WalkIn(b, i, j - 1))
      BY <3>1, SpaceStep
    <3>6. SpaceIn(b, i, j) = SpaceIn(b, i, j - 1) + Overhead + Len(items[j].line)
      BY <3>1, <3>2, <3>3, <3>4, <3>5, Constants
    <3>7. f[j] = SpaceIn(b, i, j) /\ f[j - 1] = SpaceIn(b, i, j - 1)
      BY <3>1
    <3> QED
      BY <2>2, <3>6, <3>7
  <2> QED
    BY <2>1, <2>2
<1>3. IsSum(f, items)
  BY <1>1, <1>2 DEF IsSum
<1>4. Fifo!TotalSize(items) = (CHOOSE g : IsSum(g, items))[Len(items)]
  BY DEF Fifo!TotalSize, IsSum
<1>5. IsSum((CHOOSE g : IsSum(g, items)), items)
  BY <1>3
<1>6. (CHOOSE g : IsSum(g, items))[Len(items)] = f[Len(items)]
  <2> HIDE DEF f
  <2> QED
    BY <1>1, <1>3, <1>5, SumUnique
<1>7. f[Len(items)] = SpaceIn(b, i, n)
  BY <1>1
<1> QED
  BY <1>4, <1>6, <1>7 DEF items

(* log_core_add_line is an addition to LogFifo: as many of the oldest items *)
(* go as must.                                                              *)
LEMMA AddRefines ==
    ASSUME LogInv, NEW size \in Nat, NEW word \in Nat, log_core_add_line(size, word)
    PROVE  Fifo!Add([j \in 1 .. size |-> word])
<1> DEFINE entry == Overhead + size
           b == log_buffer
           i == log_state.first_el_idx
           n == log_state.num_items
           item == NewItem(global_timestamp, size, word)
<1>1. /\ size <= LOG_SIZE - Overhead
      /\ log_buffer' = Copied(b, global_timestamp, StartPos(entry), size, word)
      /\ log_state' = log_update_state(Room(entry).first_el_idx, StartPos(entry),
                                       Room(entry).stored_size + entry, Room(entry).num_items + 1)
      /\ global_timestamp' = (global_timestamp + 1) % Stamps
  BY AddInState
<1>2. b \in Buffers /\ global_timestamp \in Nat /\ n \in Nat /\ i \in Indexes
  BY Constants DEF LogInv, Good, States
<1>3. entry \in Nat /\ entry <= LOG_SIZE
  BY <1>1, Constants
<1>4. PICK k \in 0 .. n : \E w, sz : AddsTo(entry, k, w, sz)
  <2> HIDE DEF entry
  <2> QED
    BY <1>3, AddFacts
<1>5. PICK w, sz : AddsTo(entry, k, w, sz)
  BY <1>4
<1> DEFINE m == n - k
<1>6. Stored(b, w, m, sz) /\ StartPos(entry) = WalkIn(b, w, m)
  BY <1>5 DEF AddsTo
<1>7. sz \in Nat /\ sz + Overhead + size <= LOG_SIZE /\ m \in Nat /\ w \in Indexes
      /\ SpaceIn(b, w, m) <= sz
  <2>1. sz \in 0 .. LOG_SIZE /\ m \in Nat /\ w \in Indexes /\ SpaceIn(b, w, m) <= sz
    BY <1>6 DEF Stored
  <2>2. sz + entry <= LOG_SIZE
    BY <1>5 DEF AddsTo
  <2> HIDE DEF m
  <2> QED
    BY <2>1, <2>2, Constants
<1>8. log_state'.first_el_idx = w /\ log_state'.num_items = m + 1
  BY <1>1, <1>5, <1>6 DEF AddsTo, log_update_state
<1>9. log_buffer' \in Buffers /\ SpaceIn(log_buffer', w, m + 1) = SpaceIn(b, w, m) + Overhead + size
  <2>1. log_buffer' = Copied(b, global_timestamp, WalkIn(b, w, m), size, word)
    BY <1>1, <1>6
  <2> HIDE DEF m, b
  <2>2. Added(b, log_buffer', w, m, sz, global_timestamp, size, word)
    BY <1>2, <1>6, <1>7, <2>1, AddStored
  <2> QED
    BY <2>2 DEF Added
<1>10. ItemsIn(log_buffer', w, m + 1) = Append(ItemsIn(b, w, m), item)
  <2>1. log_buffer' = Copied(b, global_timestamp, WalkIn(b, w, m), size, word)
    BY <1>1, <1>6
  <2> HIDE DEF m, b
  <2> QED
    BY <1>2, <1>6, <1>7, <2>1, ItemsAdd
<1>11. ItemsIn(b, w, m) = SubSeq(Items, k + 1, Len(Items)) /\ Len(Items) = n
  <2>1. Items = ItemsIn(b, i, n) /\ Len(Items) = n /\ Items \in Seq(LogItems)
    BY <1>2, ItemsInState, ItemsType
  <2>2. CASE k < n
    <3>1. w = WalkIn(b, i, k)
      BY <1>5, <2>2 DEF AddsTo
    <3> QED
      BY <1>2, <2>1, <3>1, ItemsDrop
  <2>3. CASE ~(k < n)
    <3>1. k = n /\ m = 0
      BY <1>2, <2>3
    <3>2. ItemsIn(b, w, 0) \in Seq(LogItems) /\ Len(ItemsIn(b, w, 0)) = 0
      BY <1>2, <1>7, ItemsType
    <3>3. n \in 0 .. Len(Items)
      BY <1>2, <2>1
    <3>4. /\ SubSeq(Items, n + 1, Len(Items)) \in Seq(LogItems)
          /\ Len(SubSeq(Items, n + 1, Len(Items))) = Len(Items) - n
      BY <2>1, <3>3, SubSeqFacts
    <3>5. Len(SubSeq(Items, n + 1, Len(Items))) = 0
      BY <1>2, <2>1, <3>4
    <3>6. ItemsIn(b, w, 0) = SubSeq(Items, n + 1, Len(Items))
      BY <3>2, <3>4, <3>5, SameSeq
    <3> QED
      BY <2>1, <3>1, <3>6
  <2> QED
    BY <2>2, <2>3
<1>12. Items' = ItemsIn(log_buffer', w, m + 1)
  BY <1>8, ItemsInNext
<1>13. Items' = Append(SubSeq(Items, k + 1, Len(Items)), item)
  BY <1>10, <1>11, <1>12
<1>14. Fifo!TotalSize(Items') <= LOG_SIZE
  <2>1. Fifo!TotalSize(ItemsIn(log_buffer', w, m + 1)) = SpaceIn(log_buffer', w, m + 1)
    <3>1. m + 1 \in Nat
      BY <1>7
    <3> HIDE DEF m
    <3> QED
      BY <1>7, <1>9, <3>1, TotalIsSpace
  <2>2. SpaceIn(b, w, m) \in Nat
    <3> HIDE DEF m
    <3> QED
      BY <1>2, <1>7, WalkType
  <2>3. SpaceIn(log_buffer', w, m + 1) <= LOG_SIZE
    BY <1>7, <1>9, <2>2, Constants
  <2> QED
    BY <1>12, <2>1, <2>3
<1>15. k \in 0 .. Len(Items)
  BY <1>11
<1> QED
  BY <1>1, <1>13, <1>14, <1>15 DEF Fifo!Add, Fifo!DropOldest, NewItem

(* log_core_delete_items is a deletion from LogFifo. *)
LEMMA DeleteRefines ==
    ASSUME LogInv, NEW k \in Nat, log_core_delete_items(k)
    PROVE  Fifo!Delete(k)
<1> DEFINE b == log_buffer
           i == log_state.first_el_idx
           n == log_state.num_items
<1>1. /\ log_state' = IF k >= n THEN EmptyState
                      ELSE [log_state EXCEPT !.first_el_idx = WalkIn(b, i, k), !.num_items = n - k]
      /\ log_buffer' = b /\ global_timestamp' = global_timestamp
  BY InState, Zenon DEF log_core_delete_items
<1>2. b \in Buffers /\ log_state \in States /\ n \in Nat /\ i \in Indexes
  BY DEF LogInv, Good, States
<1>3. Items = ItemsIn(b, i, n) /\ Len(Items) = n /\ Items \in Seq(LogItems)
  BY <1>2, ItemsInState, ItemsType
<1>4. Items' = ItemsIn(b, log_state'.first_el_idx, log_state'.num_items)
  BY <1>1, ItemsInNext
<1>5. CASE k >= n
  <2>1. log_state'.first_el_idx = 0 /\ log_state'.num_items = 0
    BY <1>1, <1>5 DEF EmptyState, log_update_state
  <2>2. 0 \in Indexes
    BY Constants DEF Indexes
  <2>3. Items' \in Seq(LogItems) /\ Len(Items') = 0
    BY <1>2, <1>4, <2>1, <2>2, ItemsType
  <2>4. Items' = <<>>
    BY <2>3
  <2>5. SubSeq(Items, k + 1, Len(Items)) = <<>>
    BY <1>3, <1>5
  <2> QED
    BY <1>1, <2>4, <2>5 DEF Fifo!Delete, Fifo!DropOldest
<1>6. CASE ~(k >= n)
  <2>1. log_state'.first_el_idx = WalkIn(b, i, k) /\ log_state'.num_items = n - k
    BY <1>1, <1>2, <1>6 DEF States
  <2>2. k \in 0 .. n
    BY <1>2, <1>6
  <2>3. ItemsIn(b, WalkIn(b, i, k), n - k) = SubSeq(Items, k + 1, Len(Items))
    BY <1>2, <1>3, <2>2, ItemsDrop
  <2> QED
    BY <1>1, <1>4, <2>1, <2>3 DEF Fifo!Delete, Fifo!DropOldest
<1> QED
  BY <1>5, <1>6

(* The circular buffer implements the bounded sequence of LogFifo for every *)
(* size of buffer, header and MAC and for all lines and deletions: a reader *)
(* finds the newest items, complete and in order.                           *)
THEOREM LogImplementsFifo == Spec => ImplementsFifo
<1>1. Init => Fifo!Init
  <2> SUFFICES ASSUME Init PROVE Items = <<>> /\ global_timestamp = 0
    BY DEF Fifo!Init
  <2>1. LogInv
    BY InitGood
  <2>2. log_state.num_items = 0 /\ log_buffer \in Buffers /\ log_state.first_el_idx \in Indexes
    BY <2>1 DEF Init, EmptyState, log_update_state, LogInv, Good, States
  <2>3. Items \in Seq(LogItems) /\ Len(Items) = 0
    BY <2>2, ItemsInState, ItemsType
  <2> QED
    BY <2>3 DEF Init
<1>2. LogInv /\ [Next]_vars => [Fifo!Next]_<<Items, global_timestamp>>
  <2> SUFFICES ASSUME LogInv, [Next]_vars PROVE [Fifo!Next]_<<Items, global_timestamp>>
    OBVIOUS
  <2>1. CASE UNCHANGED vars
    <3>1. Items' = Items
      BY <2>1, ItemsInState, ItemsInNext DEF vars
    <3> QED
      BY <2>1, <3>1 DEF vars
  <2>2. ASSUME NEW size \in Sizes, NEW word \in Words, log_core_add_line(size, word)
        PROVE  Fifo!Next
    <3>1. size \in Nat /\ word \in Nat
      BY LogAssumption
    <3>2. Fifo!Add([j \in 1 .. size |-> word])
      BY <2>2, <3>1, AddRefines, Zenon
    <3>3. [j \in 1 .. size |-> word]
            \in {[j \in 1 .. sz |-> wd] : sz \in Sizes, wd \in Words}
      OBVIOUS
    <3> QED
      BY <3>2, <3>3 DEF Fifo!Next
  <2>3. ASSUME NEW k \in Deletes, log_core_delete_items(k)
        PROVE  Fifo!Next
    <3>1. k \in Nat
      BY LogAssumption
    <3>2. Fifo!Delete(k)
      BY <2>3, <3>1, DeleteRefines
    <3> QED
      BY <3>2 DEF Fifo!Next
  <2> QED
    BY <2>1, <2>2, <2>3 DEF Next
<1> QED
  BY <1>1, <1>2, LogInvariant, PTL DEF Spec, ImplementsFifo, Fifo!Spec
=============================================================================
