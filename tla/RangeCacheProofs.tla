------------------------- MODULE RangeCacheProofs -------------------------
(* Proofs about RangeCache for any set of blocks, any sizes and limit.  The *)
(* first part, bookkeeping, holds even when the recency counter wraps; the  *)
(* last one is about the paged reads that use the cache (PagedReads).       *)
EXTENDS PagedReads, TLAPS

-----------------------------------------------------------------------------
\* Sizes: the bytes of no block, and of the rest when some are taken away.

LEMMA BytesOfNone == Bytes[{}] = 0
  <1>1. /\ {} \in SUBSET Blocks
        /\ {} \cap {} = {}
        /\ {} \cup {} = {}
    OBVIOUS
  <1>2. Bytes[{}] = Bytes[{}] + Bytes[{}] /\ Bytes[{}] \in Nat
    BY <1>1, BytesAssumption
  <1> QED BY <1>2, SMTT(30)

LEMMA BytesOfRest ==
    ASSUME NEW T \in SUBSET Blocks, NEW S \in SUBSET T
    PROVE  /\ Bytes[T \ S] = Bytes[T] - Bytes[S]
           /\ Bytes[T] \in Nat /\ Bytes[S] \in Nat /\ Bytes[T \ S] \in Nat
           /\ Bytes[S] <= Bytes[T]
  <1>1. S \in SUBSET Blocks /\ T \ S \in SUBSET Blocks
    OBVIOUS
  <1>2. S \cap (T \ S) = {} /\ S \cup (T \ S) = T
    OBVIOUS
  <1>3. Bytes[T] = Bytes[S] + Bytes[T \ S]
    BY <1>1, <1>2, BytesAssumption
  <1>4. Bytes[T] \in Nat /\ Bytes[S] \in Nat /\ Bytes[T \ S] \in Nat
    BY <1>1, BytesAssumption
  <1> QED BY <1>3, <1>4

LEMMA BytesWithBlock ==
    ASSUME NEW S \in SUBSET Blocks, NEW k \in Blocks, k \notin S
    PROVE  /\ Bytes[S \cup {k}] = Bytes[S] + Bytes[{k}]
           /\ Bytes[{k}] \in Nat /\ Bytes[S] \in Nat
  <1>1. {k} \in SUBSET Blocks /\ S \cap {k} = {}
    OBVIOUS
  <1> QED BY <1>1, BytesAssumption

-----------------------------------------------------------------------------
\* Slots: a slot names its key, so keys and slots correspond one to one.

LEMMA KeysOfSlots ==
    ASSUME NEW S
    PROVE  KeysOf({Slot(b) : b \in S}) = S
  <1> DEFINE slots == {Slot(b) : b \in S}
  <1>1. \A b \in S : Slot(b)[3] = b
    BY DEF Slot
  <1>2. \A b \in S : b \in {s[3] : s \in slots}
    BY <1>1
  <1>3. \A s \in slots : s[3] \in S
    BY <1>1
  <1>4. {s[3] : s \in slots} = S
    BY <1>2, <1>3
  <1> QED BY <1>4 DEF KeysOf

LEMMA SlotsOfKeys ==
    ASSUME NEW S, NEW V \in SUBSET {Slot(b) : b \in S}
    PROVE  /\ KeysOf(V) \in SUBSET S
           /\ V = {Slot(b) : b \in KeysOf(V)}
           /\ {Slot(b) : b \in S} \ V = {Slot(b) : b \in S \ KeysOf(V)}
  <1>1. \A b \in S : Slot(b)[3] = b
    BY DEF Slot
  <1>2. \A v \in V : v[3] \in S /\ v = Slot(v[3])
    BY <1>1
  <1>3. KeysOf(V) \in SUBSET S /\ V = {Slot(b) : b \in KeysOf(V)}
    BY <1>2 DEF KeysOf
  <1>4. \A b \in S : Slot(b) \in V <=> b \in KeysOf(V)
    BY <1>1, <1>3, <1>2 DEF KeysOf
  <1> QED BY <1>3, <1>4

LEMMA SlotsWithout ==
    ASSUME NEW S, NEW T \in SUBSET S
    PROVE  {Slot(b) : b \in S} \ {Slot(b) : b \in T} = {Slot(b) : b \in S \ T}
  <1>1. \A b : Slot(b)[3] = b
    BY DEF Slot
  <1> QED BY <1>1

LEMMA NextRecencyType ==
    ASSUME TypeOK, TakeRecency
    PROVE  /\ nextRecency' \in 0 .. RecencyModulus - 1
           /\ nextRecency \in 0 .. RecencyModulus - 1
           /\ nextRecency < MaxRecency
  BY RecencyAssumption DEF TypeOK, TakeRecency

-----------------------------------------------------------------------------
\* Each operation keeps the bookkeeping.

LEMMA InitBookkeeping == Init => Bookkeeping
  <1> SUFFICES ASSUME Init PROVE Bookkeeping
    OBVIOUS
  <1>1. Cached = {}
    BY DEF Init, Cached
  <1>2. entries \in [Cached -> Entry]
    BY <1>1 DEF Init
  <1>3. TypeOK
    BY <1>1, <1>2, RecencyAssumption DEF Init, TypeOK
  <1>4. IndexMirrorsEntries
    BY <1>1 DEF Init, IndexMirrorsEntries
  <1>5. CounterIsBytesHeld /\ WithinLimit
    BY <1>1, BytesOfNone, LimitAssumption
    DEF Init, CounterIsBytesHeld, WithinLimit
  <1> QED BY <1>3, <1>4, <1>5 DEF Bookkeeping

LEMMA InsertBookkeeping ==
    ASSUME Bookkeeping, NEW k \in Blocks, NEW c \in Categories, Insert(k, c)
    PROVE  Bookkeeping'
  <1> USE DEF Bookkeeping
  <1> DEFINE others == Cached \ {k}
             slots  == lru \ {Slot(p) : p \in Cached \cap {k}}
             held   == UsedWithout(k)
             new    == [category |-> c, recency |-> nextRecency]
  <1>1. PICK V \in SUBSET slots :
          /\ IsEvicted(V, slots, held, Bytes[{k}])
          /\ used' = held - Bytes[KeysOf(V)] + Bytes[{k}]
          /\ lru' = (slots \ V) \cup {<<EvictionPriority[c], nextRecency, k>>}
          /\ entries' = [b \in (Cached \ KeysOf(V)) \cup {k} |->
                           IF b = k THEN new ELSE entries[b]]
    BY DEF Insert
  <1> DEFINE gone == KeysOf(V)
             kept == others \ gone
  <1>2. slots = {Slot(b) : b \in others}
    <2> DEFINE present == Cached \cap {k}
    <2>1. Cached \ present = others /\ present \in SUBSET Cached
      OBVIOUS
    <2>2. slots = {Slot(b) : b \in Cached} \ {Slot(b) : b \in present}
      BY DEF IndexMirrorsEntries
    <2>3. slots = {Slot(b) : b \in Cached \ present}
      <3> HIDE DEF present
      <3> QED BY <2>1, <2>2, SlotsWithout
    <2> QED BY <2>1, <2>3
  <1>3. /\ gone \in SUBSET others
        /\ slots \ V = {Slot(b) : b \in kept}
    BY <1>2, SlotsOfKeys
  <1>4. Cached' = kept \cup {k} /\ k \notin kept /\ kept \subseteq Blocks
    BY <1>1, <1>3 DEF Cached, TypeOK
  <1>5. held = Bytes[others]
    <2>1. Cached \ (Cached \cap {k}) = others /\ Cached \cap {k} \in SUBSET Cached
      OBVIOUS
    <2>2. Cached \in SUBSET Blocks
      BY DEF TypeOK
    <2> QED BY <2>1, <2>2, BytesOfRest DEF CounterIsBytesHeld, UsedWithout
  <1>6. Bytes[kept] = held - Bytes[gone] /\ Bytes[kept] \in Nat
    <2>1. others \in SUBSET Blocks
      BY DEF TypeOK
    <2> QED BY <2>1, <1>3, <1>5, BytesOfRest
  <1>7. used' = Bytes[Cached'] /\ used' = Bytes[kept] + Bytes[{k}]
    BY <1>1, <1>4, <1>6, BytesWithBlock
  <1>8. Bytes[{k}] \in Nat /\ Bytes[{k}] <= Limit
    <2>1. Bytes[{k}] \in Nat
      BY <1>4, BytesWithBlock
    <2>2. ~(Bytes[{k}] > Limit)
      BY DEF Insert, Refused
    <2> QED BY <2>1, <2>2, LimitAssumption
  <1>9. nextRecency' \in 0 .. RecencyModulus - 1
        /\ nextRecency \in 0 .. RecencyModulus - 1
    BY NextRecencyType DEF Insert
  <1>10. TypeOK'
    <2>1. new \in Entry
      BY <1>9 DEF Entry
    <2>2. \A b \in kept : entries[b] \in Entry
      BY DEF TypeOK
    <2>3. entries' = [b \in Cached' |-> IF b = k THEN new ELSE entries[b]]
      BY <1>1 DEF Cached
    <2>4. entries' \in [Cached' -> Entry]
      BY <2>1, <2>2, <2>3, <1>4
    <2>5. used' \in Nat
      BY <1>6, <1>7, <1>8
    <2>6. lastHit' \in Cached'
      BY <1>4 DEF Insert
    <2> QED BY <2>4, <2>5, <2>6, <1>4, <1>9 DEF TypeOK
  <1>11. IndexMirrorsEntries'
    <2>1. \A b \in kept : entries'[b] = entries[b]
      BY <1>1, <1>3
    <2>2. entries'[k] = new
      BY <1>1
    <2>3. \A b \in kept : Slot(b)' = Slot(b)
      BY <2>1 DEF Slot
    <2>4. Slot(k)' = <<EvictionPriority[c], nextRecency, k>>
      BY <2>2 DEF Slot
    <2>5. lru' = {Slot(b) : b \in kept} \cup {Slot(k)'}
      BY <1>1, <1>3, <2>4
    <2>6. \A s : s \in lru' <=> \E b \in Cached' : s = Slot(b)'
      BY <2>3, <2>5, <1>4
    <2>7. lru' = {Slot(b)' : b \in Cached'}
      BY <2>6
    <2> QED BY <2>7 DEF IndexMirrorsEntries, Slot
  <1>12. CounterIsBytesHeld'
    BY <1>7 DEF CounterIsBytesHeld
  <1>13. WithinLimit'
    <2>1. CASE V = slots
      <3>1. gone = others
        BY <1>2, <2>1, KeysOfSlots
      <3>2. Bytes[kept] = 0
        <4>1. kept = {}
          BY <3>1
        <4> QED BY <4>1, BytesOfNone
      <3>3. Bytes[Cached'] = Bytes[{k}]
        BY <3>2, <1>7, <1>8
      <3> QED BY <3>3, <1>8 DEF WithinLimit
    <2>2. CASE held - Bytes[KeysOf(V)] + Bytes[{k}] <= Limit
      BY <2>2, <1>1, <1>7 DEF WithinLimit
    <2> QED BY <1>1, <2>1, <2>2 DEF IsEvicted
  <1> QED BY <1>10, <1>11, <1>12, <1>13

LEMMA HitBookkeeping ==
    ASSUME Bookkeeping, NEW k \in Blocks, Hit(k)
    PROVE  Bookkeeping'
  <1> USE DEF Bookkeeping
  <1>1. k \in Cached /\ used' = used /\ lastHit' = k
    BY DEF Hit
  <1>2. CASE lastHit = k
    <2>1. entries' = entries /\ lru' = lru /\ nextRecency' = nextRecency
      BY <1>2 DEF Hit
    <2>2. Cached' = Cached
      BY <2>1 DEF Cached
    <2>3. TypeOK'
      BY <1>1, <2>1, <2>2 DEF TypeOK
    <2>4. IndexMirrorsEntries'
      BY <2>1, <2>2 DEF IndexMirrorsEntries, Slot
    <2> QED BY <1>1, <2>2, <2>3, <2>4 DEF CounterIsBytesHeld, WithinLimit
  <1>3. CASE lastHit # k
    <2>1. Touch(k)
      BY <1>3 DEF Hit
    <2>2. nextRecency' \in 0 .. RecencyModulus - 1
          /\ nextRecency \in 0 .. RecencyModulus - 1
      BY <2>1, NextRecencyType DEF Touch
    <2>3. entries' \in [Cached -> Entry] /\ Cached' = Cached
      BY <2>1, <2>2, <1>1 DEF Touch, TypeOK, Entry, Cached
    <2>4. TypeOK'
      BY <1>1, <2>2, <2>3 DEF TypeOK
    <2>5. /\ \A b \in Cached \ {k} : entries'[b] = entries[b]
          /\ entries'[k].category = entries[k].category
          /\ entries'[k].recency = nextRecency
      BY <2>1, <1>1 DEF Touch, TypeOK, Entry
    <2>6. \A b \in Cached \ {k} : Slot(b)' = Slot(b)
      BY <2>5 DEF Slot
    <2>7. Slot(k)' = <<EvictionPriority[entries[k].category], nextRecency, k>>
      BY <2>5 DEF Slot
    <2>8. lru \ {Slot(k)} = {Slot(b) : b \in Cached \ {k}}
      <3>1. {Slot(b) : b \in {k}} = {Slot(k)} /\ {k} \in SUBSET Cached
        BY <1>1
      <3> QED BY <3>1, SlotsWithout DEF IndexMirrorsEntries
    <2>9. \A s : s \in lru' <=> \E b \in Cached' : s = Slot(b)'
      BY <2>1, <2>3, <2>6, <2>7, <2>8, <1>1 DEF Touch
    <2>10. lru' = {Slot(b)' : b \in Cached'}
      BY <2>9
    <2>11. IndexMirrorsEntries'
      BY <2>10 DEF IndexMirrorsEntries, Slot
    <2> QED BY <1>1, <2>3, <2>4, <2>11 DEF CounterIsBytesHeld, WithinLimit
  <1> QED BY <1>2, <1>3

LEMMA InvalidateBookkeeping ==
    ASSUME Bookkeeping, NEW i \in Identities, InvalidateIdentity(i)
    PROVE  Bookkeeping'
  <1> USE DEF Bookkeeping
  <1> DEFINE gone == {k \in Cached : IdentityOf[k] = i}
             kept == Cached \ gone
  <1>1. /\ used' = used - Bytes[gone]
        /\ lru' = lru \ {Slot(k) : k \in gone}
        /\ entries' = [b \in kept |-> entries[b]]
        /\ lastHit' = IF lastHit \in gone THEN NoKey ELSE lastHit
        /\ nextRecency' = nextRecency
    BY DEF InvalidateIdentity
  <1>2. Cached' = kept
    BY <1>1 DEF Cached
  <1>3. /\ Bytes[kept] = Bytes[Cached] - Bytes[gone]
        /\ Bytes[kept] \in Nat /\ Bytes[Cached] \in Nat
        /\ Bytes[kept] <= Bytes[Cached]
    <2>1. Cached \in SUBSET Blocks /\ gone \in SUBSET Cached /\ kept \in SUBSET Cached
      BY DEF TypeOK
    <2> HIDE DEF gone
    <2> QED BY <2>1, BytesOfRest
  <1>4. TypeOK'
    <2>1. entries' \in [Cached' -> Entry]
      BY <1>1, <1>2 DEF TypeOK
    <2>2. lastHit' \in Cached' \cup {NoKey}
      BY <1>1, <1>2 DEF TypeOK
    <2>3. used' \in Nat
      BY <1>1, <1>3 DEF CounterIsBytesHeld
    <2> QED BY <1>1, <1>2, <2>1, <2>2, <2>3 DEF TypeOK
  <1>5. IndexMirrorsEntries'
    <2>1. lru' = {Slot(b) : b \in kept}
      BY <1>1, SlotsWithout DEF IndexMirrorsEntries
    <2>2. \A b \in kept : Slot(b)' = Slot(b)
      BY <1>1 DEF Slot
    <2>3. lru' = {Slot(b)' : b \in Cached'}
      BY <1>2, <2>1, <2>2
    <2> QED BY <2>3 DEF IndexMirrorsEntries, Slot
  <1>6. CounterIsBytesHeld' /\ WithinLimit'
    BY <1>1, <1>2, <1>3, LimitAssumption DEF CounterIsBytesHeld, WithinLimit
  <1> QED BY <1>4, <1>5, <1>6

LEMMA StutterBookkeeping == Bookkeeping /\ UNCHANGED vars => Bookkeeping'
  BY DEF Bookkeeping, vars, TypeOK, IndexMirrorsEntries, CounterIsBytesHeld,
         WithinLimit, Cached, Slot

\* One slot per block, every byte counted once, the limit kept (Bookkeeping).
THEOREM BookkeepingHolds == Spec => []Bookkeeping
  <1>1. Bookkeeping /\ [Next]_vars => Bookkeeping'
    BY InsertBookkeeping, HitBookkeeping, InvalidateBookkeeping,
       StutterBookkeeping DEF Next
  <1> QED BY InitBookkeeping, <1>1, PTL DEF Spec

(* The cache keeps its types: Bookkeeping is four properties; each by name. *)
THEOREM CacheTypeCorrect == Spec => []TypeOK
  BY BookkeepingHolds, PTL DEF Bookkeeping

(* The index holds exactly one slot per cached block, whatever the          *)
(* insertions, hits and invalidations (insert, touch, remove_key).          *)
THEOREM CacheIndexMirrors == Spec => []IndexMirrorsEntries
  BY BookkeepingHolds, PTL DEF Bookkeeping

(* The byte counter never drifts from the bytes held.                       *)
THEOREM CacheCounterExact == Spec => []CounterIsBytesHeld
  BY BookkeepingHolds, PTL DEF Bookkeeping

(* The cache never holds more than its limit.                               *)
THEOREM CacheWithinLimit == Spec => []WithinLimit
  BY BookkeepingHolds, PTL DEF Bookkeeping

-----------------------------------------------------------------------------
\* While the counter has not wrapped, recencies order the uses.

Unwrapped == MaxRecency < RecencyModulus

Ordered ==
    /\ nextRecency <= MaxRecency
    /\ \A k \in Cached : entries[k].recency < nextRecency
    /\ \A j, k \in Cached :
         j # k => entries[j].recency # entries[k].recency
    /\ LastHitIsNewest

LEMMA RecencyAdvances ==
    ASSUME Unwrapped, TypeOK, TakeRecency
    PROVE  /\ nextRecency \in Nat
           /\ nextRecency' = nextRecency + 1
           /\ nextRecency' <= MaxRecency
  <1>1. /\ nextRecency \in Nat /\ nextRecency < MaxRecency
        /\ nextRecency' = (nextRecency + 1) % RecencyModulus
        /\ RecencyModulus \in Nat \ {0} /\ MaxRecency \in Nat
    BY RecencyAssumption DEF TypeOK, TakeRecency
  <1>2. nextRecency + 1 < RecencyModulus
    BY <1>1 DEF Unwrapped
  <1>3. \A a, m \in Nat : a < m => a % m = a
    OBVIOUS
  <1> QED BY <1>1, <1>2, <1>3

LEMMA RecencyTypes ==
    ASSUME TypeOK
    PROVE  \A k \in Cached : entries[k].recency \in Nat
  BY RecencyAssumption DEF TypeOK, Entry

\* What an insertion does to the entries.
LEMMA InsertEntries ==
    ASSUME TypeOK, NEW k \in Blocks, NEW c \in Categories, Insert(k, c)
    PROVE  \E S \in SUBSET (Cached \ {k}) :
             /\ Cached' = S \cup {k}
             /\ \A b \in S : entries'[b] = entries[b]
             /\ entries'[k] = [category |-> c, recency |-> nextRecency]
             /\ lastHit' = k
  <1>1. PICK V :
          entries' = [b \in (Cached \ KeysOf(V)) \cup {k} |->
                        IF b = k THEN [category |-> c, recency |-> nextRecency]
                        ELSE entries[b]]
    BY DEF Insert
  <1>2. lastHit' = k
    BY DEF Insert
  <1> DEFINE S == (Cached \ {k}) \ KeysOf(V)
  <1>3. S \in SUBSET (Cached \ {k}) /\ Cached' = S \cup {k}
    BY <1>1 DEF Cached
  <1>4. \A b \in S : entries'[b] = entries[b]
    BY <1>1
  <1>5. entries'[k] = [category |-> c, recency |-> nextRecency]
    BY <1>1
  <1> HIDE DEF S
  <1> QED BY <1>2, <1>3, <1>4, <1>5

LEMMA InsertOrdered ==
    ASSUME Unwrapped, TypeOK, Ordered,
           NEW k \in Blocks, NEW c \in Categories, Insert(k, c)
    PROVE  Ordered'
  <1>1. PICK S \in SUBSET (Cached \ {k}) :
          /\ Cached' = S \cup {k}
          /\ \A b \in S : entries'[b] = entries[b]
          /\ entries'[k] = [category |-> c, recency |-> nextRecency]
          /\ lastHit' = k
    BY InsertEntries
  <1>2. /\ nextRecency \in Nat /\ nextRecency' = nextRecency + 1
        /\ nextRecency' <= MaxRecency
    BY RecencyAdvances DEF Insert
  <1>3. \A b \in S : entries'[b].recency \in Nat /\ entries'[b].recency < nextRecency
    BY <1>1, RecencyTypes DEF Ordered
  <1>4. entries'[k].recency = nextRecency
    BY <1>1
  <1>5. \A b \in Cached' : entries'[b].recency < nextRecency'
    BY <1>1, <1>2, <1>3, <1>4
  <1>6. \A a, b \in Cached' : a # b => entries'[a].recency # entries'[b].recency
    BY <1>1, <1>2, <1>3, <1>4 DEF Ordered
  <1>7. LastHitIsNewest'
    BY <1>1, <1>3, <1>4 DEF LastHitIsNewest
  <1> QED BY <1>2, <1>5, <1>6, <1>7 DEF Ordered

\* What a hit that is not on the block hit last does to the entries.
LEMMA TouchEntries ==
    ASSUME TypeOK, NEW k \in Cached, Touch(k)
    PROVE  /\ Cached' = Cached
           /\ \A b \in Cached \ {k} : entries'[b] = entries[b]
           /\ entries'[k].category = entries[k].category
           /\ entries'[k].recency = nextRecency
  BY DEF TypeOK, Touch, Cached, Entry

LEMMA HitOrdered ==
    ASSUME Unwrapped, TypeOK, Ordered, NEW k \in Blocks, Hit(k)
    PROVE  Ordered'
  <1>1. k \in Cached /\ lastHit' = k
    BY DEF Hit
  <1>2. CASE lastHit = k
    <2>1. entries' = entries /\ nextRecency' = nextRecency /\ lastHit' = lastHit
      BY <1>1, <1>2 DEF Hit
    <2> QED BY <2>1 DEF Ordered, LastHitIsNewest, Cached
  <1>3. CASE lastHit # k
    <2>1. Touch(k)
      BY <1>3 DEF Hit
    <2>2. /\ nextRecency \in Nat /\ nextRecency' = nextRecency + 1
          /\ nextRecency' <= MaxRecency
      BY <2>1, RecencyAdvances DEF Touch
    <2>3. /\ Cached' = Cached /\ entries'[k].recency = nextRecency
          /\ \A b \in Cached \ {k} : entries'[b] = entries[b]
      BY <1>1, <2>1, TouchEntries
    <2>4. \A b \in Cached \ {k} :
            entries'[b].recency \in Nat /\ entries'[b].recency < nextRecency
      BY <2>3, RecencyTypes DEF Ordered
    <2>5. \A b \in Cached' : entries'[b].recency < nextRecency'
      BY <2>2, <2>3, <2>4
    <2>6. \A a, b \in Cached' : a # b => entries'[a].recency # entries'[b].recency
      BY <2>2, <2>3, <2>4 DEF Ordered
    <2>7. LastHitIsNewest'
      BY <1>1, <2>3, <2>4 DEF LastHitIsNewest
    <2> QED BY <2>2, <2>5, <2>6, <2>7 DEF Ordered
  <1> QED BY <1>2, <1>3

LEMMA InvalidateOrdered ==
    ASSUME TypeOK, Ordered, NEW i \in Identities, InvalidateIdentity(i)
    PROVE  Ordered'
  <1> DEFINE gone == {k \in Cached : IdentityOf[k] = i}
  <1>1. /\ Cached' = Cached \ gone
        /\ \A b \in Cached' : entries'[b] = entries[b]
        /\ nextRecency' = nextRecency
        /\ lastHit' = IF lastHit \in gone THEN NoKey ELSE lastHit
    BY DEF InvalidateIdentity, Cached
  <1>2. LastHitIsNewest'
    <2> SUFFICES ASSUME lastHit' # NoKey, NEW b \in Cached' \ {lastHit'}
                 PROVE  entries'[b].recency < entries'[lastHit'].recency
      BY DEF LastHitIsNewest
    <2>1. lastHit' = lastHit /\ lastHit \in Cached \ gone
      BY <1>1 DEF TypeOK
    <2> QED BY <1>1, <2>1 DEF Ordered, LastHitIsNewest
  <1> QED BY <1>1, <1>2 DEF Ordered

LEMMA InitOrdered == Init => Ordered
  BY RecencyAssumption DEF Init, Ordered, LastHitIsNewest, Cached

LEMMA OrderedHolds ==
    ASSUME Unwrapped
    PROVE  Spec => [](Bookkeeping /\ Ordered)
  <1>1. Init => Bookkeeping /\ Ordered
    BY InitBookkeeping, InitOrdered
  <1>2. Bookkeeping /\ Ordered /\ [Next]_vars => (Bookkeeping /\ Ordered)'
    <2> SUFFICES ASSUME Bookkeeping, Ordered, [Next]_vars
                 PROVE  Bookkeeping' /\ Ordered'
      OBVIOUS
    <2>1. TypeOK
      BY DEF Bookkeeping
    <2>2. CASE UNCHANGED vars
      <3>1. Ordered'
        BY <2>2 DEF vars, Ordered, LastHitIsNewest, Cached
      <3> QED BY <2>2, <3>1, StutterBookkeeping
    <2> QED BY <2>1, <2>2, InsertBookkeeping, HitBookkeeping, InvalidateBookkeeping,
               InsertOrdered, HitOrdered, InvalidateOrdered DEF Next
  <1> QED BY <1>1, <1>2, PTL DEF Spec

(* The shortcut of get is sound: the block hit last is the most recently    *)
(* used of all, until the 2^64th use of the cache.                          *)
THEOREM CacheLastHitIsNewest ==
    ASSUME Unwrapped
    PROVE  Spec => []LastHitIsNewest
  BY OrderedHolds, PTL DEF Ordered

-----------------------------------------------------------------------------
(* The refinement: eviction order of keys is the order of their slots, so   *)
(* the loop evicts what the abstract cache evicts.                          *)

LEMMA LiveIsCached ==
    /\ Lru!Live = Cached
    /\ Lru!Live' = Cached'
  BY DEF Lru!Live

LEMMA EvictionOrder ==
    ASSUME TypeOK, Ordered, NEW a \in Cached, NEW b \in Cached
    PROVE  /\ Lru!EvictedBefore(a, b) <=> a # b /\ Before(Slot(a), Slot(b))
           /\ ~(Before(Slot(a), Slot(b)) /\ Before(Slot(b), Slot(a)))
  <1>1. /\ entries[a].category \in Categories /\ entries[b].category \in Categories
        /\ entries[a].recency \in Nat /\ entries[b].recency \in Nat
        /\ a \in Nat /\ b \in Nat
    BY BlocksAssumption, RecencyTypes DEF TypeOK, Entry
  <1> DEFINE pa == EvictionPriority[entries[a].category]
             pb == EvictionPriority[entries[b].category]
             ra == entries[a].recency
             rb == entries[b].recency
  <1>2. pa \in Nat /\ pb \in Nat /\ ra \in Nat /\ rb \in Nat
    BY <1>1 DEF Categories, EvictionPriority
  <1>3. Lru!EvictedBefore(a, b) <=> \/ pa < pb
                                    \/ pa = pb /\ ra < rb
    BY DEF Lru!EvictedBefore
  <1>4. Before(Slot(a), Slot(b)) <=> \/ pa < pb
                                     \/ pa = pb /\ ra < rb
                                     \/ pa = pb /\ ra = rb /\ a < b
    BY DEF Before, Slot
  <1>5. Before(Slot(b), Slot(a)) <=> \/ pb < pa
                                     \/ pb = pa /\ rb < ra
                                     \/ pb = pa /\ rb = ra /\ b < a
    BY DEF Before, Slot
  <1>6. a # b => ra # rb
    BY DEF Ordered
  <1>7. a = b => pa = pb /\ ra = rb
    OBVIOUS
  <1> HIDE DEF pa, pb, ra, rb
  <1> QED BY <1>1, <1>2, <1>3, <1>4, <1>5, <1>6, <1>7

\* After a step that gives k the newest recency, k was used last.
LEMMA NewestIsUsedLast ==
    ASSUME NEW k, NEW S, k \notin S, S \subseteq Cached,
           Cached' = S \cup {k},
           \A b \in S : entries'[b].recency = entries[b].recency,
           \A b \in S : entries[b].recency \in Nat,
           \A b \in S : entries[b].recency < nextRecency,
           nextRecency \in Nat,
           entries'[k].recency = nextRecency
    PROVE  {p \in Cached' \X Cached' : entries'[p[1]].recency < entries'[p[2]].recency}
             = Lru!UsedLast(k, S)
  <1> DEFINE older == {p \in Cached \X Cached :
                          entries[p[1]].recency < entries[p[2]].recency}
             now   == {p \in Cached' \X Cached' :
                          entries'[p[1]].recency < entries'[p[2]].recency}
             among == {p \in older : p[1] \in S /\ p[2] \in S}
  <1>1. S \ {k} = S
    OBVIOUS
  <1>2. Lru!UsedLast(k, S) = among \cup (S \X {k})
    BY <1>1 DEF Lru!UsedLast, Lru!Among
  <1>3. \A a, b \in S : <<a, b>> \in now <=> <<a, b>> \in among
    OBVIOUS
  <1>4. \A a \in S : <<a, k>> \in now
    OBVIOUS
  <1>5. \A b \in S \cup {k} : <<k, b>> \notin now
    OBVIOUS
  <1>6. now \subseteq (S \cup {k}) \X (S \cup {k}) /\ among \subseteq S \X S
    OBVIOUS
  <1>7. \A p \in now : p \in among \cup (S \X {k})
    <2> SUFFICES ASSUME NEW p \in now PROVE p \in among \cup (S \X {k})
      OBVIOUS
    <2>1. PICK a \in S \cup {k}, b \in S \cup {k} : p = <<a, b>>
      BY <1>6
    <2> HIDE DEF now, among
    <2>2. a \in S
      BY <2>1, <1>5
    <2>3. CASE b = k
      BY <2>1, <2>2, <2>3
    <2>4. CASE b # k
      BY <2>1, <2>2, <2>4, <1>3
    <2> QED BY <2>3, <2>4
  <1>8. \A p \in among \cup (S \X {k}) : p \in now
    <2> SUFFICES ASSUME NEW p \in among \cup (S \X {k}) PROVE p \in now
      OBVIOUS
    <2>1. CASE p \in among
      <3>1. PICK a \in S, b \in S : p = <<a, b>>
        BY <2>1, <1>6
      <3> HIDE DEF now, among
      <3> QED BY <2>1, <3>1, <1>3
    <2>2. CASE p \in S \X {k}
      BY <2>2, <1>4
    <2> QED BY <2>1, <2>2
  <1>9. now = among \cup (S \X {k})
    BY <1>7, <1>8
  <1> QED BY <1>2, <1>9

LEMMA HitRefines ==
    ASSUME Unwrapped, TypeOK, Ordered, NEW k \in Blocks, Hit(k)
    PROVE  Lru!Use(k)
  <1>1. k \in Cached
    BY DEF Hit
  <1>5. call' = Lru!Call("get", k)
    BY DEF Hit, Call, Lru!Call
  <1> DEFINE S == Cached \ {k}
  <1>2. k \notin S /\ S \subseteq Cached /\ Cached = S \cup {k}
    BY <1>1
  <1>3. CASE lastHit = k
    <2>1. entries' = entries
      BY <1>3 DEF Hit
    <2>2. Cached' = Cached
      BY <2>1 DEF Cached
    <2>3. \A b \in S : entries[b].recency < entries[k].recency
      BY <1>1, <1>3, NoKeyAssumption DEF Ordered, LastHitIsNewest, TypeOK
    <2> DEFINE older == {p \in Cached \X Cached :
                            entries[p[1]].recency < entries[p[2]].recency}
               among == {p \in older : p[1] \in S /\ p[2] \in S}
    <2>4. \A a \in Cached : <<k, a>> \notin older
      BY <2>3, <1>1, RecencyTypes
    <2>5. \A p \in older : p \in among \cup (S \X {k})
      <3> SUFFICES ASSUME NEW p \in older PROVE p \in among \cup (S \X {k})
        OBVIOUS
      <3>1. PICK a \in Cached, b \in Cached : p = <<a, b>>
        OBVIOUS
      <3>2. a \in S
        BY <3>1, <2>4
      <3> QED BY <3>1, <3>2
    <2>6. \A p \in among \cup (S \X {k}) : p \in older
      BY <2>3, <1>1
    <2>7. older = among \cup (S \X {k})
      BY <2>5, <2>6
    <2>8. Lru!UsedLast(k, Cached) = among \cup (S \X {k})
      BY DEF Lru!UsedLast, Lru!Among
    <2> HIDE DEF among
    <2> QED BY <1>1, <1>5, <2>1, <2>2, <2>7, <2>8, LiveIsCached DEF Lru!Use
  <1>4. CASE lastHit # k
    <2>1. Touch(k)
      BY <1>4 DEF Hit
    <2>2. /\ Cached' = Cached /\ entries'[k].recency = nextRecency
          /\ entries'[k].category = entries[k].category
          /\ \A b \in S : entries'[b] = entries[b]
      BY <1>1, <2>1, TouchEntries
    <2>3. nextRecency \in Nat
      BY <2>1, RecencyAdvances DEF Touch
    <2>4. \A b \in S : entries[b].recency \in Nat /\ entries[b].recency < nextRecency
      BY RecencyTypes DEF Ordered
    <2> HIDE DEF S
    <2>5. {p \in Cached' \X Cached' : entries'[p[1]].recency < entries'[p[2]].recency}
             = Lru!UsedLast(k, S)
      BY <1>2, <2>2, <2>3, <2>4, NewestIsUsedLast
    <2>6. Lru!UsedLast(k, S) = Lru!UsedLast(k, Cached)
      <3>1. S \ {k} = Cached \ {k}
        BY <1>2
      <3> QED BY <3>1 DEF Lru!UsedLast
    <2>7. [b \in Cached' |-> entries'[b].category] = [b \in Cached |-> entries[b].category]
      BY <1>2, <2>2
    <2> QED BY <1>1, <1>5, <2>5, <2>6, <2>7, LiveIsCached DEF Lru!Use
  <1> QED BY <1>3, <1>4

LEMMA InvalidateRefines ==
    ASSUME NEW i \in Identities, InvalidateIdentity(i)
    PROVE  Lru!Drop(i)
  <1> DEFINE rest == {b \in Cached : IdentityOf[b] # i}
             older == {p \in Cached \X Cached :
                          entries[p[1]].recency < entries[p[2]].recency}
             now   == {p \in Cached' \X Cached' :
                          entries'[p[1]].recency < entries'[p[2]].recency}
  <1>1. Cached' = rest /\ \A b \in rest : entries'[b] = entries[b]
    BY DEF InvalidateIdentity, Cached
  <1>2. now = {p \in older : p[1] \in rest /\ p[2] \in rest}
    BY <1>1
  <1>3. [b \in Cached' |-> entries'[b].category]
          = [b \in rest |-> [k \in Cached |-> entries[k].category][b]]
    BY <1>1
  <1>4. call' = Lru!Call("invalidate", i)
    BY DEF InvalidateIdentity, Call, Lru!Call
  <1> QED BY <1>2, <1>3, <1>4, LiveIsCached DEF Lru!Drop, Lru!Among

LEMMA InsertRefines ==
    ASSUME Unwrapped, Bookkeeping, Ordered, Bookkeeping',
           NEW k \in Blocks, NEW c \in Categories, Insert(k, c)
    PROVE  Lru!Insert(k, c)
  <1> DEFINE others == Cached \ {k}
             slots  == lru \ {Slot(p) : p \in Cached \cap {k}}
             held   == UsedWithout(k)
             new    == [category |-> c, recency |-> nextRecency]
             heldNow == [b \in Cached |-> entries[b].category]
  <1> USE DEF Bookkeeping
  <1>1. PICK V \in SUBSET slots :
          /\ IsEvicted(V, slots, held, Bytes[{k}])
          /\ entries' = [b \in (Cached \ KeysOf(V)) \cup {k} |->
                           IF b = k THEN new ELSE entries[b]]
    BY DEF Insert
  <1> DEFINE gone == KeysOf(V)
             kept == others \ gone
  <1>2. slots = {Slot(b) : b \in others}
    <2> DEFINE present == Cached \cap {k}
    <2>1. Cached \ present = others /\ present \in SUBSET Cached
      OBVIOUS
    <2>2. slots = {Slot(b) : b \in Cached} \ {Slot(b) : b \in present}
      BY DEF IndexMirrorsEntries
    <2>3. slots = {Slot(b) : b \in Cached \ present}
      <3> HIDE DEF present
      <3> QED BY <2>1, <2>2, SlotsWithout
    <2> QED BY <2>1, <2>3
  <1>3. /\ gone \in SUBSET others
        /\ V = {Slot(b) : b \in gone}
        /\ slots \ V = {Slot(b) : b \in kept}
    BY <1>2, SlotsOfKeys
  <1>4. /\ Cached' = kept \cup {k} /\ k \notin kept /\ kept \subseteq Blocks
        /\ \A b \in kept : entries'[b] = entries[b]
        /\ entries'[k] = new
    BY <1>1, <1>3 DEF Cached, TypeOK
  <1>5. held = Bytes[others] /\ others \in SUBSET Blocks
    <2>1. Cached \ (Cached \cap {k}) = others /\ Cached \cap {k} \in SUBSET Cached
      OBVIOUS
    <2>2. Cached \in SUBSET Blocks
      BY DEF TypeOK
    <2> QED BY <2>1, <2>2, BytesOfRest DEF CounterIsBytesHeld, UsedWithout
  <1>6. Bytes[{k}] \in Nat /\ Bytes[{k}] <= Limit
    <2>1. Bytes[{k}] \in Nat
      BY <1>4, BytesWithBlock
    <2>2. ~(Bytes[{k}] > Limit)
      BY DEF Insert, Refused
    <2> QED BY <2>1, <2>2, LimitAssumption
  <1>7. Bytes[kept] + Bytes[{k}] <= Limit
    BY <1>4, BytesWithBlock DEF WithinLimit
  <1>8. \A v \in gone, a \in kept : ~Lru!EvictedBefore(a, v)
    <2> SUFFICES ASSUME NEW v \in gone, NEW a \in kept
                 PROVE  ~Lru!EvictedBefore(a, v)
      OBVIOUS
    <2>1. Slot(v) \in V /\ Slot(a) \in slots \ V
      BY <1>3
    <2>2. Before(Slot(v), Slot(a))
      BY <1>1, <2>1 DEF IsEvicted
    <2> QED BY <1>3, <2>2, EvictionOrder
  <1>9. \A v \in gone :
          Bytes[{a \in others : ~Lru!EvictedBefore(a, v)}] + Bytes[{k}] > Limit
    <2> SUFFICES ASSUME NEW v \in gone
                 PROVE  Bytes[{a \in others : ~Lru!EvictedBefore(a, v)}]
                          + Bytes[{k}] > Limit
      OBVIOUS
    <2> DEFINE earlier == {s \in slots : Before(s, Slot(v))}
               first   == {a \in others : Lru!EvictedBefore(a, v)}
               rest    == {a \in others : ~Lru!EvictedBefore(a, v)}
    <2>1. held - Bytes[KeysOf(earlier)] + Bytes[{k}] > Limit
      <3>1. Slot(v) \in V
        BY <1>3
      <3> QED BY <1>1, <3>1 DEF IsEvicted
    <2>2. v \in Cached
      BY <1>3
    <2>3. \A a \in others : Before(Slot(a), Slot(v)) <=> Lru!EvictedBefore(a, v)
      BY <2>2, EvictionOrder
    <2>4. earlier = {Slot(a) : a \in first}
      BY <1>2, <2>3
    <2>5. KeysOf(earlier) = first
      <3> HIDE DEF first, earlier
      <3> QED BY <2>4, KeysOfSlots
    <2>6. rest = others \ first /\ first \in SUBSET others
      OBVIOUS
    <2>7. Bytes[rest] = held - Bytes[first]
      <3> HIDE DEF first, rest, held, others
      <3> QED BY <1>5, <2>6, BytesOfRest
    <2> QED BY <2>1, <2>5, <2>7
  <1>10. [b \in Cached' |-> entries'[b].category]
           = [b \in kept \cup {k} |-> IF b = k THEN c ELSE heldNow[b]]
    BY <1>4
  <1>11. {p \in Cached' \X Cached' : entries'[p[1]].recency < entries'[p[2]].recency}
           = Lru!UsedLast(k, kept)
    <2>1. nextRecency \in Nat
      BY RecencyAdvances DEF Insert
    <2>2. \A b \in kept : entries[b].recency \in Nat /\ entries[b].recency < nextRecency
      BY RecencyTypes DEF Ordered
    <2>3. kept \subseteq Cached /\ entries'[k].recency = nextRecency
      BY <1>4
    <2> HIDE DEF kept
    <2> QED BY <1>4, <2>1, <2>2, <2>3, NewestIsUsedLast
  <1>12. gone \in SUBSET (Lru!Live \ {k}) /\ others = Lru!Live \ {k}
    BY <1>3, LiveIsCached
  <1> HIDE DEF gone, others, heldNow
  <1>13. call' = Lru!Call("insert", k)
    BY DEF Insert, Call, Lru!Call
  <1> QED BY <1>6, <1>7, <1>8, <1>9, <1>10, <1>11, <1>12, <1>13 DEF Lru!Insert, heldNow

LEMMA InitRefines == Init => Lru!Init
  <1> SUFFICES ASSUME Init PROVE Lru!Init
    OBVIOUS
  <1>1. Cached = {}
    BY DEF Init, Cached
  <1>2. [k \in Cached |-> entries[k].category] = << >>
    BY <1>1
  <1>3. {p \in Cached \X Cached : entries[p[1]].recency < entries[p[2]].recency} = {}
    BY <1>1
  <1>4. call = Lru!Call("new", NoKey)
    BY DEF Init, Call, Lru!Call
  <1> QED BY <1>2, <1>3, <1>4 DEF Lru!Init

(* RangeCache is an exact LRU of eviction classes: each call of insert, get *)
(* and invalidate_identity that inserts, finds or drops blocks is that call *)
(* of the abstract cache, for any blocks, sizes and limit, until the 2^64th *)
(* use of the cache.                                                        *)
THEOREM CacheImplementsLru ==
    ASSUME Unwrapped
    PROVE  Spec => ImplementsLru
  <1>1. Bookkeeping /\ Ordered /\ Bookkeeping' /\ [Next]_vars => [Lru!Next]_(Lru!vars)
    <2> SUFFICES ASSUME Bookkeeping, Ordered, Bookkeeping', [Next]_vars
                 PROVE  [Lru!Next]_(Lru!vars)
      OBVIOUS
    <2>1. TypeOK
      BY DEF Bookkeeping
    <2>2. ASSUME NEW k \in Blocks, NEW c \in Categories, Insert(k, c)
          PROVE  Lru!Next
      BY <2>2, InsertRefines DEF Lru!Next, Categories
    <2>3. ASSUME NEW k \in Blocks, Hit(k)
          PROVE  Lru!Next
      BY <2>1, <2>3, HitRefines DEF Lru!Next
    <2>4. ASSUME NEW i \in Identities, InvalidateIdentity(i)
          PROVE  Lru!Next
      BY <2>4, InvalidateRefines DEF Lru!Next
    <2>5. CASE UNCHANGED vars
      <3>1. Cached' = Cached /\ entries' = entries /\ call' = call
        BY <2>5 DEF vars, Cached
      <3> QED BY <3>1 DEF Lru!vars
    <2> QED BY <2>2, <2>3, <2>4, <2>5 DEF Next
  <1> QED BY InitRefines, <1>1, OrderedHolds, PTL DEF Spec, ImplementsLru, Lru!Spec

-----------------------------------------------------------------------------
\* The paged reads: what the job thread answers.

LEMMA DivideBounds ==
    ASSUME NEW a \in Nat, NEW p \in Nat \ {0}
    PROVE  /\ a \div p \in Nat
           /\ (a \div p) * p <= a
           /\ a < (a \div p) * p + p
  OBVIOUS

\* The pages of a read that ends in the object cover it.
LEMMA PagesCover ==
    ASSUME NEW q \in Reads, Readable(q)
    PROVE  /\ Pages(q).from \in Nat /\ Pages(q).to \in Nat
           /\ Pages(q).from <= q.offset
           /\ q.offset + q.length <= Pages(q).to
  <1> DEFINE end   == q.offset + q.length
             last  == (end + PageSize - 1) \div PageSize
             first == q.offset \div PageSize
  <1>1. q.offset \in Nat /\ q.length \in Nat
    BY PageAssumption DEF Reads
  <1>2. end \in Nat /\ end <= ObjectSize /\ ObjectSize <= MaxWord
    BY <1>1, PageAssumption DEF Readable
  <1>3. first \in Nat /\ first * PageSize \in Nat /\ first * PageSize <= q.offset
    BY <1>1, DivideBounds, PageAssumption
  <1>4. last \in Nat /\ last * PageSize \in Nat /\ end <= last * PageSize
    <2>1. end + PageSize - 1 \in Nat
      BY <1>2, PageAssumption
    <2>2. /\ last \in Nat
          /\ end + PageSize - 1 < last * PageSize + PageSize
      BY <2>1, DivideBounds, PageAssumption
    <2>3. last * PageSize \in Nat
      BY <2>2, PageAssumption
    <2> HIDE DEF end, last
    <2> QED BY <2>2, <2>3, <1>2, PageAssumption
  <1>5. /\ Pages(q).from = first * PageSize
        /\ Pages(q).to = Smaller(Smaller(last * PageSize, MaxWord), ObjectSize)
    BY DEF Pages, Interval
  <1> HIDE DEF end, last, first
  <1>6. /\ Pages(q).to \in Nat
        /\ end <= Pages(q).to
    BY <1>2, <1>4, <1>5, PageAssumption DEF Smaller
  <1> QED BY <1>1, <1>3, <1>5, <1>6 DEF end

\* So the slice of its pages does not panic and is the read.
LEMMA SliceIsRead ==
    ASSUME NEW q \in Reads, Readable(q)
    PROVE  Slice(Pages(q), q) = Interval(q.offset, q.offset + q.length)
  <1>1. q.offset \in Nat /\ q.length \in Nat
    BY PageAssumption DEF Reads
  <1> DEFINE from == Pages(q).from
             to   == Pages(q).to
  <1>2. /\ from \in Nat /\ to \in Nat
        /\ from <= q.offset /\ q.offset + q.length <= to
    BY PagesCover
  <1>3. Slice(Pages(q), q) =
          IF (q.offset - from) + q.length > to - from THEN Panicked
          ELSE Interval(from + (q.offset - from), from + ((q.offset - from) + q.length))
    BY DEF Slice
  <1> HIDE DEF from, to
  <1>4. /\ ~((q.offset - from) + q.length > to - from)
        /\ from + (q.offset - from) = q.offset
        /\ from + ((q.offset - from) + q.length) = q.offset + q.length
    BY <1>1, <1>2
  <1> QED BY <1>3, <1>4

(* Each read is in one place: a reader without one has no answer, and one   *)
(* whose read is queued or fetched has a read and no answer, so a read      *)
(* cannot change under the job thread.  Every answer is the read's.         *)
PageTypes ==
    /\ metaWindow \in 0 .. ObjectSize
    /\ wanted \in [PageReaders -> Reads \cup {NoRead}]
    /\ DOMAIN answer = PageReaders
    /\ queue \in Seq(PageReaders)
    /\ fetching \in PageReaders \cup {Nobody}

PendingOnce ==
    /\ \A r \in PageReaders : Unasked(r) => answer[r] = NoAnswer
    /\ \A i \in DOMAIN queue :
         /\ ~Unasked(queue[i]) /\ answer[queue[i]] = NoAnswer
         /\ queue[i] # fetching
    /\ \A i, j \in DOMAIN queue : queue[i] = queue[j] => i = j
    /\ fetching # Nobody =>
         /\ ~Unasked(fetching) /\ answer[fetching] = NoAnswer
         /\ wanted[fetching].length # 0 /\ Readable(wanted[fetching])

PageInv == PageTypes /\ PendingOnce /\ AnswerIsAsked

LEMMA NoReadIsNone == NoRead \notin Reads
  <1> SUFFICES ASSUME NoRead \in Reads PROVE FALSE
    OBVIOUS
  <1>1. NoRead.length = MaxWord + 1 /\ NoRead.length \in 0 .. MaxWord
    BY DEF NoRead, Reads
  <1> QED BY <1>1, PageAssumption

\* A reader without a read asks for one.
LEMMA SubmitKeeps ==
    ASSUME PageInv, NEW r \in PageReaders, NEW q \in Reads, Unasked(r),
           SubmitPages(r, q), metaWindow' = metaWindow, fetching' = fetching
    PROVE  PageInv'
  <1> USE DEF PageInv, PageTypes
  <1>1. answer[r] = NoAnswer
    BY DEF PendingOnce
  <1>2. \A i \in DOMAIN queue : queue[i] \in PageReaders /\ queue[i] # r
    BY DEF PendingOnce
  <1>3. fetching # r
    <2>1. r # Nobody
      BY OpenerAssumption
    <2> QED BY <2>1 DEF PendingOnce
  <1>4. /\ wanted' \in [PageReaders -> Reads \cup {NoRead}]
        /\ wanted'[r] = q /\ q # NoRead
        /\ \A x \in PageReaders : x # r => wanted'[x] = wanted[x]
    BY NoReadIsNone DEF SubmitPages
  <1>5. /\ DOMAIN answer' = PageReaders
        /\ \A x \in PageReaders : x # r => answer'[x] = answer[x]
        /\ answer'[r] \in {NoAnswer, FailedAnswer}
    BY <1>1 DEF SubmitPages
  <1>6. \/ queue' = queue
        \/ queue' = Append(queue, r) /\ answer' = answer
    BY DEF SubmitPages
  <1>7. PageTypes'
    BY <1>4, <1>5, <1>6
  <1>8. AnswerIsAsked'
    BY <1>4, <1>5 DEF AnswerIsAsked
  <1>9. \A x \in PageReaders : wanted'[x] = NoRead => answer'[x] = NoAnswer
    BY <1>4, <1>5 DEF PendingOnce, Unasked
  <1>10. fetching' # Nobody =>
           /\ wanted'[fetching] # NoRead /\ answer'[fetching] = NoAnswer
           /\ wanted'[fetching].length # 0 /\ Readable(wanted[fetching])'
    BY <1>3, <1>4, <1>5 DEF PendingOnce, Unasked
  <1>11. /\ \A i \in DOMAIN queue' :
              /\ wanted'[queue'[i]] # NoRead /\ answer'[queue'[i]] = NoAnswer
              /\ queue'[i] # fetching
         /\ \A i, j \in DOMAIN queue' : queue'[i] = queue'[j] => i = j
    <2>1. CASE queue' = queue
      BY <1>2, <1>4, <1>5, <2>1 DEF PendingOnce, Unasked
    <2>2. CASE queue' = Append(queue, r) /\ answer' = answer
      <3>1. /\ DOMAIN queue = 1 .. Len(queue)
            /\ Len(queue) \in Nat
            /\ DOMAIN queue' = 1 .. Len(queue) + 1
            /\ queue'[Len(queue) + 1] = r
            /\ \A i \in DOMAIN queue : queue'[i] = queue[i]
        BY <2>2
      <3>2. \A i \in DOMAIN queue' : i \in DOMAIN queue \/ i = Len(queue) + 1
        BY <3>1
      <3>3. ASSUME NEW i \in DOMAIN queue'
            PROVE  /\ wanted'[queue'[i]] # NoRead /\ answer'[queue'[i]] = NoAnswer
                   /\ queue'[i] # fetching
        BY <1>1, <1>2, <1>3, <1>4, <2>2, <3>1, <3>2 DEF PendingOnce, Unasked
      <3>4. ASSUME NEW i \in DOMAIN queue', NEW j \in DOMAIN queue',
                   queue'[i] = queue'[j]
            PROVE  i = j
        BY <1>2, <3>1, <3>2, <3>4 DEF PendingOnce
      <3> QED BY <3>3, <3>4
    <2> QED BY <1>6, <2>1, <2>2
  <1>12. PendingOnce'
    BY <1>9, <1>10, <1>11 DEF PendingOnce, Unasked, Readable
  <1> QED BY <1>7, <1>8, <1>12

\* A reader takes its answer, or has asked for nothing.
LEMMA TakeKeeps ==
    ASSUME PageInv, NEW r \in PageReaders, answer[r] # NoAnswer \/ Unasked(r),
           wanted' = [wanted EXCEPT ![r] = NoRead],
           answer' = [answer EXCEPT ![r] = NoAnswer],
           metaWindow' \in 0 .. ObjectSize, queue' = queue, fetching' = fetching
    PROVE  PageInv'
  <1> USE DEF PageInv, PageTypes
  <1>1. /\ \A i \in DOMAIN queue : queue[i] \in PageReaders /\ queue[i] # r
        /\ fetching # r
    BY OpenerAssumption DEF PendingOnce, Unasked
  <1>2. /\ wanted'[r] = NoRead /\ answer'[r] = NoAnswer
        /\ \A x \in PageReaders : x # r => wanted'[x] = wanted[x] /\ answer'[x] = answer[x]
    OBVIOUS
  <1>3. PageTypes'
    OBVIOUS
  <1>4. AnswerIsAsked'
    BY <1>2 DEF AnswerIsAsked
  <1>5. PendingOnce'
    BY <1>1, <1>2 DEF PendingOnce, Unasked, Readable
  <1> QED BY <1>3, <1>4, <1>5

\* The first read of the queue leaves it.
LEMMA HeadLeaves ==
    ASSUME PageInv, queue # << >>, queue' = Tail(queue)
    PROVE  /\ Head1 \in PageReaders /\ ~Unasked(Head1)
           /\ wanted[Head1] \in Reads /\ answer[Head1] = NoAnswer
           /\ queue' \in Seq(PageReaders)
           /\ \A i \in DOMAIN queue' :
                /\ i + 1 \in DOMAIN queue /\ queue'[i] = queue[i + 1]
                /\ queue'[i] \in PageReaders /\ queue'[i] # Head1
           /\ \A i, j \in DOMAIN queue' : queue'[i] = queue'[j] => i = j
  <1> USE DEF PageInv, PageTypes
  <1>1. /\ Len(queue) \in Nat /\ Len(queue) # 0
        /\ DOMAIN queue = 1 .. Len(queue)
        /\ 1 \in DOMAIN queue /\ Head1 = queue[1]
    BY DEF Head1
  <1>2. /\ Head1 \in PageReaders /\ ~Unasked(Head1)
        /\ answer[Head1] = NoAnswer
    BY <1>1 DEF PendingOnce
  <1>3. wanted[Head1] \in Reads
    BY <1>2 DEF Unasked
  <1>4. /\ queue' \in Seq(PageReaders)
        /\ Len(queue') = Len(queue) - 1
        /\ DOMAIN queue' = 1 .. Len(queue) - 1
        /\ \A i \in 1 .. Len(queue) - 1 : queue'[i] = queue[i + 1]
    BY <1>1
  <1>5. \A i \in DOMAIN queue' :
           i \in Nat /\ i # 0 /\ i + 1 \in DOMAIN queue /\ queue'[i] = queue[i + 1]
    BY <1>1, <1>4
  <1>6. \A i \in DOMAIN queue' : queue'[i] \in PageReaders
    BY <1>5
  <1>7. \A i \in DOMAIN queue' : queue'[i] # Head1
    BY <1>1, <1>5 DEF PendingOnce
  <1>8. ASSUME NEW i \in DOMAIN queue', NEW j \in DOMAIN queue',
               queue'[i] = queue'[j]
        PROVE  i = j
    <2>1. i + 1 = j + 1
      BY <1>5, <1>8 DEF PendingOnce
    <2> QED BY <2>1, <1>5
  <1> QED BY <1>2, <1>3, <1>4, <1>5, <1>6, <1>7, <1>8

\* The job thread answers it,
LEMMA AnswerHeadKeeps ==
    ASSUME PageInv, queue # << >>, fetching = Nobody, NEW a, AnswerHead(a),
           \/ a = FailedAnswer
           \/ LET q == wanted[Head1] IN a = Interval(q.offset, q.offset + q.length)
    PROVE  PageInv'
  <1> USE DEF PageInv, PageTypes
  <1>1. queue' = Tail(queue)
    BY DEF AnswerHead
  <1>2. /\ Head1 \in PageReaders /\ ~Unasked(Head1)
        /\ queue' \in Seq(PageReaders)
        /\ \A i \in DOMAIN queue' :
             /\ i + 1 \in DOMAIN queue /\ queue'[i] = queue[i + 1]
             /\ queue'[i] \in PageReaders /\ queue'[i] # Head1
        /\ \A i, j \in DOMAIN queue' : queue'[i] = queue'[j] => i = j
    BY <1>1, HeadLeaves
  <1>3. /\ wanted' = wanted /\ fetching' = fetching /\ metaWindow' = metaWindow
        /\ DOMAIN answer' = PageReaders /\ answer'[Head1] = a
        /\ \A x \in PageReaders : x # Head1 => answer'[x] = answer[x]
    BY <1>2 DEF AnswerHead
  <1>4. PageTypes'
    BY <1>2, <1>3
  <1>5. AnswerIsAsked'
    BY <1>3 DEF AnswerIsAsked
  <1>6. PendingOnce'
    BY <1>2, <1>3 DEF PendingOnce, Unasked, Readable
  <1> QED BY <1>4, <1>5, <1>6

\* or takes it up, when it can be read,
LEMMA StartFetchKeeps ==
    ASSUME PageInv, StartFetch
    PROVE  PageInv'
  <1> USE DEF PageInv, PageTypes
  <1>1. /\ queue # << >> /\ queue' = Tail(queue) /\ fetching' = Head1
        /\ wanted' = wanted /\ answer' = answer /\ metaWindow' = metaWindow
        /\ wanted[Head1].length # 0 /\ Readable(wanted[Head1])
    BY DEF StartFetch, Ready, Missing
  <1>2. /\ Head1 \in PageReaders /\ ~Unasked(Head1)
        /\ answer[Head1] = NoAnswer
        /\ queue' \in Seq(PageReaders)
        /\ \A i \in DOMAIN queue' :
             /\ i + 1 \in DOMAIN queue /\ queue'[i] = queue[i + 1]
             /\ queue'[i] \in PageReaders /\ queue'[i] # Head1
        /\ \A i, j \in DOMAIN queue' : queue'[i] = queue'[j] => i = j
    BY <1>1, HeadLeaves
  <1>3. PageTypes' /\ AnswerIsAsked'
    BY <1>1, <1>2 DEF AnswerIsAsked
  <1>4. PendingOnce'
    BY <1>1, <1>2 DEF PendingOnce, Unasked, Readable
  <1> QED BY <1>3, <1>4

\* and answers it when its pages came or the request failed.
LEMMA EndFetchKeeps ==
    ASSUME PageInv, fetching # Nobody, NEW a, EndFetch(a),
           a \in {FailedAnswer, Slice(Pages(wanted[fetching]), wanted[fetching])}
    PROVE  PageInv'
  <1> USE DEF PageInv, PageTypes
  <1>1. /\ fetching \in PageReaders
        /\ wanted[fetching] \in Reads /\ Readable(wanted[fetching])
        /\ ~Unasked(fetching)
    BY DEF PendingOnce, Unasked
  <1>2. \/ a = FailedAnswer
        \/ LET q == wanted[fetching] IN a = Interval(q.offset, q.offset + q.length)
    BY <1>1, SliceIsRead
  <1>3. /\ wanted' = wanted /\ queue' = queue /\ metaWindow' = metaWindow
        /\ fetching' = Nobody
        /\ DOMAIN answer' = PageReaders /\ answer'[fetching] = a
        /\ \A x \in PageReaders : x # fetching => answer'[x] = answer[x]
    BY <1>1 DEF EndFetch
  <1>4. PageTypes'
    BY <1>3
  <1>5. AnswerIsAsked'
    BY <1>2, <1>3 DEF AnswerIsAsked
  <1>6. \A i \in DOMAIN queue : queue[i] \in PageReaders /\ queue[i] # fetching
    BY DEF PendingOnce
  <1>7. \A r \in PageReaders : r # Nobody
    BY OpenerAssumption
  <1>8. PendingOnce'
    BY <1>1, <1>3, <1>6, <1>7 DEF PendingOnce, Unasked, Readable
  <1> QED BY <1>4, <1>5, <1>8

\* The window stays a part of the object.
LEMMA WindowGrows ==
    ASSUME PageInv
    PROVE  Larger \in 0 .. ObjectSize /\ WindowRead \in Reads
  <1>1. metaWindow \in Nat /\ metaWindow <= ObjectSize /\ metaWindow * 2 \in Nat
    BY PageAssumption DEF PageInv, PageTypes
  <1>2. Larger \in 0 .. ObjectSize
    BY <1>1, PageAssumption, WindowAssumption DEF Larger, Smaller
  <1>3. WindowRead \in Reads
    BY <1>1, PageAssumption DEF WindowRead, Reads
  <1> QED BY <1>2, <1>3

LEMMA PagesInitInv == PagesInit => PageInv
  <1> SUFFICES ASSUME PagesInit PROVE PageInv
    OBVIOUS
  <1> USE DEF PagesInit
  <1>1. metaWindow \in 0 .. ObjectSize
    BY PageAssumption, WindowAssumption DEF Smaller
  <1>2. queue \in Seq(PageReaders) /\ DOMAIN queue = {}
    OBVIOUS
  <1>3. PageTypes
    BY <1>1, <1>2 DEF PageTypes
  <1>4. PendingOnce
    BY <1>2 DEF PendingOnce
  <1>5. AnswerIsAsked
    BY DEF AnswerIsAsked
  <1> QED BY <1>3, <1>4, <1>5 DEF PageInv

LEMMA PagesNextInv == PageInv /\ [PagesNext]_pageVars => PageInv'
  <1> SUFFICES ASSUME PageInv, [PagesNext]_pageVars PROVE PageInv'
    OBVIOUS
  <1>1. ASSUME NEW r \in PageReaders, NEW q \in Reads, AskChunk(r, q)
        PROVE  PageInv'
    BY <1>1, SubmitKeeps DEF AskChunk
  <1>2. metaWindow \in 0 .. ObjectSize
    BY DEF PageInv, PageTypes
  <1>3. ASSUME NEW r \in PageReaders, Take(r)
        PROVE  PageInv'
    BY <1>2, <1>3, TakeKeeps DEF Take
  <1>4. CASE AskWindow
    BY <1>4, SubmitKeeps, WindowGrows, OpenerAssumption DEF AskWindow
  <1>5. ASSUME NEW s, HasWindow, Settle(s), metaWindow' \in 0 .. ObjectSize
        PROVE  PageInv'
    BY <1>5, TakeKeeps, OpenerAssumption DEF Settle, HasWindow
  <1>6. CASE SourceOpened
    BY <1>2, <1>5, <1>6 DEF SourceOpened
  <1>7. CASE OpeningFailed
    <2>1. CASE HasWindow
      BY <1>2, <1>5, <1>7, <2>1 DEF OpeningFailed
    <2>2. CASE Unasked(Opener)
      BY <1>2, <1>7, <2>2, TakeKeeps, OpenerAssumption DEF OpeningFailed, Settle
    <2> QED BY <1>7, <2>1, <2>2 DEF OpeningFailed
  <1>8. CASE Enlarge
    BY <1>5, <1>8, WindowGrows DEF Enlarge
  <1>9. CASE ServeEmpty
    <2> DEFINE q == wanted[Head1]
    <2>1. /\ queue # << >> /\ fetching = Nobody
          /\ q.length = 0 /\ AnswerHead(Interval(q.offset, q.offset))
      BY <1>9 DEF ServeEmpty, Ready
    <2>2. q \in Reads
      BY <2>1, HeadLeaves DEF AnswerHead
    <2>3. q.offset + q.length = q.offset
      BY <2>1, <2>2, PageAssumption DEF Reads
    <2> HIDE DEF q
    <2>4. AnswerHead(Interval(q.offset, q.offset + q.length))
      BY <2>1, <2>3
    <2> QED BY <2>1, <2>4, AnswerHeadKeeps DEF q
  <1>10. CASE ServeInvalid
    BY <1>10, AnswerHeadKeeps DEF ServeInvalid, Ready
  <1>11. CASE ServeCached
    <2> DEFINE q == wanted[Head1]
    <2>1. /\ queue # << >> /\ fetching = Nobody
          /\ Readable(q) /\ AnswerHead(Slice(Pages(q), q))
      BY <1>11 DEF ServeCached, Ready
    <2>2. q \in Reads
      BY <2>1, HeadLeaves DEF AnswerHead
    <2>3. Slice(Pages(q), q) = Interval(q.offset, q.offset + q.length)
      BY <2>1, <2>2, SliceIsRead
    <2> QED BY <2>1, <2>3, AnswerHeadKeeps
  <1>12. CASE StartFetch
    BY <1>12, StartFetchKeeps
  <1>13. CASE FetchOk
    BY <1>13, EndFetchKeeps DEF FetchOk
  <1>14. CASE FetchFailed
    BY <1>14, EndFetchKeeps DEF FetchFailed
  <1>15. CASE UNCHANGED pageVars
    <2>1. UNCHANGED readVars
      BY <1>15 DEF pageVars
    <2> QED BY <2>1
            DEF readVars, PageInv, PageTypes, PendingOnce, AnswerIsAsked, Unasked, Readable
  <1> QED BY <1>1, <1>3, <1>4, <1>6, <1>7, <1>8, <1>9, <1>10, <1>11, <1>12, <1>13,
             <1>14, <1>15 DEF PagesNext, Opening, PageJob

LEMMA PageInvHolds == PagesSpec => []PageInv
  <1> QED BY PagesInitInv, PagesNextInv, PTL DEF PagesSpec

(* A reader gets exactly the interval of the object it asked for, for any   *)
(* sizes of object, page, request, window, cache and queue: the slice of    *)
(* the covering pages never panics, cut at the end of the object or not,    *)
(* and an answer is never another read's (RemoteByteSource::read).          *)
THEOREM PagesAnswerIsAsked == PagesSpec => []AnswerIsAsked
  <1>1. PageInv => AnswerIsAsked
    BY DEF PageInv
  <1> QED BY <1>1, PageInvHolds, PTL

(* The paged reads use the range cache only through its operations: every   *)
(* step is a step of RangeCache or leaves it alone, so what is proved of    *)
(* the cache holds while remote files are read through it.                  *)
THEOREM PagesUseTheCache == PagesSpec => Spec
  <1>1. PagesInit => Init
    BY DEF PagesInit
  <1>2. PageInv /\ [PagesNext]_pageVars => [Next]_vars
    <2> SUFFICES ASSUME PageInv, [PagesNext]_pageVars PROVE [Next]_vars
      OBVIOUS
    <2>1. CASE ServeCached
      <3> DEFINE q == wanted[Head1]
      <3>1. /\ queue # << >> /\ AnswerHead(Slice(Pages(q), q))
            /\ q.length # 0 /\ Readable(q) /\ Hit(Key(Pages(q)))
        BY <2>1 DEF ServeCached, Ready
      <3>2. q \in Reads
        BY <3>1, HeadLeaves DEF AnswerHead
      <3>3. Key(Pages(q)) \in Blocks
        BY <3>1, <3>2, KeyAssumption
      <3> QED BY <3>1, <3>3 DEF Next
    <2>2. CASE FetchOk
      <3> DEFINE q == wanted[fetching]
      <3>1. fetching # Nobody /\ Store(Key(Pages(q)))
        BY <2>2 DEF FetchOk
      <3>2. q \in Reads /\ q.length # 0 /\ Readable(q)
        BY <3>1 DEF PageInv, PageTypes, PendingOnce, Unasked
      <3>3. Key(Pages(q)) \in Blocks
        BY <3>2, KeyAssumption
      <3>4. "metadata" \in Categories
        BY DEF Categories, EvictionPriority
      <3> QED BY <3>1, <3>3, <3>4 DEF Store, Next
    <2>3. CASE UNCHANGED pageVars
      BY <2>3 DEF pageVars
    <2> QED BY <2>1, <2>2, <2>3
            DEF PagesNext, Opening, PageJob, AskChunk, Take, AskWindow, SourceOpened,
                OpeningFailed, Enlarge, Settle, ServeEmpty, ServeInvalid, StartFetch,
                FetchFailed
  <1> QED BY <1>1, <1>2, PageInvHolds, PTL DEF PagesSpec, Spec
=============================================================================
