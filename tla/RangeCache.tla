---------------------------- MODULE RangeCache ----------------------------
(* The bounded range cache of src/storage/range_cache.rs: a map of blocks,  *)
(* a byte counter, an ordered index of eviction slots, a recency counter of *)
(* fixed width, and the shortcut that skips the index when the block hit    *)
(* last is hit again.  Each operation runs under the cache's mutex, so each *)
(* is one action.  A cache key (identity, start, end) is a number whose     *)
(* order is the key's order; its bytes are fixed by its interval, which     *)
(* RangeBlock::new checks.                                                  *)
EXTENDS Naturals, FiniteSets

CONSTANTS Blocks,           \* the cache keys that may be inserted
          Identities,       \* the cache tokens of object identities
          IdentityOf,       \* key |-> the token in it
          Bytes,            \* set of keys |-> the bytes of their blocks
          Limit,            \* RangeCache::limit
          RecencyModulus,   \* 2^64 in the code: next_recency wraps
          MaxRecency,       \* bound: no recency is taken at or above it
          NoKey             \* last_hit is None

ASSUME BlocksAssumption == Blocks \subseteq Nat /\ IsFiniteSet(Blocks)
ASSUME IdentityAssumption == IdentityOf \in [Blocks -> Identities]
ASSUME NoKeyAssumption == NoKey \notin Blocks
ASSUME LimitAssumption == Limit \in Nat
ASSUME RecencyAssumption == RecencyModulus \in Nat \ {0} /\ MaxRecency \in Nat
ASSUME BytesAssumption ==
    /\ Bytes \in [SUBSET Blocks -> Nat]
    /\ \A S, T \in SUBSET Blocks :
         S \cap T = {} => Bytes[S \cup T] = Bytes[S] + Bytes[T]

EvictionPriority ==
    [rendered |-> 0, decoded |-> 1, range |-> 2, index |-> 3, metadata |-> 4]

Categories == DOMAIN EvictionPriority

VARIABLES entries,      \* cached key |-> its category and recency
          lru,          \* the eviction slots <<class, recency, key>>
          used,         \* the bytes counted as held
          nextRecency,  \* the recency the next use gets
          lastHit,      \* the key inserted or hit last, or NoKey
          call          \* history: the last call that found or changed something

vars == <<entries, lru, used, nextRecency, lastHit, call>>

Call(name, of) == <<name, of>>

Cached == DOMAIN entries

Entry == [category : Categories, recency : 0 .. RecencyModulus - 1]

Slot(k) == <<EvictionPriority[entries[k].category], entries[k].recency, k>>

\* the BTreeSet's order of slots
Before(a, b) ==
    \/ a[1] < b[1]
    \/ a[1] = b[1] /\ a[2] < b[2]
    \/ a[1] = b[1] /\ a[2] = b[2] /\ a[3] < b[3]

KeysOf(slots) == {s[3] : s \in slots}

Init ==
    /\ entries = << >>
    /\ lru = {}
    /\ used = 0
    /\ nextRecency = 0
    /\ lastHit = NoKey
    /\ call = Call("new", NoKey)

TakeRecency ==
    /\ nextRecency < MaxRecency
    /\ nextRecency' = (nextRecency + 1) % RecencyModulus

(* The slots the loop of insert evicts: it takes the first slot as long as  *)
(* the new block does not fit, and ends when it fits or no slot is left.    *)
IsEvicted(V, slots, held, bytes) ==
    /\ \A v \in V, s \in slots \ V : Before(v, s)
    /\ \A v \in V :
         LET gone == {s \in slots : Before(s, v)}
         IN  held - Bytes[KeysOf(gone)] + bytes > Limit
    /\ \/ V = slots
       \/ held - Bytes[KeysOf(V)] + bytes <= Limit

\* the counter once insert has removed the block stored under k
UsedWithout(k) == used - Bytes[Cached \cap {k}]

Refused(k) == Bytes[{k}] > Limit

Insert(k, c) ==
    /\ ~Refused(k)
    /\ LET slots == lru \ {Slot(p) : p \in Cached \cap {k}}
           held  == UsedWithout(k)
           new   == [category |-> c, recency |-> nextRecency]
       IN \E V \in SUBSET slots :
            /\ IsEvicted(V, slots, held, Bytes[{k}])
            /\ used' = held - Bytes[KeysOf(V)] + Bytes[{k}]
            /\ lru' = (slots \ V)
                        \cup {<<EvictionPriority[c], nextRecency, k>>}
            /\ entries' = [b \in (Cached \ KeysOf(V)) \cup {k} |->
                             IF b = k THEN new ELSE entries[b]]
    /\ lastHit' = k
    /\ call' = Call("insert", k)
    /\ TakeRecency

\* Mutant: a hit leaves its block where it was, and the cache is a FIFO.
TouchForgotten(k) == UNCHANGED <<entries, lru, nextRecency>>

Touch(k) ==
    /\ TakeRecency
    /\ entries' = [entries EXCEPT ![k].recency = nextRecency]
    /\ lru' = (lru \ {Slot(k)})
                \cup {<<EvictionPriority[entries[k].category], nextRecency, k>>}

Hit(k) ==
    /\ k \in Cached
    /\ IF lastHit = k THEN UNCHANGED <<entries, lru, nextRecency>> ELSE Touch(k)
    /\ lastHit' = k
    /\ call' = Call("get", k)
    /\ UNCHANGED used

InvalidateIdentity(i) ==
    LET gone == {k \in Cached : IdentityOf[k] = i} IN
    /\ used' = used - Bytes[gone]
    /\ lru' = lru \ {Slot(k) : k \in gone}
    /\ entries' = [b \in Cached \ gone |-> entries[b]]
    /\ lastHit' = IF lastHit \in gone THEN NoKey ELSE lastHit
    /\ call' = Call("invalidate", i)
    /\ UNCHANGED nextRecency

Next ==
    \/ \E k \in Blocks, c \in Categories : Insert(k, c)
    \/ \E k \in Blocks : Hit(k)
    \/ \E i \in Identities : InvalidateIdentity(i)

Spec == Init /\ [][Next]_vars

-----------------------------------------------------------------------------
(* Types, with the recency counter kept in its width.                       *)
TypeOK ==
    /\ Cached \subseteq Blocks
    /\ entries \in [Cached -> Entry]
    /\ used \in Nat
    /\ nextRecency \in 0 .. RecencyModulus - 1
    /\ lastHit \in Cached \cup {NoKey}

(* The index holds exactly one slot for each cached block, under the        *)
(* category and recency its entry has now.  A slot without an entry would   *)
(* never be removed by remove_key, and insert's loop would spin on it with  *)
(* the cache locked; an entry without a slot could never be evicted.        *)
IndexMirrorsEntries == lru = {Slot(k) : k \in Cached}

(* The counter is the bytes really held: re-inserting a block, evicting and *)
(* invalidating never count a block twice or forget one.                    *)
CounterIsBytesHeld == used = Bytes[Cached]

(* The cache never holds more than its limit.                               *)
WithinLimit == Bytes[Cached] <= Limit

(* The shortcut is sound: the block hit last is the most recently used of   *)
(* all, so leaving its recency alone when it is hit again loses nothing.    *)
LastHitIsNewest ==
    lastHit # NoKey =>
        \A k \in Cached \ {lastHit} : entries[k].recency < entries[lastHit].recency

(* The bookkeeping of the cache, whatever is inserted, hit and invalidated  *)
(* in which order: one slot per block, every byte counted once, the limit   *)
(* kept.  It is inductive: eviction reads index and counter to decide.      *)
Bookkeeping ==
    TypeOK /\ IndexMirrorsEntries /\ CounterIsBytesHeld /\ WithinLimit

Lru == INSTANCE LruCache WITH
    Priority <- EvictionPriority,
    Nothing <- NoKey,
    held  <- [k \in Cached |-> entries[k].category],
    older <- {p \in Cached \X Cached :
                entries[p[1]].recency < entries[p[2]].recency}

(* The cache is an exact LRU of eviction classes: every call that inserts,  *)
(* finds or drops blocks does to the blocks and to their order of use what  *)
(* the same call does in the abstract cache - a hit makes its block the     *)
(* newest, whether get touches it or takes the shortcut - and no other step *)
(* changes either.  It is claimed up to the wrap of the recency counter.    *)
ImplementsLru == Lru!Spec

=============================================================================
