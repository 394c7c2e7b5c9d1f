----------------------------- MODULE LruCache -----------------------------
(* What a size-bounded cache with eviction classes promises, with no        *)
(* bookkeeping: the blocks it holds with their categories, and which of two *)
(* held blocks was used longer ago.  RangeCache (src/storage/range_cache.rs)*)
(* keeps byte counters, an ordered index and a last-hit shortcut instead,   *)
(* and implements this.  The call a step answers is part of the state, so   *)
(* that no call can be answered by a step that leaves everything as it was: *)
(* repeated at once, each of them changes nothing here either.              *)
EXTENDS Naturals

CONSTANTS Blocks,      \* the blocks that may be cached
          Identities,  \* the object identities they belong to
          IdentityOf,  \* [Blocks -> Identities]
          Bytes,       \* [SUBSET Blocks -> Nat]: the bytes of a set of blocks
          Limit,       \* the bytes the cache may hold
          Priority,    \* category |-> eviction class, lowest evicted first
          Nothing      \* no call was made yet

VARIABLES held,        \* held block |-> its category
          older,       \* <<a, b>>: a was last used before b
          call         \* the last call: its name and its block or identity

vars == <<held, older, call>>

Call(name, of) == <<name, of>>

Live == DOMAIN held

\* a is evicted before b
EvictedBefore(a, b) ==
    \/ Priority[held[a]] < Priority[held[b]]
    \/ Priority[held[a]] = Priority[held[b]] /\ <<a, b>> \in older

Among(S) == {p \in older : p[1] \in S /\ p[2] \in S}

UsedLast(k, S) == Among(S \ {k}) \cup ((S \ {k}) \X {k})

Init == held = << >> /\ older = {} /\ call = Call("new", Nothing)

(* Evict the blocks that are evicted first, and no more of them than the    *)
(* new block needs; a block larger than the cache is refused.               *)
Insert(k, c) ==
    /\ Bytes[{k}] <= Limit
    /\ call' = Call("insert", k)
    /\ \E V \in SUBSET (Live \ {k}) :
         LET rest == (Live \ {k}) \ V IN
         /\ \A v \in V, a \in rest : ~EvictedBefore(a, v)
         /\ Bytes[rest] + Bytes[{k}] <= Limit
         /\ \A v \in V :
              LET notYetEvicted == {a \in Live \ {k} : ~EvictedBefore(a, v)}
              IN  Bytes[notYetEvicted] + Bytes[{k}] > Limit
         /\ held' = [b \in rest \cup {k} |-> IF b = k THEN c ELSE held[b]]
         /\ older' = UsedLast(k, rest)

Use(k) ==
    /\ k \in Live
    /\ older' = UsedLast(k, Live)
    /\ call' = Call("get", k)
    /\ UNCHANGED held

Drop(i) ==
    LET rest == {b \in Live : IdentityOf[b] # i} IN
    /\ held' = [b \in rest |-> held[b]]
    /\ older' = Among(rest)
    /\ call' = Call("invalidate", i)

Next ==
    \/ \E i \in Identities : Drop(i)
    \/ \E k \in Blocks : Use(k)
    \/ \E k \in Blocks, c \in DOMAIN Priority : Insert(k, c)

Spec == Init /\ [][Next]_vars
=============================================================================
