------------------------------ MODULE LruCache ------------------------------
(***************************************************************************)
(* The cache of VidModelSelector: a map and the list of its keys, the most *)
(* recently used one first.  The class takes no lock of its own.           *)
(***************************************************************************)
EXTENDS Integers, Sequences, FiniteSets

CONSTANT CacheSize   \* LruCache::cache_size
ASSUME CacheSizeAssumption == CacheSize \in Nat \ {0}

VARIABLES
  cache_data,        \* LruCache::cache_data, a function on the keys held
  access_order       \* LruCache::access_order

lruVars == <<cache_data, access_order>>

Held(key) == key \in DOMAIN cache_data

Listed(order, key) == \E p \in DOMAIN order : order[p] = key

Position(order, key) ==
  CHOOSE p \in DOMAIN order :
    order[p] = key /\ \A q \in DOMAIN order : order[q] = key => p <= q

\* Erases the first entry of the key and puts the key in front.
MoveToFront(order, key) ==
  LET p == Position(order, key)
  IN  [ i \in DOMAIN order |->
          IF i = 1 THEN key ELSE IF i <= p THEN order[i - 1] ELSE order[i] ]

LruInit ==
  /\ cache_data = [k \in {} |-> {}]
  /\ access_order = <<>>

\* Fault: a hit does not count as a use.
GetWithoutTouch(key) ==
  /\ Held(key)
  /\ UNCHANGED lruVars

\* LruCache::Get of a key that the cache holds.  A miss changes nothing.
Get(key) ==
  /\ Held(key)
  /\ access_order' = IF Listed(access_order, key)
                     THEN MoveToFront(access_order, key) ELSE access_order
  /\ UNCHANGED cache_data

Full == Cardinality(DOMAIN cache_data) >= CacheSize

Evicted == IF Full THEN {access_order[Len(access_order)]} ELSE {}

\* LruCache::Add: evicts the last key of the list when the cache is full.
\* It does not look whether the key is there already.
Add(key, value) ==
  LET kept  == DOMAIN cache_data \ Evicted
      order == IF Full THEN SubSeq(access_order, 1, Len(access_order) - 1)
               ELSE access_order
  IN  /\ cache_data' = [ k \in kept \cup {key} |->
                           IF k = key THEN value ELSE cache_data[k] ]
      /\ access_order' = <<key>> \o order
=============================================================================
