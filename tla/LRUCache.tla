------------------------------ MODULE LRUCache ------------------------------
(***************************************************************************)
(* kcache::LRUCache (src/src/include/kcache/cache.h and                    *)
(* src/src/cache/lru.cpp): a list of entries, newest first, an index from  *)
(* keys to list nodes, and a running count of the bytes held.  Every       *)
(* operation runs under mtx_ from its first line to its last, so each is   *)
(* one action.                                                             *)
(*                                                                         *)
(* The node an iterator points at is the entry with its key, so the index  *)
(* is modelled by its set of keys.                                         *)
(***************************************************************************)
EXTENDS Integers, FiniteSets, SequencesExt

CONSTANTS
    Keys,           \* the keys
    Values,         \* the values (ByteViews)
    KeyLen,         \* KeyLen[k]: key.size()
    ValLen,         \* ValLen[v]: value.Len()
    Capacities,     \* the byte counts a cache may be created with (int64_t)
    IntMod,         \* the number of values of int: 2^32 in the code
    HasEvictedFunc  \* whether an eviction callback is installed

ASSUME LengthAssumption == KeyLen \in [Keys -> Nat] /\ ValLen \in [Values -> Nat]
ASSUME CapacityAssumption == Capacities \subseteq Int /\ IntMod \in Nat \ {0}

VARIABLES
    capacity,   \* the byte count the creator asked for
    max_bytes_, \* the limit the cache works with
    list_,      \* the entries, most recently used first
    cache_,     \* the keys of the index
    bytes_,     \* the running byte count
    evicted     \* the entries the last operation gave to evicted_func_, in order

lruVars == <<capacity, max_bytes_, list_, cache_, bytes_, evicted>>

Entry == [key : Keys, value : Values]

\* The constructor takes int, its caller passes int64_t: the value wraps.
Narrow(n) == ((n + IntMod \div 2) % IntMod) - IntMod \div 2

Size(e) == KeyLen[e.key] + ValLen[e.value]
KeysOf(s) == {e.key : e \in Range(s)}

\* The bytes of the entries E, told apart, and how many those of s are, no two
\* of which are the same.
Bytes(E) == UNION {{e} \X (1..Size(e)) : e \in E}
Weight(s) == Cardinality(Bytes(Range(s)))

\* The node the index has for k, its value, and the list without it.
Node(k) == CHOOSE i \in DOMAIN list_ : list_[i].key = k
ValueOf(k) == list_[Node(k)].value
Without(k) == IF k \in cache_ THEN RemoveAt(list_, Node(k)) ELSE list_

\* A bug: only the last victim of a chain is reported.
CallbacksForLast(s) == IF HasEvictedFunc /\ s # <<>> THEN <<Last(s)>> ELSE <<>>
Callbacks(s) == IF HasEvictedFunc THEN s ELSE <<>>

\* A bug: "if" instead of "while".
KeptByIf(s, b) ==
    IF max_bytes_ # 0 /\ b > max_bytes_ /\ s # <<>> THEN Len(s) - 1 ELSE Len(s)

\* How many of the entries s, which count b bytes, the loop of lines 36-38 keeps:
\* it drops the oldest until the bytes fit or nothing is left.
Kept(s, b) ==
    Max({n \in 0..Len(s) :
            \/ n = 0
            \/ max_bytes_ = 0
            \/ b - Weight(SubSeq(s, n + 1, Len(s))) <= max_bytes_})

LRUInit ==
    /\ capacity \in Capacities
    /\ max_bytes_ = Narrow(capacity)
    /\ list_ = <<>>
    /\ cache_ = {}
    /\ bytes_ = 0
    /\ evicted = <<>>

-----------------------------------------------------------------------------
(* Get of a key that is not there returns nothing and changes nothing.     *)
Miss(k) ==
    /\ k \notin cache_
    /\ evicted' = <<>>
    /\ UNCHANGED <<capacity, max_bytes_, list_, cache_, bytes_>>

\* A bug: a hit does not refresh the entry.
HitInPlace(k) ==
    /\ k \in cache_
    /\ evicted' = <<>>
    /\ UNCHANGED <<capacity, max_bytes_, list_, cache_, bytes_>>

(* Get of a key that is there moves its entry to the front.                *)
Hit(k) ==
    /\ k \in cache_
    /\ list_' = <<[key |-> k, value |-> ValueOf(k)]>> \o Without(k)
    /\ evicted' = <<>>
    /\ UNCHANGED <<capacity, max_bytes_, cache_, bytes_>>

(* Set puts the entry in front and then evicts from the back.              *)
Set(k, v) ==
    LET filled == <<[key |-> k, value |-> v]>> \o Without(k)
        counted == bytes_ + (IF k \in cache_ THEN ValLen[v] - ValLen[ValueOf(k)]
                                             ELSE KeyLen[k] + ValLen[v])
        dropped == SubSeq(filled, Kept(filled, counted) + 1, Len(filled))
    IN  /\ list_' = SubSeq(filled, 1, Kept(filled, counted))
        /\ cache_' = (cache_ \cup {k}) \ KeysOf(dropped)
        /\ bytes_' = counted - Weight(dropped)
        /\ evicted' = Callbacks(Reverse(dropped))
        /\ UNCHANGED <<capacity, max_bytes_>>

\* A bug: the bytes of the key stay counted.
DeleteKeepsKeyBytes(k) ==
    /\ k \in cache_
    /\ list_' = Without(k)
    /\ cache_' = cache_ \ {k}
    /\ bytes_' = bytes_ - ValLen[ValueOf(k)]
    /\ evicted' = Callbacks(<<[key |-> k, value |-> ValueOf(k)]>>)
    /\ UNCHANGED <<capacity, max_bytes_>>

\* A bug: the iterator of the entry stays in the index.
DeleteKeepsIterator(k) ==
    /\ k \in cache_
    /\ list_' = Without(k)
    /\ bytes_' = bytes_ - (KeyLen[k] + ValLen[ValueOf(k)])
    /\ evicted' = Callbacks(<<[key |-> k, value |-> ValueOf(k)]>>)
    /\ UNCHANGED <<capacity, max_bytes_, cache_>>

(* Delete of a key that is there; the callback fires here too.             *)
Delete(k) ==
    /\ k \in cache_
    /\ list_' = Without(k)
    /\ cache_' = cache_ \ {k}
    /\ bytes_' = bytes_ - (KeyLen[k] + ValLen[ValueOf(k)])
    /\ evicted' = Callbacks(<<[key |-> k, value |-> ValueOf(k)]>>)
    /\ UNCHANGED <<capacity, max_bytes_>>

(* Delete of a key that is not there returns at once.                      *)
DeleteAbsent(k) == Miss(k)

(* The public RemoveOldest, which takes no lock itself.                    *)
RemoveOldest ==
    /\ list_ # <<>>
    /\ list_' = Front(list_)
    /\ cache_' = cache_ \ {Last(list_).key}
    /\ bytes_' = bytes_ - Size(Last(list_))
    /\ evicted' = Callbacks(<<Last(list_)>>)
    /\ UNCHANGED <<capacity, max_bytes_>>

LRUNext ==
    \/ \E k \in Keys :
        \/ Miss(k) \/ Hit(k)
        \/ Delete(k) \/ DeleteAbsent(k)
        \/ \E v \in Values : Set(k, v)
    \/ RemoveOldest

LRUSpec == LRUInit /\ [][LRUNext]_lruVars

-----------------------------------------------------------------------------
(* The type invariant.  The index and the list agree: every indexed key    *)
(* has exactly one node and every node is indexed, so that no iterator of  *)
(* the index dangles.                                                      *)
LRUTypeOK ==
    /\ capacity \in Capacities
    /\ max_bytes_ \in -(IntMod \div 2) .. IntMod - IntMod \div 2 - 1
    /\ list_ \in Seq(Entry)
    /\ cache_ \subseteq Keys /\ cache_ = KeysOf(list_)
    /\ \A i, j \in DOMAIN list_ : list_[i].key = list_[j].key => i = j
    /\ bytes_ \in Int
    /\ evicted \in Seq(Entry)

(* The running count agrees with the entries held, through overwrites by   *)
(* longer and shorter values, deletions and chains of evictions: a drift   *)
(* would make the cache evict too early or never.                          *)
BytesExact == bytes_ = Weight(list_)

(* Between operations the cache is within its limit, the capacity narrowed *)
(* to an int, where 0 means none.                                          *)
WithinLimit == max_bytes_ # 0 => list_ = <<>> \/ bytes_ <= max_bytes_
=============================================================================
