---------------------------- MODULE IODictionary ----------------------------
(***************************************************************************)
(* The hash table of src/libkernel/libio/IODictionary.cpp.                 *)
(*                                                                         *)
(* _buckets is an array of _capacity chains; a key goes to the chain at    *)
(* hash % _capacity and a new bucket is pushed at the head of its chain.   *)
(* Removing a key only clears its bucket (key and object set to 0); such   *)
(* a dead bucket stays in its chain until a rehash drops it.  _capacity    *)
(* moves along the table __IODictionaryCapacity: up when _count reaches    *)
(* __IODictionaryMaxCount of the current size, down when it falls to that  *)
(* of the next smaller size.  The dictionary holds one reference to every  *)
(* key and object of a live bucket; its subclass __IOPointerDictionary     *)
(* (lines 318-391) stores raw pointers and holds a reference on the key   *)
(* only.  free() releases what the live buckets hold and the table is     *)
(* gone: no operation follows it.                                          *)
(*                                                                         *)
(* Dictionaries are not locked; their users serialise access, so the      *)
(* operations are atomic steps.  IOMalloc and `new` may fail: a failed     *)
(* bucket allocation leaves the table alone, a failed rehash keeps the old *)
(* array.  Keys are model values whose hash is the constant Hash and which *)
(* are isEqual exactly when identical.  A fresh array from IOMalloc is     *)
(* taken to be zeroed.                                                     *)
(***************************************************************************)
EXTENDS Integers, Sequences, SequencesExt, FiniteSets

CONSTANTS
    Keys,          \* key objects
    Objects,       \* value objects
    NoObject,      \* the null pointer 0
    Hash,          \* key -> key->hash()
    MaxBuckets,    \* bound on the buckets in the table, live and dead
    AllocCanFail,  \* whether IOMalloc and new may return 0
    Requested      \* the capacities callers pass to withCapacity

ASSUME Hash \in [Keys -> Nat] /\ MaxBuckets \in Nat /\ AllocCanFail \in BOOLEAN

(* The first entries of __IODictionaryCapacity and __IODictionaryMaxCount *)
(* (lines 28-42); the code's index i is entry i + 1 here.  The entries     *)
(* past these exceed TLC's integers and MaxBuckets keeps the table below.  *)
Capacity == <<5, 11, 23, 41>>
MaxCount == <<4, 8, 17, 29>>

ASSUME \A c \in Requested : c \in Nat /\ c < Capacity[Len(Capacity)]

Classes == {"IODictionary", "__IOPointerDictionary"}

VARIABLES
    class,  \* the dictionary's class
    dict,   \* [capacity |-> _capacity, buckets |-> _buckets, count |-> _count]
    refs,   \* object or key -> the references the dictionary holds on it
    freed,     \* free() has run
    panicked   \* the kernel has panicked inside a dictionary call

vars == <<class, dict, refs, freed, panicked>>

Bucket == [key : Keys \cup {NoObject}, object : Objects \cup {NoObject}]
DeadBucket == [key |-> NoObject, object |-> NoObject]

AllocOutcomes == IF AllocCanFail THEN {TRUE, FALSE} ELSE {TRUE}

(* initWithCapacity, lines 81-88: the size before the first one larger   *)
(* than the request, never less than the smallest.  The i == 41 arm is    *)
(* past the table kept here; the ASSUME keeps requests below it.           *)
CapacityFor(c) ==
    LET larger == {i \in 2..Len(Capacity) : Capacity[i] > c}
    IN Capacity[(CHOOSE i \in larger : \A j \in larger : i <= j) - 1]

(* A dictionary made by init() or withCapacity(c) whose IOMalloc          *)
(* succeeded (a failed one is released and never used): every chain       *)
(* empty, nothing counted.                                                 *)
Init ==
    /\ class \in Classes
    /\ \E cap \in {Capacity[1]} \cup {CapacityFor(c) : c \in Requested} :
          dict = [capacity |-> cap, buckets |-> [x \in 0..cap - 1 |-> <<>>], count |-> 0]
    /\ refs = [x \in Keys \cup Objects |-> 0]
    /\ freed = FALSE
    /\ panicked = FALSE

Index(k, cap) == Hash[k] % cap

Chain(d, k) == d.buckets[Index(k, d.capacity)]

(* Mutant of FindBucket1: the key comparison dropped, the chain's head *)
(* is taken.                                                           *)
FindBucket1AnyKey(d, k) == IF Chain(d, k) = <<>> THEN 0 ELSE 1

(* findBucket1: the position of the live bucket of k in its chain, or 0. *)
FindBucket1(d, k) ==
    LET hits == {p \in DOMAIN Chain(d, k) : Chain(d, k)[p].key = k}
    IN IF hits = {} THEN 0 ELSE CHOOSE p \in hits : \A q \in hits : p <= q

(* objectForKey *)
ObjectForKey(d, k) ==
    IF FindBucket1(d, k) = 0 THEN NoObject ELSE Chain(d, k)[FindBucket1(d, k)].object

(* findBucket2: the chain of k, with a fresh bucket (key k, no object)   *)
(* pushed at its head when k has no live bucket.                         *)
FindBucket2(d, k) ==
    IF FindBucket1(d, k) = 0 THEN <<[key |-> k, object |-> NoObject]>> \o Chain(d, k)
    ELSE Chain(d, k)

(* The buckets in the order rehash visits them: chain by chain, head first. *)
Visit(d) == FlattenSeq([i \in 1..d.capacity |-> d.buckets[i - 1]])

(* Mutant of Rehash: the walk does not follow `next`, so only the head of *)
(* each chain is re-added.                                                *)
RehashHeadsOnly(d, cap) ==
    LET heads == SelectSeq([i \in 1..d.capacity |-> d.buckets[i - 1]], LAMBDA c : c # <<>>)
        live == SelectSeq([i \in 1..Len(heads) |-> heads[i][1]], LAMBDA b : b.key # NoObject)
    IN [d EXCEPT !.capacity = cap,
                 !.buckets = [x \in 0..cap - 1 |->
                                Reverse(SelectSeq(live, LAMBDA b : Index(b.key, cap) = x))]]

(* rehash with a successful IOMalloc: every live bucket is pushed onto the *)
(* head of its new chain in visiting order, dead buckets are deleted.      *)
Rehash(d, cap) ==
    LET live == SelectSeq(Visit(d), LAMBDA b : b.key # NoObject)
    IN [d EXCEPT !.capacity = cap,
                 !.buckets = [x \in 0..cap - 1 |->
                                Reverse(SelectSeq(live, LAMBDA b : Index(b.key, cap) = x))]]

(* The code's table index of the current capacity. *)
SizeIndex(d) == CHOOSE i \in DOMAIN Capacity : Capacity[i] = d.capacity

(* expandIfNeeded; `ok` is whether rehash's IOMalloc succeeds. *)
ExpandIfNeeded(d, ok) ==
    LET i == SizeIndex(d)
    IN IF d.count >= MaxCount[i] /\ i + 1 \in DOMAIN Capacity /\ ok
       THEN Rehash(d, Capacity[i + 1]) ELSE d

(* shrinkIfNeeded.  Its loop starts at the second size and has no break,  *)
(* but after a rehash no later size equals the new capacity, so at most   *)
(* one rehash happens.                                                    *)
ShrinkIfNeeded(d, ok) ==
    LET i == SizeIndex(d)
    IN IF i > 1 /\ d.count <= MaxCount[i - 1] /\ ok
       THEN Rehash(d, Capacity[i - 1]) ELSE d

(* Mutant of RefsAfterReplace: the old object is not released. *)
RefsAfterReplaceNoRelease(r, old, o, k) ==
    [r EXCEPT ![o] = @ + 1, ![k] = @ + 1, ![old.key] = @ - 1]

(* setObjectForKey, lines 264-273: retain the new object and key, release *)
(* those of a bucket that already held an object.                         *)
RefsAfterReplace(r, old, o, k) ==
    IF old.object = NoObject THEN [r EXCEPT ![o] = @ + 1, ![k] = @ + 1]
    ELSE [r EXCEPT ![o] = @ + 1, ![k] = @ + 1, ![old.object] = @ - 1, ![old.key] = @ - 1]

(* __IOPointerDictionary::setPointerForKey, lines 356-362: only the key  *)
(* is retained, and only the old key released.                            *)
PointerRefsAfterReplace(r, old, k) ==
    IF old.object = NoObject THEN [r EXCEPT ![k] = @ + 1]
    ELSE [r EXCEPT ![k] = @ + 1, ![old.key] = @ - 1]

(* The bucket a set of k writes: its live bucket, else the pushed one. *)
OldBucket(d, k) == FindBucket2(d, k)[IF FindBucket1(d, k) = 0 THEN 1 ELSE FindBucket1(d, k)]

(* The table after a set of k to o (lines 261-279): findBucket2, store,   *)
(* count a bucket that held nothing, expandIfNeeded.                      *)
Stored(d, k, o, ok) ==
    LET p == FindBucket1(d, k)
        q == IF p = 0 THEN 1 ELSE p
    IN ExpandIfNeeded([d EXCEPT !.buckets[Index(k, d.capacity)] =
                                  [FindBucket2(d, k) EXCEPT ![q] = [key |-> k, object |-> o]],
                                !.count = @ + (IF OldBucket(d, k).object = NoObject THEN 1 ELSE 0)],
                      ok)

(* The table after a remove of k (lines 285-294): the bucket is cleared,  *)
(* not unlinked, the count lowered, shrinkIfNeeded.                       *)
Cleared(d, k, ok) ==
    ShrinkIfNeeded([d EXCEPT !.buckets[Index(k, d.capacity)][FindBucket1(d, k)] = DeadBucket,
                             !.count = @ - 1], ok)

(* removeObjectForKey; a key that is not present changes nothing. *)
RemoveObjectForKey(k) ==
    /\ ~freed /\ ~panicked /\ class = "IODictionary"
    /\ \E ok \in AllocOutcomes :
          LET b == Chain(dict, k)[FindBucket1(dict, k)]
          IN IF FindBucket1(dict, k) = 0 THEN UNCHANGED vars
             ELSE /\ refs' = [refs EXCEPT ![b.key] = @ - 1, ![b.object] = @ - 1]
                  /\ dict' = Cleared(dict, k, ok)
                  /\ UNCHANGED <<class, freed, panicked>>

(* __IOPointerDictionary::removePointerForKey: releases the key only. *)
RemovePointerForKey(k) ==
    /\ ~freed /\ ~panicked /\ class = "__IOPointerDictionary"
    /\ \E ok \in AllocOutcomes :
          IF FindBucket1(dict, k) = 0 THEN UNCHANGED vars
          ELSE /\ refs' = [refs EXCEPT ![k] = @ - 1]
               /\ dict' = Cleared(dict, k, ok)
               /\ UNCHANGED <<class, freed, panicked>>

(* setObjectForKey: no object means removeObjectForKey; otherwise find or *)
(* push the bucket, retain and release, store, count and expand.  A       *)
(* failed `new` returns 0 and the call does nothing.                      *)
SetObjectForKey(o, k) ==
    /\ ~freed /\ ~panicked /\ class = "IODictionary"
    /\ IF o = NoObject THEN RemoveObjectForKey(k)
       ELSE \E newOk, ok \in AllocOutcomes :
              /\ FindBucket1(dict, k) = 0 => Len(Visit(dict)) < MaxBuckets
              /\ IF FindBucket1(dict, k) = 0 /\ ~newOk THEN UNCHANGED vars
                 ELSE /\ refs' = RefsAfterReplace(refs, OldBucket(dict, k), o, k)
                      /\ dict' = Stored(dict, k, o, ok)
                      /\ UNCHANGED <<class, freed, panicked>>

(* __IOPointerDictionary::setPointerForKey, the same with the pointer    *)
(* reference counting.  A NULL pointer goes to removeObjectForKey (line   *)
(* 349), which this class overrides with a panic (lines 399-402): the     *)
(* kernel halts and no dictionary call follows.                           *)
SetPointerForKey(o, k) ==
    /\ ~freed /\ ~panicked /\ class = "__IOPointerDictionary"
    /\ IF o = NoObject THEN /\ panicked' = TRUE
                             /\ UNCHANGED <<class, dict, refs, freed>>
       ELSE \E newOk, ok \in AllocOutcomes :
              /\ FindBucket1(dict, k) = 0 => Len(Visit(dict)) < MaxBuckets
              /\ IF FindBucket1(dict, k) = 0 /\ ~newOk THEN UNCHANGED vars
                 ELSE /\ refs' = PointerRefsAfterReplace(refs, OldBucket(dict, k), k)
                      /\ dict' = Stored(dict, k, o, ok)
                      /\ UNCHANGED <<class, freed, panicked>>

(* The live buckets, in visiting order. *)
LiveBuckets(d) == SelectSeq(Visit(d), LAMBDA b : b.key # NoObject)

(* The references the live buckets of d hold on x, key and object. *)
LiveRefs(d, x) == Len(SelectSeq(LiveBuckets(d), LAMBDA b : b.key = x \/ b.object = x))

(* IODictionary::free: every chain walked, the key and object of each     *)
(* live bucket released, the buckets and the array freed.                 *)
Free ==
    /\ ~freed /\ ~panicked /\ class = "IODictionary"
    /\ refs' = [x \in DOMAIN refs |-> refs[x] - LiveRefs(dict, x)]
    /\ freed' = TRUE
    /\ UNCHANGED <<class, dict, panicked>>

(* __IOPointerDictionary::free: the same, releasing the keys only. *)
PointerFree ==
    /\ ~freed /\ ~panicked /\ class = "__IOPointerDictionary"
    /\ refs' = [x \in DOMAIN refs |-> IF x \in Keys THEN refs[x] - LiveRefs(dict, x) ELSE refs[x]]
    /\ freed' = TRUE
    /\ UNCHANGED <<class, dict, panicked>>

Next ==
    \/ \E k \in Keys :
          \/ \E o \in Objects \cup {NoObject} : SetObjectForKey(o, k) \/ SetPointerForKey(o, k)
          \/ RemoveObjectForKey(k)
          \/ RemovePointerForKey(k)
    \/ Free
    \/ PointerFree

Spec == Init /\ [][Next]_vars

-----------------------------------------------------------------------------
(* Properties                                                              *)

TypeOK ==
    /\ class \in Classes /\ freed \in BOOLEAN /\ panicked \in BOOLEAN
    /\ dict.capacity \in {Capacity[i] : i \in DOMAIN Capacity}
    /\ DOMAIN dict.buckets = 0..dict.capacity - 1
    /\ \A x \in DOMAIN dict.buckets : dict.buckets[x] \in Seq(Bucket)
    /\ dict.count \in 0..MaxBuckets
    /\ refs \in [Keys \cup Objects -> Nat]

(* The counters agree with the buckets after any sequence of sets,        *)
(* replacements, removals, grows and shrinks: _count is the number of     *)
(* live buckets, the dictionary holds exactly one reference per live      *)
(* bucket on its key and on its object (on its key alone for a pointer    *)
(* dictionary), and none at all once freed, a key has at most one live    *)
(* bucket, and it sits in the chain its hash selects at the current       *)
(* capacity.                                                              *)
BookkeepingMatchesBuckets ==
    LET live == LiveBuckets(dict)
    IN /\ dict.count = Len(live)
       /\ \A x \in Keys \cup Objects :
            refs[x] = IF freed \/ (x \in Objects /\ class = "__IOPointerDictionary") THEN 0
                      ELSE LiveRefs(dict, x)
       /\ \A k \in Keys : Len(SelectSeq(live, LAMBDA b : b.key = k)) <= 1
       /\ \A x \in DOMAIN dict.buckets : \A p \in DOMAIN dict.buckets[x] :
            dict.buckets[x][p].key # NoObject => Index(dict.buckets[x][p].key, dict.capacity) = x

(* The table behaves as a map (the object runtime's contract, spec line   *)
(* 12): what objectForKey (pointerForKey) returns for every key changes   *)
(* only as a set or remove of that key says, whatever rehashing does      *)
(* underneath, until free() empties it.                                   *)
KM == INSTANCE KeyedMap
        WITH map <- [k \in Keys |-> IF freed THEN NoObject ELSE ObjectForKey(dict, k)], freed <- freed
ImplementsKeyedMap == KM!Spec

=============================================================================
