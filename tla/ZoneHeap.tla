------------------------------ MODULE ZoneHeap ------------------------------
(***************************************************************************)
(* The zone heap of src/lib/libc/sys/zone.c.                               *)
(*                                                                         *)
(* A heap is a list of zones, newest first (firstZone/next).  A zone is a  *)
(* run of data pages of one size class plus a metadata page holding a      *)
(* fixed array of allocation records.  Every operation runs under the      *)
(* heap spin-lock, so alloc and free are single atomic steps here; the     *)
(* callers (any number of threads) are the nondeterministic choice of the  *)
(* next step.                                                              *)
(*                                                                         *)
(* Addresses are zone-relative: a pointer is a zone id (the mmap'ed base,  *)
(* a model value) and an offset from zone->begin.  Zones are disjoint      *)
(* mappings and begin is page aligned, so nothing the code computes is     *)
(* lost.  A record's offset stands for the tiny record's `offset` and for  *)
(* the regular record's `pointer - begin`.                                 *)
(***************************************************************************)
EXTENDS Integers, Sequences, FiniteSets, FiniteSetsExt

CONSTANTS
    PageSize,             \* VM_PAGE_SIZE
    MaxRecords,           \* the slots from firstAllocation to lastAllocation
    MaxAllocations,       \* zone->maxAllocations
    Sizes,                \* request sizes the callers of _zone_alloc pass
    Flags,                \* heap->flags: a subset of {"Aligned", "Secure"}
    ZoneIds,              \* addresses mmap may return for a new zone
    TinyChangeThreshold,  \* 100 in __heap_zoneDefragment
    ChangeThreshold,      \* 20 in __heap_zoneDefragment
    NoZone,               \* a zone id that is not mapped
    FreeSizeCap           \* where the model stops counting zone->freeSize up

ASSUME /\ PageSize \in Nat \ {0} /\ PageSize % 4 = 0
       /\ MaxRecords \in Nat \ {0}
       /\ MaxAllocations > MaxRecords  \* see below
       /\ Sizes \subseteq Nat \ {0}
       /\ Flags \subseteq {"Aligned", "Secure"}
       /\ NoZone \notin ZoneIds
       /\ \A size \in Sizes : size <= 2048 => FreeSizeCap >= size  \* Large zones are never searched

ExtraPadding == 16    \* kHeapAllocationExtraPadding
TinyRecordMax == 255  \* UINT8_MAX, the width of zone_tiny_allocation_t.size

VARIABLES
    zones,   \* zone id -> zone header and record array, for mapped zones
    order,   \* the zone list from heap->firstZone along next
    held     \* pointers returned by _zone_alloc and not yet freed, with the size asked for

vars == <<zones, order, held>>

Types == {"Tiny", "Small", "Medium", "Large"}
RecordTypes == {"Free", "Used", "Unused"}

(* __heap_zoneTypeForSize *)
ZoneTypeForSize(size) ==
    CASE size > 2048 -> "Large"
      [] size > 256  -> "Medium"
      [] size > 64   -> "Small"
      [] OTHER       -> "Tiny"

(* The page count chosen by __heap_createZoneForSize (VM_PAGE_COUNT rounds up). *)
DataPages(type, size) ==
    CASE type = "Tiny"   -> 1
      [] type = "Small"  -> 5
      [] type = "Medium" -> 20
      [] type = "Large"  -> (size + PageSize - 1) \div PageSize

(* `required` in __heap_zoneForSize and __heap_useAllocation *)
Padding(size) == IF "Aligned" \in Flags THEN size % 4 ELSE 0
Required(size) == size + Padding(size) + ExtraPadding

UnusedRecord == [type |-> "Unused", size |-> 0, off |-> 0]

DataSize(z) == zones[z].dataPages * PageSize   \* zone->end - zone->begin

Live == {z \in ZoneIds : zones[z] # NoZone}

(* __heap_createZoneForSize: the header and the record array of a fresh    *)
(* zone.  A tiny zone is cut into records of at most UINT8_MAX bytes; a    *)
(* regular zone starts with one Free record spanning the data pages.       *)
NewZone(size) ==
    LET type == ZoneTypeForSize(size)
        pages == DataPages(type, size)
        free == pages * PageSize
        tinyRec(i) == IF (i - 1) * TinyRecordMax < free
                      THEN [type |-> "Free",
                            size |-> Min({free - (i - 1) * TinyRecordMax, TinyRecordMax}),
                            off  |-> (i - 1) * TinyRecordMax]
                      ELSE UnusedRecord
        recs == IF type = "Tiny"
                THEN [i \in 1..MaxRecords |-> tinyRec(i)]
                ELSE [i \in 1..MaxRecords |->
                        IF i = 1 THEN [type |-> "Free", size |-> free, off |-> 0]
                                 ELSE UnusedRecord]
        n == Cardinality({i \in 1..MaxRecords : recs[i].type = "Free"})
    IN [type |-> type, dataPages |-> pages, freeSize |-> Min({free, FreeSizeCap}), changes |-> 0,
        allocations |-> n, freeAllocations |-> n, recs |-> recs]

(* The first record index, in array order, of a set of candidates, or 0. *)
FirstRecord(candidates) ==
    IF candidates = {} THEN 0 ELSE Min(candidates)

(* The test __heap_zoneForSize applies to each zone of the list, and the   *)
(* record it then takes.                                                   *)
FitRecord(z, size) ==
    FirstRecord({k \in 1..MaxRecords : /\ zones[z].recs[k].type = "Free"
                                       /\ zones[z].recs[k].size >= Required(size)})

(* Lines 136-141: maxAllocations is (VM_PAGE_SIZE - sizeof(heap_zone_t)) *)
(* / allocationSize, but the array ends at address + maxAllocations *      *)
(* allocationSize and starts after the header, so it has fewer slots than  *)
(* maxAllocations.  A zone with every slot in use passes the test below.   *)
ZoneFits(z, size) ==
    /\ zones[z].type = ZoneTypeForSize(size)
    /\ zones[z].freeSize >= size
    /\ zones[z].allocations < MaxAllocations
    /\ FitRecord(z, size) # 0

(* __heap_zoneFindAllocationWithPointer: the Used record at an offset, or 0 *)
FindAllocationWithPointer(recs, off) ==
    FirstRecord({k \in 1..MaxRecords : recs[k].off = off /\ recs[k].type = "Used"})

(* __heap_findZoneWithAllocation: the first zone of the list whose range   *)
(* holds the pointer; the scan stops there even if it has no such record.  *)
FindZoneWithAllocation(ptr) ==
    LET inRange == {k \in 1..Len(order) :
                      order[k] = ptr.zone /\ ptr.off < DataSize(order[k])}
    IN IF inRange = {} THEN NoZone
       ELSE LET z == order[Min(inRange)]
            IN IF FindAllocationWithPointer(zones[z].recs, ptr.off) # 0
               THEN z ELSE NoZone

(* __heap_sizeForPointer: the record size of an owned pointer, else 0.     *)
SizeForPointer(ptr) ==
    LET z == FindZoneWithAllocation(ptr)
    IN IF z = NoZone THEN 0
       ELSE zones[z].recs[FindAllocationWithPointer(zones[z].recs, ptr.off)].size

(* __heap_zoneGetUnusedAllocation: the first Unused slot, or 0. *)
UnusedSlot(zone) == FirstRecord({k \in 1..MaxRecords : zone.recs[k].type = "Unused"})

(* __heap_useAllocation, lines 443-498: mark record i Used; when it is     *)
(* larger than `required` and an Unused slot is left, split the surplus    *)
(* off into that slot, else hand the record out whole.  freeSize is left   *)
(* as it is.  Where the remainder starts is a parameter, for the mutant.   *)
UseAllocationWith(zone, i, size, remOff) ==
    LET r == zone.recs[i]
        req == Required(size)
        j == UnusedSlot(zone)
        split == r.size > req /\ j # 0
        recs == IF split
                THEN [zone.recs EXCEPT
                        ![i] = [type |-> "Used", size |-> req, off |-> r.off],
                        ![j] = [type |-> "Free", size |-> r.size - req, off |-> remOff]]
                ELSE [zone.recs EXCEPT ![i].type = "Used"]
        grow == IF split THEN 1 ELSE 0
    IN [zone EXCEPT !.recs = recs,
                    !.allocations = @ + grow,
                    !.freeAllocations = @ + grow - 1]

(* Mutant: the remainder placed at the record's offset, `required` not    *)
(* added, so the next allocation hands out the same pointer again.        *)
UseAllocationRemainderAtStart(zone, i, size) ==
    UseAllocationWith(zone, i, size, zone.recs[i].off)

(* Mutant: `allocation->size = required` done before the Unused-slot      *)
(* test, so a record handed out whole still shrinks and its surplus is     *)
(* lost.                                                                   *)
UseAllocationShrinkWithoutSlot(zone, i, size) ==
    LET z2 == UseAllocationWith(zone, i, size, zone.recs[i].off + Required(size))
    IN IF zone.recs[i].size > Required(size) THEN [z2 EXCEPT !.recs[i].size = Required(size)] ELSE z2

(* Mutant: the two counter increments done before the Unused-slot test.   *)
UseAllocationCountWithoutSlot(zone, i, size) ==
    LET z2 == UseAllocationWith(zone, i, size, zone.recs[i].off + Required(size))
    IN IF zone.recs[i].size > Required(size) /\ UnusedSlot(zone) = 0
       THEN [z2 EXCEPT !.allocations = @ + 1, !.freeAllocations = @ + 1] ELSE z2

UseAllocation(zone, i, size) ==
    UseAllocationWith(zone, i, size, zone.recs[i].off + Required(size))

(* __heap_freeAllocation.  zone->freeSize and zone->changes only grow     *)
(* between resets, and the code reads them only in `freeSize >= size`     *)
(* and `changes >= changeThreshold`.  Counting each up to a cap at or      *)
(* above every value compared with it (FreeSizeCap, the threshold) keeps   *)
(* every outcome of those reads and makes the state space finite.  The     *)
(* 32-bit wrap of freeSize lies beyond the cap and is not modelled.  A     *)
(* fresh zone's freeSize is capped the same way.                           *)
Threshold(zone) == IF zone.type = "Tiny" THEN TinyChangeThreshold ELSE ChangeThreshold

(* Mutant: zone->freeAllocations not raised. *)
FreeAllocationUncounted(zone, i) ==
    [zone EXCEPT !.recs[i].type = "Free",
                 !.freeSize = Min({@ + zone.recs[i].size, FreeSizeCap}),
                 !.changes = Min({@ + 1, Threshold(zone)})]

FreeAllocation(zone, i) ==
    [zone EXCEPT !.recs[i].type = "Free",
                 !.freeSize = Min({@ + zone.recs[i].size, FreeSizeCap}),
                 !.freeAllocations = @ + 1,
                 !.changes = Min({@ + 1, Threshold(zone)})]

(* The Free record that the merge loop of __heap_zoneDefragment joins to   *)
(* record i: the record found at the end of i, if it is Free (and, in a    *)
(* tiny zone, the sum still fits in UINT8_MAX); 0 ends the while loop.     *)
MergeTarget(zone, i) ==
    LET r == zone.recs[i]
        nx == FindAllocationWithPointer(zone.recs, r.off + r.size)
    IN IF /\ r.type = "Free"
          /\ nx # 0
          /\ zone.recs[nx].type = "Free"
          /\ zone.type = "Tiny" => r.size + zone.recs[nx].size <= TinyRecordMax
       THEN nx ELSE 0

MergeRecords(zone, i, nx) ==
    [zone EXCEPT !.recs[i].size = @ + zone.recs[nx].size,
                 !.recs[nx] = UnusedRecord,
                 !.allocations = @ - 1,
                 !.freeAllocations = @ - 1]

(* The for/while loops of __heap_zoneDefragment from record i on.          *)
RECURSIVE DefragmentFrom(_, _)
DefragmentFrom(zone, i) ==
    IF i > MaxRecords THEN zone
    ELSE LET nx == MergeTarget(zone, i)
         IN IF nx = 0 THEN DefragmentFrom(zone, i + 1)
            ELSE DefragmentFrom(MergeRecords(zone, i, nx), i)

(* __heap_zoneDefragment *)
ZoneDefragment(zone) ==
    IF zone.changes >= Threshold(zone) /\ zone.freeAllocations >= 2
    THEN [DefragmentFrom(zone, 1) EXCEPT !.changes = 0]
    ELSE zone

(* The zone list without z, as __heap_destroyZone relinks it.             *)
Unlink(z) == SelectSeq(order, LAMBDA y : y # z)

-----------------------------------------------------------------------------

Init ==
    /\ zones = [z \in ZoneIds |-> NoZone]
    /\ order = <<>>
    /\ held = {}

(* _zone_alloc: __heap_zoneForSize then __heap_useAllocation.  The zone    *)
(* list is walked from its head; a Large request, or one no zone fits,     *)
(* maps a fresh zone at an address mmap picks and links it at the head.   *)
Alloc(size) ==
    LET type == ZoneTypeForSize(size)
        fits == {k \in 1..Len(order) : ZoneFits(order[k], size)}
    IN IF type # "Large" /\ fits # {}
       THEN LET z == order[Min(fits)]
                i == FitRecord(z, size)
            IN /\ zones' = [zones EXCEPT ![z] = UseAllocation(@, i, size)]
               /\ held' = held \cup {[zone |-> z, off |-> zones[z].recs[i].off, size |-> size]}
               /\ UNCHANGED order
       ELSE \E z \in ZoneIds \ Live :
              LET zone == NewZone(size)
              IN /\ zones' = [zones EXCEPT ![z] = UseAllocation(zone, 1, size)]
                 /\ order' = <<z>> \o order
                 /\ held' = held \cup {[zone |-> z, off |-> zone.recs[1].off, size |-> size]}

(* _zone_free of a pointer the caller got from _zone_alloc.  When the     *)
(* record is the zone's last Used one the whole zone is unmapped;          *)
(* otherwise the record becomes Free and the zone may be defragmented.     *)
Free(h) ==
    LET z == FindZoneWithAllocation(h)
        i == FindAllocationWithPointer(zones[z].recs, h.off)
    IN /\ z # NoZone   \* else the code dereferences NULL; HeldAreUsedRecords excludes it
       /\ held' = held \ {h}
       /\ IF zones[z].allocations = zones[z].freeAllocations + 1
          THEN /\ zones' = [zones EXCEPT ![z] = NoZone]
               /\ order' = Unlink(z)
          ELSE /\ zones' = [zones EXCEPT ![z] = ZoneDefragment(FreeAllocation(@, i))]
               /\ UNCHANGED order

Next ==
    \/ \E size \in Sizes : Alloc(size)
    \/ \E h \in held : Free(h)

Spec == Init /\ [][Next]_vars

-----------------------------------------------------------------------------
(* Properties                                                              *)

Record == [type : RecordTypes, size : Nat, off : Nat]
Zone == [type : Types, dataPages : Nat, freeSize : Nat, changes : Nat,
         allocations : Nat, freeAllocations : Nat, recs : [1..MaxRecords -> Record]]

TypeOK ==
    /\ zones \in [ZoneIds -> Zone \cup {NoZone}]
    /\ order \in Seq(ZoneIds)
    /\ held \subseteq [zone : ZoneIds, off : Nat, size : Sizes]

(* Every pointer handed out and not yet freed names a Used record of its   *)
(* zone (so _zone_free and __heap_sizeForPointer find it), every Used      *)
(* record is exactly one such pointer (no pointer is handed to two         *)
(* callers), and __heap_sizeForPointer reports at least the size asked     *)
(* for.  Breaking it takes an allocation, a split and a free in the wrong  *)
(* order, e.g. a zone unmapped while still in use.                         *)
HeldAreUsedRecords ==
    /\ {[zone |-> h.zone, off |-> h.off] : h \in held}
         = UNION {{[zone |-> z, off |-> zones[z].recs[i].off] :
                      i \in {k \in 1..MaxRecords : zones[z].recs[k].type = "Used"}} :
                  z \in Live}
    /\ \A z \in Live : Cardinality({i \in 1..MaxRecords : zones[z].recs[i].type = "Used"})
                       = Cardinality({h \in held : h.zone = z})
    /\ \A h \in held : SizeForPointer(h) >= h.size

(* The Free and Used records of a zone tile its data range [begin, end):   *)
(* they lie inside it, do not overlap, and their sizes add up to it.  The  *)
(* split in __heap_useAllocation and the merge in __heap_zoneDefragment    *)
(* must both keep this.                                                    *)
RecordsTileZone ==
    \A z \in Live :
        LET recs == zones[z].recs
            inUse == {i \in 1..MaxRecords : recs[i].type # "Unused"}
        IN /\ \A i \in inUse : recs[i].off + recs[i].size <= DataSize(z)
           /\ \A i, j \in inUse : i # j =>
                 recs[i].off + recs[i].size <= recs[j].off
                 \/ recs[j].off + recs[j].size <= recs[i].off
           /\ MapThenSumSet(LAMBDA i : recs[i].size, inUse) = DataSize(z)

(* The bytes of a zone's Free records. *)
FreeBytes(z) ==
    MapThenSumSet(LAMBDA i : zones[z].recs[i].size,
                  {i \in 1..MaxRecords : zones[z].recs[i].type = "Free"})

(* zone->allocations counts the records that are not Unused and            *)
(* zone->freeAllocations the Free ones, whether a record was split or      *)
(* handed out whole; _zone_free decides to unmap a zone from these two     *)
(* counters alone.  zone->freeSize never falls below the Free bytes (up to *)
(* the cap), so the freeSize test of __heap_zoneForSize never skips a zone *)
(* that has a fitting record; it may overstate them (spec line 193 says    *)
(* equal; see the README).                                                 *)
CountersMatchRecords ==
    \A z \in Live :
        /\ Min({FreeBytes(z), FreeSizeCap}) <= zones[z].freeSize
        /\ zones[z].allocations =
              Cardinality({i \in 1..MaxRecords : zones[z].recs[i].type # "Unused"})
        /\ zones[z].freeAllocations =
              Cardinality({i \in 1..MaxRecords : zones[z].recs[i].type = "Free"})

(* A defragmentation pass leaves no Free record directly followed by a     *)
(* Free record it could be merged with (spec section 4.1).                 *)
Mergeable(zone) ==
    \E i, j \in 1..MaxRecords :
        /\ zone.recs[i].type = "Free" /\ zone.recs[j].type = "Free"
        /\ zone.recs[j].off = zone.recs[i].off + zone.recs[i].size
        /\ zone.type = "Tiny" => zone.recs[i].size + zone.recs[j].size <= TinyRecordMax

DefragmentCoalesces ==
    [][\A z \in Live \cap {y \in ZoneIds : zones'[y] # NoZone} :
          zones[z].changes > 0 /\ zones'[z].changes = 0 => ~Mergeable(zones'[z])]_vars
=============================================================================
