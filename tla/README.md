# TLA+ models of Firedrake

This directory holds TLA+ specifications of parts of the Firedrake kernel (`src/`). It also holds the TLC configurations that check them. Every module is translated from the C/C++ source. `PROJECT.json` maps each definition to the source lines it models and lists the runs, mutants, findings and hazards.

## The system and its parts

| Part | Source | State | Operations | Interacts with |
|---|---|---|---|---|
| Zone heap | `lib/libc/sys/zone.c` | A list of zones (tiny, small, medium, large). Each zone has a data area and an array of allocation records (Free / Used / Unused, size, offset), plus the counters `allocations`, `freeAllocations`, `freeSize` and `changes`. | `_zone_alloc`, `_zone_free` (with split, defragment, destroy), `__heap_sizeForPointer` | The kernel and libc allocators; mmap |
| Wait channels | `sys/os/waitqueue.cpp` | A dictionary from channel to the list of waiting threads, guarded by the spin lock `_waitLock`. Each thread has a block counter. | `Wait`, `Wakeup` | The scheduler (runs unblocked threads); thread join/exit |
| Thread and process syscalls | `sys/syscall/*.c` | A syscall table; thread died/join state | sleep, join, exit, wait, fork, dispatch | Wait channels, scheduler |
| Library store | `sys/ioglue/iostore.c` | Loaded libraries under a lock | add, lookup by name/address, symbol search, init functions | Loader, relocation |
| Relocation | `bin/linkd/reloc.c` | Two relocation tables; the slots they write | the non-PLT and PLT passes | Library store |
| IO dictionary | `libkernel/libio/IODictionary.cpp` | Open hash table with buckets; object and pointer classes | init, set, get, remove, grow, shrink, free | Wait channels (its dictionary), IO objects |
| IPC ports | `sys/os/ipc/IPCPort.cpp` | Each port object has rights and, for a receive port, a message queue (an `IO::Array`). No lock. | `Init`, `InitAsPortRight`, `Dealloc`, push, peek, pop | Sending and receiving threads (callers not under `src/`) |
| Video | `sys/video/video.cpp` | Colours and a pending colour escape | interpret a console byte | The text device (not under `src/`), which prints what is not swallowed |
| Helpers | `sys/system/helper.c` | none (pure) | C++ name test and demangler, multiboot module lookup, path and unit helpers | Logging, symbol names |
| Kernel string routines | `sys/libc/string.c` | none (pure) | strlen, strcmp, strstr, copies | Helpers |
| Boot, interrupts, C runtime, headers | the rest | hardware tables and byte copies | set-up | - |

## Modules

### ZoneHeap (`ZoneHeap.tla`, instantiated by `MCZoneHeap.tla`)

State:
- `zones` maps a zone id to a zone record, or `NoZone` when the id is not in use.
- `order` is the heap's zone list, newest first, as `__heap_createZoneForSize` links it.
- `held` is the set of pointers that `_zone_alloc` returned and that are not yet freed. Each is a pair (zone, offset).

Addresses are offsets inside a zone's data area, so pointers from different zones never compare equal.

Actions:
- `Alloc(size)` is the whole of `_zone_alloc`:
  1. Walk the zone list for the first zone that fits (`ZoneFits`, from `__heap_zoneForSize`).
  2. Otherwise create a zone (`NewZone`).
  3. Use its record (`UseAllocation`), which includes the split into an Unused slot.
- `Free(h)` is the whole of `_zone_free`:
  1. Find the zone.
  2. If the record is the zone's last Used one, unmap and unlink the zone (`__heap_destroyZone`).
  3. Otherwise mark the record Free (`FreeAllocation`) and run `ZoneDefragment`. Its two loops are the recursive operator `DefragmentFrom`.

Abstractions:
- `freeSize` and `changes` only grow between resets. The code reads them only in `freeSize >= size` and `changes >= threshold`. Both are therefore counted up to a cap (`FreeSizeCap`, the threshold), which keeps every outcome of those reads.
- The change thresholds (100 and 20 in the code) are constants, set to 3 and 2 in the runs. The comparison is unchanged; only fewer frees are needed to trigger defragmentation.
- The page size is 64 bytes instead of 4096, and a zone's record array has `MaxRecords` = 3 slots. The `ExtraPadding` of 16 bytes is kept, so with the sizes used, zones fill up and splits run out of Unused slots.
- `zone->maxAllocations` is its own constant, `MaxAllocations` = 5, larger than the array. In the code (lines 136-141) it is `(VM_PAGE_SIZE - sizeof(heap_zone_t)) / allocationSize`, but the array starts after the header and ends at `address + maxAllocations * allocationSize`, so it has fewer slots than `maxAllocations`. `allocations` never exceeds the slots, so the `allocations < maxAllocations` test of `ZoneFits` never turns a zone away, and a zone with every slot in use still serves requests: `UseAllocation` then hands out a Free record whole, surplus included (lines 453-490).

### Waitqueue (`Waitqueue.tla`, instantiated by `MCWaitqueue.tla`)

State:
- `pc`: where each thread is.
- `blocks`: `Thread::blocks`.
- `queue`: the dictionary; `<<>>` means the key is absent.
- `taken`: the waiter list a Wakeup has removed and is still unblocking.
- `entry`: the `WaitqueueEntry` object the dictionary maps each channel to, or `NoEntry`.
- `held`: the entry a Wakeup holds in its local `entry` between lines 137 and 152.
- `rc`: the retain count of each entry object. Entries are drawn from the pool `Entries`, which bounds how many are alive at once. A freed entry (count 0) can be allocated again.

The counts follow the contract documented in `libio/IOObject.h` (lines 80-119): `Alloc` returns a count of 1, `Retain` and `Release` add and subtract 1, and an object is freed at 0. The dictionary retains what it stores and releases what it removes (`IODictionary.cpp` 261-290). The `WaitqueueLookup` keys are the channel itself in the model. Their counts balance (each key is released by its creator, or by `RemoveObjectForKey` once stored), and no property tells them apart.

Actions:
- `Wait`: the locked section of lines 108-124. `FindOrCreate` (lines 112-117) allocates and stores an entry when the channel has none.
- `Resume`: `ForceReschedule` returning.
- `WakeupTake`: the locked section of lines 134-140: `Retain`, then `RemoveObjectForKey`, which releases the entry. It faults when there is no entry.
- `WakeupUnblock`: one iteration of the unblock loop, which runs outside the lock. Its last step is the `Release` of line 152.

Each locked section touches only lock-guarded state and the caller's own counter, so it is a single step. Threads interleave freely, as on several CPUs.

Blocking and scheduling are not in `src/`. They are taken from the spec: a thread runs only when its block counter is 0, and the round-robin scheduler eventually runs every runnable thread. This justifies weak fairness on `Resume` and `WakeupUnblock`. No fairness is assumed for starting a Wait or a Wakeup.

`WaitChannels.tla` states what the spec promises. A thread runs, waits on a channel, or is woken. `wakeup(ch)` wakes every waiter of `ch` in one step, and the scheduler's fairness returns every woken thread. `Waitqueue` implements it under `AtOf`:
- a thread inside Wait that an entry still lists waits on that channel;
- a thread inside Wait that no entry lists has been woken;
- every other thread runs.

The refinement shows two things. A Wakeup wakes exactly the threads listed when it takes the entry, even though it unblocks them one by one after dropping the lock. No Wait returns early.

### IODictionary and KeyedMap (`IODictionary.tla`, `KeyedMap.tla`, instantiated by `MCIODictionary.tla`)

State:
- `dict` holds `_capacity`, `_count` and `_buckets`. `_buckets` maps each chain index to the chain, a sequence of `[key, object]` buckets with the head first.
- A dead bucket, left by a removal, has key and object 0.
- `refs` counts the retains the dictionary holds on each key and object.
- `class` is `IODictionary` or its subclass `__IOPointerDictionary`. The subclass stores raw pointers and retains only the keys.
- `freed` records that `free()` has run.

`Init` is a dictionary from `init()` or from `withCapacity(c)`. `CapacityFor` is the loop of `initWithCapacity`: it picks the size just below the first size larger than `c`.

Actions:
- `SetObjectForKey(o, k)` is the whole of `setObjectForKey`: `findBucket2` (a new bucket pushed at the chain head), the retain of the new pair, the release of a replaced one, the count, and `expandIfNeeded` with its rehash.
- `RemoveObjectForKey(k)` is the whole of `removeObjectForKey`, `shrinkIfNeeded` included. `setObjectForKey` with a null object calls it.
- `SetPointerForKey` and `RemovePointerForKey` do the same for the subclass. They share the table change (`Stored`, `Cleared`) and differ in the retains and releases. `setPointerForKey` with a null pointer calls `removeObjectForKey` (line 349), which the subclass overrides with a panic (lines 399-402). The model sets `panicked`, and no dictionary step follows.
- `Free` and `PointerFree` release what the live buckets hold. After them no operation is enabled.
- `Rehash` visits the chains in order and pushes every live bucket onto its new chain. The result is modelled as a `Reverse` of the visit order.

Abstractions:
- `IOMalloc` and `new` may fail (`AllocCanFail`). A failed bucket allocation leaves the table alone, and a failed rehash keeps the old array.
- Keys are model values with a fixed hash. `MCHash` (0, 5, 11, 1) puts keys 1 and 2 in one chain and keys 3 and 4 in another at capacity 5, and keys 1 and 3 in one chain at 11.
- `MaxBuckets` bounds the buckets, live and dead. Only the first capacities (5 and 11) are reached.

`KeyedMap` is the abstract promise: a map from keys to objects that a step changes at one key. Freeing empties the map and ends its use. The dictionary implements it under the mapping `map <- [k |-> objectForKey(k)]` (empty once freed), `freed <- freed`.

### IoStore (`IoStore.tla`, instantiated by `MCIoStore.tla`)

`io_storeAddLibrary` works in three steps:
1. Under `__io_storeLock`, it inserts the library unless its name is already registered (line 192). If the name is taken, it returns true.
2. It releases the lock and resolves dependencies.
3. It relocates, and on failure removes the library by name (`io_storeRemoveLibrary`).

State:
- `store`: the registry.
- `relocated`: the libraries whose relocation succeeded.
- `deps`: each library's dependency list.
- `frames`: one stack per thread, because resolving a missing dependency loads and adds it recursively on the same thread.
- `result`: what each outermost add returned.

Actions:
- `AddLibrary`: the locked find and insert.
- `ResolveDependency`: one `DT_NEEDED` name per step.
- `DependenciesDone`.
- `Relocate`: the relocation and the removal on failure.

`io_libraryResolveDependencies` and the relocation passes are not under `src/`. They are modelled from the spec and marked `spec_modelled`. Relocation can fail when a needed library is missing, and otherwise when `RelocCanFail` is set.

Fairness: weak fairness per thread on its own next step. An add is ordinary kernel code that the scheduler keeps running. No property of the runs needs it: the library pool is finite, so every chain of nested adds ends whatever the registry does, and termination would say nothing about the code. `NoNestedReload` checks what termination rests on instead: the early insert of line 195 cuts a cycle where it closes.

### IPCPort and PortChannel (`IPCPort.tla`, `PortChannel.tla`, instantiated by `MCIoStore.tla`)

`IPCPort` models the port objects of `IPCPort.cpp`.

State:
- `rights`: each object's `_rights`, or `Null` before its init.
- `portQueue`: each object's `_queue`, a sequence of messages or `Null`.
- `peeked`: for each receiver thread, the message its `PeekMessage` returned.
- `dead`: the objects `Dealloc` has freed.
- `unsent` and `received`: history. Each message is pushed once, and `received` lists what each object's receivers took, in order.

Actions:
- `PortInit`: an empty queue exists exactly when the rights include Receive.
- `InitAsPortRight`: copies the origin's rights and sets no queue.
- `PortDealloc`: releases the queue and its messages.
- `PushMessage`: appends to the queue.
- `PeekMessage`: has two disjuncts, NULL for an empty queue and the head otherwise.
- `PopMessage`: drops index 0 and records the message the thread peeked.

The callers are not under `src/`. The model takes their protocol from the spec:
- A send goes to the receiver-side object, so the queue operations act only on objects with a queue (`Receivable`).
- A receive is a peek, then a pop after a non-NULL result, by the port's receiver.
- The owner frees a port after its receiver is done.

`PortChannel` is the spec's promise for a port. Messages wait in FIFO order and are delivered once each, in send order; destroying a port drops the rest. The refinement maps `pending` to the port queue and `delivered` to `received`. A peek is a stuttering step of `PortChannel`, and the pop that follows it is its `Deliver`.

`MCIoStore` interleaves the ports with the library store, and `store_cycle` checks both. The two components share no state; the composition makes one run check both. `StoreSpec` is the store alone, for the two store violation runs.

### StoreLookup (`StoreLookup.tla`, instantiated by `MCStoreLookup.tla`)

- `AtreeCompareFrom` is `io_storeAtreeLookup`'s character loop, as a recursive operator over byte strings with plain `char` (`CharIsSigned`).
- `StoreLibraryWithAddress` is `io_storeLibraryWithAddress`: the first library, in comparator order, whose range holds the address.
- The registry is fixed in `Init` to any two disjoint libraries at bases {0, 4, 8}. Each step looks up an address in 0..12.
- `MCStoreLookup` also extends `SysHelper`, so the run that checks the comparator checks the other byte-string routines too.

### KString and SysHelper (`KString.tla`, `SysHelper.tla`)

Pure routines, written as recursive operators that follow the code's loops. A C string is a sequence of non-zero bytes, and reading past its end gives the terminating 0. A returned pointer is a 1-based position, and NULL is 0.
- `KString` covers `strlen`, `strcmp` and `strstr` from `sys/libc/string.c`: the string routines that code under `src/` calls. `StoreLookup` shares its `Byte` and `CharValue`.
- `SysHelper` covers `isCPPName` (`strstr(name, "_Z") == name`), `demangleNext` and `demangleCPPName`, and `sys_multibootModuleWithName` (a `strcmp` search). `isdigit` and `atoi` are not under `src/`, so they have their C meaning.

Each routine is checked against a reference definition:
- a prefix test, for `isCPPName`;
- the Itanium mangling of plain and nested names with a builtin parameter type, for the demangler;
- plain equality, for the module lookup.

### VideoDevice (`VideoDevice.tla`)

`video_device::interpret_character` is the one operation under `src/` that changes a console device's state. The device is a record: foreground, background, `pendingChange`, `foregroundChange`, and whether the last byte is printed (the call returned false). `InterpretCharacter` follows lines 40-59. Bytes 14 and 15 make a change pending and pick the colour. A byte 16..31 with a change pending sets that colour and keeps the other. Any other byte is printed. `Interpret(s)` folds this over a string, starting from the constructor's state. The constructor leaves `foregroundChange` uninitialized, but it is read only after an escape has set it. `SysHelper`'s caller includes the console: one call interprets a string on a fresh device.

`SysHelper` also has a caller. Each step (`HelperCall`) is one call of a helper with arguments from the bounded sets, and `answer` is what the call returned. `MCStoreLookup` interleaves these calls with the registry lookups, and each property compares the current answer with the reference.

### ProcessWait (`ProcessWait.tla`, instantiated by `MCProcessWait.tla`)

The syscalls that block on a thread or end one: `_sc_threadJoin`, `_sc_threadExit`, `_sc_exit` and `_sc_wait`.

They run over the wait channels of `Waitqueue`. Joining a thread `th` is a Wait on the channel `&th`.

`thread_join` and the scheduler are not under `src/` and are taken from the spec:
- A thread is dead once it or its process died.
- The scheduler reaps a dead thread and then calls `Wakeup(&thread)`. With nobody listed, that Wakeup faults (`waitqueue.cpp:137`, seen while modelling), and the model then halts the kernel.

`WaitBegin` is `_sc_wait`'s lookup and died test. `WaitJoin` is one iteration of its join loop, one thread per step, as in the code.

Fairness: weak fairness on the join loop, on rescheduling and on reaping. A syscall's kernel code keeps running, and the scheduler runs every runnable thread and reaps every dead one.

### SymbolLookup (`SymbolLookup.tla`, instantiated by `MCSymbolLookup.tla`)

`io_storeLookupSymbol` in three parts:
1. `LookupStart`: the LOCAL and kernel cases.
2. `BfsStep`: the breadth-first loop over `dependencyTree`, one dependency per step.
3. `LookupSelf`: the final lookup in the library itself.

The loop reads the array only at increasing indices. The model therefore keeps only the lists not yet finished, so a search that repeats itself shows up as a repeated state. The hash-bucket walk is abstracted to a set of libraries that define each symbol.

### Reloc (`Reloc.tla`, instantiated by `MCReloc.tla`)

Models `library_relocateNonPLT` and `library_relocatePLT` of the user-space linker (`bin/linkd/reloc.c`).

State:
- `rel` and `pltRel` are the library's two relocation tables, chosen in `Init` from every order of a few distinct entries.
- `pass` is one of `"nonplt"`, `"plt"`, `"done"`, `"failed"` (a function returned false) or `"aborted"` (the JMP_SLOT assert).
- `next` is the loop index.
- `container` is the loop's local `library_t *container`.
- `mem` maps each slot offset to its contents.

Actions:
- `NonPltStep` is one iteration of the non-PLT switch, including the early return when a lookup fails.
- `NonPltDone` is the return after the non-PLT loop.
- `PltStep` is one iteration of the PLT loop.
- `PltDone` is the return after the PLT loop.

How the code is represented:
- Arithmetic is modulo 2^`Width`. An 8-bit word wraps the same way the code's 32-bit `elf32_address_t` does, for example when `target - address` is negative.
- `library_lookupSymbol` is not under `src/`. It is the constant `Lookup`.
- `container` is only assigned by the symbol cases, yet `R_386_RELATIVE` reads it. Before the first assignment its value is undefined: any base in `Garbage`.

The property `RelocatedSlotsMatchElf` compares every slot with the value the i386 ABI defines: S+A, S+A-P, B+A, or S.

## Runs

| Run | Config | Bounds | Checks | Result |
|---|---|---|---|---|
| heap_main | `MCZoneHeap.cfg` | 2 zone ids, page 64, 3 record slots, maxAllocations 5, sizes {1, 70, 300, 2100} (tiny, small, medium, large); free size counted to 300; symmetry on zone ids | TypeOK, HeldAreUsedRecords, RecordsTileZone, CountersMatchRecords | pass |
| heap_defrag | `MCZoneHeapDefrag.cfg` | size {1}, thresholds 2 | DefragmentCoalesces | violation (code bug) |
| waitqueue_main | `MCWaitqueue.cfg` | 3 threads, 2 channels, 3 entry objects; Wakeup only of channels with an entry | TypeOK, BlockedIffListed, ImplementsWaitChannels | pass |
| waitqueue_leak | `MCWaitqueueLeak.cfg` | as above, and any channel may be woken | NoEntryLeak | violation (code bug) |
| dict_main | `MCIODictionary.cfg` | 4 keys, 2 objects, at most 5 buckets, allocation may fail; both classes; default capacity or a request of 12 (capacity 11); symmetry on objects | TypeOK, BookkeepingMatchesBuckets, ImplementsKeyedMap | pass |
| store_cycle | `MCIoStore.cfg` | 2 threads add a1, b1 (a2, b2 loadable); a needs b and b needs a; relocation may fail; interleaved with 2 port objects (receive or send-only ports, or rights of each other; one receiver thread each) and 2 messages | NamesUnique, RegistryHoldsRelocatedOrPending, NoNestedReload, IPCTypeOK, ImplementsPortChannel | pass |
| store_dangling | `MCIoStoreDangling.cfg` | 2 threads add a1, b1; a needs b | NoDanglingDependency | violation (code bug) |
| store_durable | `MCIoStoreDurable.cfg` | 2 threads add a1, a2; a needs b | AddSuccessIsDurable | violation (code bug) |
| string_routines | `MCStoreLookup.cfg` | names "a", "ab", "b", and the byte 200; signed char; every name of up to 3 bytes over `_`, `Z`, `a`; 1-2 components from "a", "a1", "bc" with parameter `v` or `i`; module lists of up to 2 names from "a", "ab", "b"; console strings of up to 3 bytes over 14, 15, 17, "A" | AtreeCompareMatchesReference, IsCPPNameMatchesPrefix, DemangleInvertsMangle, ModuleLookupFindsFirstEqual, ConsoleEscapesFollowSpec | pass |
| process_wait | `MCProcessWait.cfg` | parent with threads pm, p2; child with cm; pm waits for the child | WaitReturns | violation (code bug) |
| reloc_relative | `MCReloc.cfg` | libA at 16, libB at 64, 8-bit words; every order of up to 2 entries per table; uninitialized container reads 0 or 200 | RelocatedSlotsMatchElf | violation (code bug) |
| symbol_cycle | `MCSymbolLookup.cfg` | a and b need each other; defined, undefined, kernel and local symbols | LookupReturns | violation (code bug) |

What the passing runs show:
- Every held pointer is a Used record at least as large as the request, and every Used record is exactly one held pointer. So no block is handed to two callers.
- The heap's records always tile each zone exactly, also when a zone with no Unused slot hands a Free record out whole.
- Its counters match the records, and `freeSize` never falls below the Free bytes. `__heap_zoneForSize` therefore never skips a zone that has a fitting record.
- A thread inside `Wait` is blocked exactly while an entry lists it.
- The wait channels implement `WaitChannels`, the spec's promise in which a wakeup wakes every waiter at once. A waiter taken by a Wakeup always returns.
- The dictionary's count and retains always match its live buckets. Every key sits in the chain its hash selects.
- Through every grow, shrink and failed allocation, the dictionary behaves as a map. This holds for both classes, up to the panic of a null `setPointerForKey`.
- `free()` leaves no reference held.
- The library registry never holds two libraries of one name, even with concurrent and nested adds.
- A library in the registry is relocated, or its add is still in progress.
- No thread ever has two nested adds of one name on its stack. A dependency cycle is cut where it closes, by the registry entry inserted before resolution.
- Each port with one receiver implements `PortChannel`. A peek and a later pop, with pushes in between, take the oldest undelivered message, and every message is delivered once, in push order.
- The name comparator computes the byte-string order, prefixes and bytes above 127 included.
- `isCPPName` is exactly the "_Z" prefix test, although `strstr` loses partial matches.
- The demangler inverts the mangling of plain and nested names with builtin parameter types.
- The multiboot module lookup finds the first module with exactly the name asked for. Prefixes do not match.
- The console swallows 14 and 15, and a colour byte directly after one sets the colour it names and keeps the other. Plain bytes, and colour bytes before any escape, are printed (`ConsoleEscapesFollowSpec`, for strings of up to 3 bytes over 14, 15, 17 and "A").

Why the bounds are enough:
- The heap bounds fill zones, run out of Unused record slots and then hand out a Free record whole (in tiny, small and medium zones), split, and destroy zones. Sizes 1, 70 and 300 give one request size per class. Two sizes in one class multiply the states past the time limit; the whole-record path and the mutants are reached without them. No merge happens, because defragmentation never merges (finding below). A 2100-byte request maps a multi-page large zone. `freeSize` is counted to 300 only: `__heap_zoneForSize` compares it with sizes up to 2048, because a large request always gets a zone of its own, and 300 is the largest such size in the run.
- The dictionary bounds grow from 5 to 11 chains and shrink back. They also start at 11, as `withCapacity(12)` does. They put two keys in a chain at each capacity, so rehash has to walk chains.
- Three entry objects let two channels have entries at once, and let one be woken and waited on again. Because every entry leaks (finding below), no behaviour creates more than three. Each behaviour therefore holds at most three wait cycles, and these already reach every interleaving of two waiters with a Wakeup.
- The store bounds load a cycle from both ends. Each thread's nested add loads the second object of a name, so adds of one name meet both directly and nested, and a thread could reload the name it is adding if the registry did not stop it.
- The port bounds give two queued messages, so a pop that took the wrong end would show. A push can fall between a peek and its pop. Each object can be a receive port, a send-only port, or a right of the other object, and either can be freed with messages queued. `Port::Init` also accepts the rights sets {} and {Receive}. Neither adds a case: without Receive a port behaves as a send-only one, and with it as a receive port.

Deadlock checking:
- `MCWaitqueue.cfg` disables the deadlock check. Every thread may legitimately be waiting at once, and the kernel then idles.
- `MCIODictionary.cfg` disables it: after `free()` the dictionary is gone and nothing may use it.
- The store, wait, symbol-lookup and relocation cfgs disable it too. Every thread finishes its one call, and then nothing is left to do.

Each property of a passing run has a mutant in `PROJECT.json`: a plausible slip in the mapped code that TLC shows breaks it.

## Findings

Each finding comes from a violation run:
- `zone.c:395`: defragmentation never merges, because its neighbour lookup returns only Used records.
- `waitqueue.cpp:115`: `Wait` allocates an entry (count 1) and stores it, and the dictionary retains it (count 2). Nothing releases the reference `Alloc` returned. `Wakeup`'s `Retain`/`Release` pair balances, and removal from the dictionary takes the count back to 1, so every wait cycle on an idle channel leaks one entry. TLC shows the count exceeding the owned references right after the first `Wait`. Because of the leak, dropping the `Retain` of line 137 would not free the entry early either, so no property can check that `Retain` until the leak is fixed.
- `iostore.c:204`: a library is visible in the registry before its relocation. Another thread can take it as a dependency, and then the relocation fails and removes it. The dependant keeps a removed library.
- `scprocess.c:79`: `_sc_wait` tests `process->died` and joins later; the line is marked "TODO: Make this call atomic!". If the child's main thread dies and is reaped in between, the parent blocks forever on a channel whose wakeup has already run.
- `iostore.c:78`: the symbol search keeps no visited set. On a dependency cycle, a symbol no library there defines makes the loop run forever while its array grows.
- `reloc.c:70`: `R_386_RELATIVE` adds `container->relocBase`. At that point `container` is uninitialized, or names the library of the previous symbol relocation. It is not the library being relocated unless an earlier symbol of that library happened to resolve to it, while the spec's relocation test requires the addend plus the library's own relocBase. A table holding one RELATIVE entry already shows this.
- `iostore.c:212`: a second add of a name returns true while the first add is still relocating. If that relocation fails, the caller was told success for a library that is gone.

Seen while modelling, with no run, because a single call in a unit test shows each of them:
- `zone.c:443`: `freeSize` is never lowered on allocation, so it overstates the Free bytes, where spec line 193 says it equals them. It only makes the `freeSize >= size` test of `__heap_zoneForSize` weaker; `CountersMatchRecords` checks that it never understates them.
- `zone.c:445`: aligned heaps pad by `size % 4`, so their pointers are not 4-byte aligned.
- `IODictionary.cpp:291`: removed buckets stay in their chains, and at the smallest capacity nothing deletes them.
- `waitqueue.cpp:137`: `Wakeup` of a channel with no waiter dereferences NULL. Per the spec this happens on the death of every thread that nobody joined. The model keeps the fault (`pc` = "crashed", reachable when `WakeEmptyChannels` is TRUE, as in `MCWaitqueueLeak.cfg`).
- `string.c:77-88`: `strlcpy` decrements `n` after each copy (`do ... while(--n != 0)`), where OpenBSD's decrements before. When `strlen(src) >= size` it copies `size` bytes and writes the 0 at `dst[size]`, one byte past the buffer. No code under `src/` calls it.
- `string.c:127`: `strcmp` returns `*str2 - *str1`, the opposite sign from C's. Its only caller under `src/` tests for 0, which `ModuleLookupFindsFirstEqual` shows is unaffected.
- `string.c:179`: `strstr` misses a match that starts inside a failed partial match: `strstr("aab", "ab")` returns NULL. It also returns NULL for an empty `str2`. `isCPPName` only asks about position 0, where this is harmless (`IsCPPNameMatchesPrefix`).
- `helper.c:119-140`: the demangler treats a class-type parameter as one more name component: `_Z3foo3Bar`, which is `foo(Bar)`, demangles to `foo::Bar`. `DemangleInvertsMangle` is therefore stated for builtin parameter types.
- `helper.c:56`: `sys_fileWithoutPath("/a")` returns `"/a"`, because the loop stops before it examines the first byte. For `""` it reads before the string.
- `video.cpp:44-56`: `pendingChange` is never cleared. After the first escape, every later byte 16..31 is taken as a colour, however far it is from an escape. The spec (line 179) says only the next byte is. Evaluating `Interpret` on 14, 17, "A", 18 gives a green foreground where the spec prints the 18. `ConsoleEscapesFollowSpec` is therefore stated for the cases where the two agree. The output strings under `src/` put their colour byte directly after the escape.
- `syscall.c:75`: `_sc_execute` writes the handler's `errno` into `thread->errno` after every call, so a successful syscall resets it to 0. The spec (4.5) writes it only when it was set. `syscall.c:51` also indexes the 128-entry table with the user's `eax` unchecked.
- `iostore.c:148`: `io_storeLibraryWithAddress` tests the end of a range inclusively. The spec says the range is half-open.

## Plan and what is not modelled

The project has twelve runs, one per question it asks. Later work should deepen the existing modules rather than add runs.
- The Wakeup unblock loop inside `ProcessWait`. `thread_join` blocks a thread other than the caller, which `Waitqueue`'s `Wait` does not model, so the modules do not compose as they stand.
- A passing relocation run. It would check the symbol cases, for example the wrap of `R_386_PC32`, with the RELATIVE case left out. It needs a run slot.

Not modelled, with the reason:
- In the IPC ports: calls on a port right. `InitAsPortRight` keeps the Receive right but sets `_queue` to `nullptr`, so on a right of a receive port the Receive assert passes and the call dereferences NULL; one call shows it. Two receivers on one port are a hazard in `PROJECT.json`. Both can peek the same head before either pops, so one message is taken twice and the next is dropped. The spec's delivery promise assumes a single receiver. The 64-bit port-name packing and `IO::Array` are not under `src/`.
- `sys_unitForSize` and `sys_fileWithoutPath`: text formatting with no caller a property is about. The text device that draws characters and moves the cursor is not under `src/`.
- The syscall dispatch table: indexed by `eax` with no bounds check; one call shows it.
- The other thread and process syscalls: each is one call into code outside `src/`.
- `_sc_sleep`: it raises `blocks` itself before `thread_sleep` and lowers it after `sd_schedule` returns. Whether it ever returns depends on how `thread_sleep` (not under `src/`) and the deadline change `blocks`, which the spec leaves open. With `time == 0` nothing lowers the counter, so `sleep(0)` never returns, though the spec calls it a yield. One call shows it.
- `IODictionary::count()` and `capacity()` are plain reads. The object methods that `__IOPointerDictionary` overrides with a panic have no caller under `src/`.
- Boot, the interrupt tables, the C++ runtime, the copying string routines (`memset`, `memcpy`, `strcpy`, `strlcpy`, `strpbrk`, none called under `src/`) and the declaration headers: these are hardware set-up or byte-level copies. They have no concurrency or protocol that a model checker would add to testing. The spec treats the IDT layout as a hardware-mandated constant. `ir_handle_interrupt` runs with interrupts disabled (interrupt gates), saves and restores `cpu->last_state` around one handler call, and either halts, panics or sends an EOI. There is no interleaving in it to check.
- In the heap: mmap failure (its assert is compiled out), tearing down a whole heap (`_zone__destroy`), and the 32-bit wrap of `freeSize`.
- In the library store: `io_storeCallInitFunctions`, `io_init`, and the try-lock lookup `__io_storeLibraryWithAddress`.
