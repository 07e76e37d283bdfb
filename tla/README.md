# Verification of the Objective-C runtime sources in iOS-Deep-Action

The repository is a course on iOS internals. Its chapters study, with comments
added to the source, several snapshots of Apple's open source code: the
Objective-C runtime (`objc4-781`, `objc4-818.2`), the Block runtime
(`libclosure-74`), CoreFoundation (`CF-1153.18`), the memory pressure code of
xnu, and a reimplementation of KVO and KVC. Around them are small demonstration
applications. The logic worth a formal model is in the runtime libraries: they
are concurrent, partly lock-free and full of retry loops, and every Objective-C
program depends on them.

This directory holds TLA+ models of that code, TLC configurations that check
them on small instances, and TLAPS proofs that hold for every instance.
`PROJECT.json` is the machine-readable index: components, runs, mutants,
the source lines of every definition, hazards, findings and theorems.

In what follows `objc-object.h`, `NSObject.mm` and `objc-weak.mm` are the files
under `src/04.Autoreleasepool原理分析/objc4-781/runtime/`. `objc-sync.mm`,
`objc-initialize.mm`, `objc-loadmethod.mm` and `objc-runtime-new.mm` are those of
`src/10.load及initalize深入分析/objc4-818.2/runtime/`; `objc-cache.mm` and
`objc-msg-x86_64.s` of chapter 14's copy of `objc4-818.2`; `CFRunLoop.c` is in
`src/16.RunLoop核心原理/CF-1153.18/`. `PROJECT.json` has the full paths.

## 1. Inventory

### Modelled

| Component | State | Operations | Interacts with |
|---|---|---|---|
| **Reference counting** (`objc-object.h`, `NSObject.mm`) | the isa word (`extra_rc`, `has_sidetable_rc`, `deallocating`, `weakly_referenced`, `nonpointer`), the side table word, the side table lock | `rootRetain`, `rootTryRetain`, `rootRelease`, `changeIsa`, `rootDealloc`, `clearDeallocating` and the `sidetable_*` functions | clients by calls, `-dealloc` by callback, weak references through the lock and two flags |
| **Weak references** (`NSObject.mm`, `objc-weak.mm`) | the weak table entry of the object, the `__weak` variable | `objc_storeWeak`, `objc_storeWeakOrNil`, `objc_loadWeakRetained`, `weak_clear_no_lock` | `rootTryRetain`, `rootIsDeallocating`, the side table lock |
| **Autorelease pools** (`NSObject.mm`, `AutoreleasePoolPage`) | the thread's list of pages, its TLS slot (hot page or placeholder), pool tokens held by clients | `push`, `pop`, `autorelease`, `releaseUntil`, `popPage`, `kill`, `tls_dealloc` | `-dealloc` methods that call back into the pool in the middle of a pop |
| **@synchronized** (`objc-sync.mm`) | the list of `SyncData` (object, user count, recursive mutex), its spinlock, the fast cache and the `SyncCache` of each thread | `objc_sync_enter`, `objc_sync_try_enter`, `objc_sync_exit`, `id2data`, `_destroySyncCache` | clients by calls; nothing below but the mutex |
| **+initialize** (`objc-initialize.mm`) | flags of the classes, `_objc_initializing_classes` of each thread, `pendingInitializeMap`, `willInitializeFuncs`, `MultithreadedForkChild` | `initializeNonMetaClass`, `_finishInitializing`, `waitForInitializeToComplete`, `_objc_addWillInitializeClassFunc`, `_objc_atfork_child`, `performForkChildInitialize` | message sends; +initialize methods and callbacks that send messages in turn |
| **+load** (`objc-loadmethod.mm`, `objc-runtime-new.mm`) | `loadable_classes`, `loadable_categories`, the lists under way, `RW_LOADED`, the images | `load_images`, `unmap_image`, `prepare_load_methods`, `schedule_class_load`, `call_load_methods` | dyld by calls; +load methods that call dyld |
| **Method cache** (`objc-cache.mm`, `objc-msg-x86_64.s`) | mask, buckets, `occupied`, heap tables, `garbage_refs` | `insert`, `reallocate`, `eraseNolock`, `collect_free`, `collectNolock`, `_method_setImplementation`, `_objc_flush_caches`, the loads of `CacheLookup` | `objc_msgSend` reads what the writers under `runtimeLock` publish |
| **Run loop** (`CFRunLoop.c`) | the activations of `__CFRunLoopRun`, blocks, signaled sources, ports with messages, stopped modes | `CFRunLoopRunSpecific`, `__CFRunLoopRun`, `CFRunLoopPerformBlock`, `CFRunLoopSourceSignal`, `CFRunLoopWakeUp`, `CFRunLoopStop`, `_CFRunLoopStopMode`, `__CFRunLoopTimeout` | other threads by calls and mach messages; callouts that call back in |

The behaviours that are hard, and what makes each component correct:

- *Reference counting.* Loads and stores of the isa word are a load-linked /
  store-conditional pair (or a compare-and-swap) outside any lock; when
  `extra_rc` overflows or underflows, half the field moves to or from the side
  table under its lock, in two separate writes. Every interleaving of those with
  other retains and releases must conserve the count, decide the end of the
  object exactly once, and leave the lock free. A class change (`changeIsa`)
  may replace the whole representation in between.
- *Weak references.* The variable is read without the lock, the object may die
  before the lock is taken, and the last release does not take the lock at all
  in the common case. A weak load must yield a live reference or nil; a weak
  store over a dying object must leave nothing behind; no variable may survive
  its object.
- *Autorelease pools.* One thread, no concurrency, but the release of an object
  runs arbitrary client code that pushes, autoreleases and pops on the very
  pages being drained. Pages are allocated, kept as spares and freed; an empty
  pool has no page at all; two debugging modes change the layout. Whatever the
  layout, the pages must behave as one stack.
- *@synchronized.* A mutex is lent to one object after another. Its use is found
  in a thread-local cache without a lock and counted down without the list's
  spinlock, and that happens before the mutex is unlocked, so the mutex can be
  given to another object while its last owner still has it. All the same there
  must be one mutex for an object, and it must behave as a recursive lock.
- *+initialize.* The superclass comes first; other threads wait, the thread that
  runs +initialize does not; a subclass whose +initialize ends inside its
  superclass's is only noted down; the flags are also read without the lock; and
  a fork leaves classes behind that nobody will finish.
- *+load.* A +load method may bring in or unmap images, so every list changes
  under the loop that calls it.
- *Method cache.* Readers hold no lock. What they see of two tables, of a mask
  and of a slot depends on the order of single stores, and freeing an old table
  on where every thread's program counter is.
- *Run loop.* The decision to sleep, taken with the lock held, must not miss what
  another thread does before the loop really sleeps; callouts re-enter the loop.

### Not modelled yet, with the state and the difficulty

| Component | State and operations | Hard behaviour | Properties wanted |
|---|---|---|---|
| Weak table (`objc-weak.mm`) | hash table of entries, inline or out of line referrers | growth, shrinking, the union of inline slots and pointer | a table lookup answers like a set of pairs |
| Associated objects (`objc-references.mm`) | a map of maps under one lock, `has_assoc` | values released outside the lock, removal against setting | no value leaked or released twice |
| ARC return hand-off (`objc-object.h`) | one TLS word | what follows the call decides | retain count the same with and without it |
| Block runtime (`runtime.cpp`) | latching counts, `__block` forwarding pointers | concurrent copies and releases | count never wraps, one heap copy |
| KVO / KVC | pending notifications per thread | observers changed inside a change | will and did are paired |
| Jetsam (`kern_memorystatus.c`) | priority bands | kill loop against exits | lowest band first |
| kqueue observer | one dispatch or run loop source | cancel against event | no event after cancel |

Left out for good: lookup, forwarding and realization of classes (data
transformation under one lock, and assembly), the rest of CoreFoundation and
xnu (vendored libraries the course does not study), and the demonstration
applications. `PROJECT.json` gives each with its reason.

## 2. Modules

| Module | Role |
|---|---|
| `ObjectLifetime` | abstract: what clients are promised about one object |
| `RefCount` | reference counting and weak references, one memory access per step |
| `MCRefCount` (+ `.cfg`, `Live.cfg`) | instances of `RefCount` for TLC |
| `RefCountProofs` | inductive invariant of `RefCount`, its consequences, and proof that `RefCount` implements `ObjectLifetime` |
| `PoolStack` | abstract: autorelease pools as one stack of entries |
| `AutoreleasePool` | pools as linked pages of one thread |
| `AutoreleasePoolProofs` | inductive invariant of `AutoreleasePool` and its consequences |
| `AutoreleasePoolRefinement` | proof that `AutoreleasePool` implements `PoolStack` |
| `MCAutoreleasePool` (+ `.cfg`, `MCPoolChildren.cfg`, `MCPoolWhile.cfg`) | instances of `AutoreleasePool` for TLC |
| `RecursiveLocks` | abstract: a recursive lock for every object |
| `ObjcSync` | @synchronized: shared `SyncData`, caches and mutexes |
| `ObjcSyncProofs` | inductive invariant of `ObjcSync`, its consequences, and that it implements `RecursiveLocks` |
| `Initialize` | +initialize in any number of threads |
| `InitializeProofs` | inductive invariant of `Initialize` and its consequences |
| `LoadMethods` | +load and the images that come and go meanwhile |
| `LoadMethodsProofs` | inductive invariant of `LoadMethods` and its consequences |
| `MethodCache` | one method cache, its writer and the readers in `objc_msgSend` |
| `MethodCacheProofs` | inductive invariant of `MethodCache` and its consequences |
| `RunLoop` | a run loop, its nested runs and the threads that call it |
| `RunLoopProofs` | inductive invariant of `RunLoop` and its consequences |
| `MCObjcSync`, `MCInitialize`, `MCLoadMethods` (+ `MCLoadUnmap.cfg`), `MCMethodCache`, `MCRunLoop` (+ `MCRunLoopNested.cfg`) | their instances for TLC |

### `RefCount`

One object, one `__weak` variable, any number of threads, one stripe of the side
table. The build is the one with `SUPPORT_NONPOINTER_ISA`.

*State.* `isa` is the record of the isa bits that matter; a raw isa is one whose
`nonpointer` is `FALSE`. `side` is the side table word with its three fields; a
word of zero stands for an absent entry, which the code does not distinguish
either (only the debug build's `sidetable_present` does). `lock` is the holder
of the side table's spinlock. `entry` says whether the weak table has the object
and `location` is the value of the variable. `pc`, `old`, `handle`, `try` and
`arg` are each thread's place, the isa word it loaded, the two flags of
`rootRetain` and `rootRelease`, and the arguments of its call. `held[t]`, `deallocator`
and `freed` are not in the program: they record the references clients own,
whose `-dealloc` is running, and that the memory was returned.

*Actions.* A step is one access to shared memory, or a critical section that
cannot be told from one access:

| Code | Steps |
|---|---|
| `rootRetain` | `RetainLoad`, `RetainLock`, `RetainStore`, `RetainAdd`; `SidetableRetain`, `SidetableTryRetain` for a raw isa |
| `rootRelease` | `ReleaseLoad`, `ReleaseStore`, `ReleaseLock`, `ReleaseBorrow`, `ReleaseBorrowStore`, `ReleaseBorrowLoad`, `ReleaseBorrowStore2`, `ReleasePutBack`, `ReleaseDealloc`; `SidetableRelease` |
| `changeIsa` | `ChangeIsaLoad`, `ChangeIsaLock`, `ChangeIsaStore`, `ChangeIsaMove` |
| `objc_loadWeakRetained` | `LoadWeakRead`, `LoadWeakLock`, then `rootTryRetain` |
| `storeWeak` | `StoreWeakRead`, `StoreWeakLock`, `StoreWeakLoad`, `StoreWeakStore`, `StoreWeakSet` |
| end of the object | `RootDealloc`, `ClearDeallocating`, `Free` |

A store-conditional fails when the word has changed, and, with
`SpuriousFailure`, also when it has not, as on arm64. `Call...` and `Pass` are
what clients may do: use the object only while they hold a reference (or are its
`-dealloc`), hand a reference to another thread, change the class, load or store
the weak variable at any time.

*Left out:* the early return for metaclasses, saturation at
`SIDE_TABLE_RC_PINNED`, classes with their own retain and release, tagged
pointers, `_objc_rootReleaseWasZero` (a release that does not send `-dealloc`), associated objects
and C++ destructors in `rootDealloc`, the abort paths after a fatal error (the
model stops at the assertion, which `RuntimeAsserts` shows is not reached).

### `AutoreleasePool`

One thread; the structure is thread-local and has no other actor.

*State.* `pages` is the list of pages, coldest first, each the sequence of its
entries; `tls` is the slot: `Nil`, the placeholder, or the index of the hot
page. `tokens` are the pools clients have open and how each was returned to
them (a page and an index, or the placeholder). `frames` is the stack of pops
under way: `page` and `stop` are the locals of `releaseUntil`, `base` and
`callback` say that a `-dealloc` runs on top of it and which pools it found
open. `bad` is set by a pop the code refuses (`badPop` and the assertions).
`env` is the debugging mode chosen when the process starts.

*Actions.* `Push`, `Autorelease`, `Pop` (up to the first release), `ReleaseNext`
(one turn of the outer loop of `releaseUntil`: skip empty pages, take one entry
off, send release), `EndDealloc` (the release returns), `EndPop` (the end of
`releaseUntil` and what `popPage` or `tls_dealloc` does after it), `ThreadExit`.
Between `ReleaseNext` and `EndDealloc` the client actions are enabled again:
that is the `-dealloc`.

*Left out:* the high-water mark and the printing of pools, which only log, and
the lenient `badPop` of executables linked with an old SDK. A `-dealloc` pops
only pools it pushed itself, which is what the compiler generates for
`@autoreleasepool`; it may leave some open, except where
`UnbalancedModes` forbids it.

### `ObjcSync`

One of the parallel lists; the objects in other stripes have nothing in common
with these but the thread's cache, where they are other items.

*State.* `list` is the list of `SyncData`, its head last, each with its object,
`threadCount` and its mutex (`owner`, `depth`); `spin` is who holds the spinlock;
`items[t]` is the fast cache and the `SyncCache` of a thread; `local[t]` says where
a thread is in a call and holds the locals of `id2data`. `held` is not in the
program: what each thread has entered and not begun to exit. `client` is fixed
at the start: careful clients exit what they have entered, careless ones also
what they have not, and end threads with `SyncData` in their caches, which a
failed `objc_sync_try_enter` leaves there.

*Actions.* `CallEnter`, `CallExit`, `CallExitUnowned` and `ThreadExit` are what
clients do. Of `id2data`, `Hit` finds the `SyncData` in a cache (acquire, or
release and `threadCount` down), `Miss` takes the spinlock, `WalkNext` looks at one
entry, `WalkEnd` reuses an unused entry or adds a new one. `Lock`,
`TryLockFails` and `TryUnlock` are the mutex. A step is one access to a
`SyncData` that another thread can see.

*Left out:* `@synchronized(nil)`, which does nothing, `CHECK`, which nothing
calls, and the growth of the arrays. A client that is in an object enters only
objects `Nest` allows, which is what makes waiting free of cycles.

### `Initialize`

*State.* `flag[c]` is the pair of flags of a class, `lists[t]` the classes thread
`t` initializes, `pending` the subclasses in `pendingInitializeMap`, `funcs` the
callbacks, `stack[t]` the nested calls, `forked` the flag of the fork child,
`fatal` whether `_objc_fatal` was called, and for what. `calls`, which counts the
calls of callbacks, is not in the program. `Ancestors`, the superclasses of a class
up to the root, is the least set closed under `Super`.

*Actions.* `Message` and `Send` message a class, from outside and from inside a
+initialize; `InitializeSuper`, `SetInitializing`, `CallBack`, `EndInitialize`,
`IsInitializing`, `IsInitialized`, `WaitForInitializeToComplete` are the steps of
`initializeNonMetaClass` in their order, `EndInitializeInForkChild` the child's
variant; `AddWillInitializeClassFunc` and `CallAdded` register a callback; `Fork`
removes the other threads. The test of "initializing" and that of "initialized"
are two steps, because they are two unlocked reads, and the comment beside them
warns of their order.

*Left out:* classes the loader marks as initialized, and logging. The fork child
may go on only with classes whose +initialize does nothing (`Trivial`); at any
other it halts, which the code does on purpose. Two threads whose +initialize
methods message each other's classes wait for ever; the documentation says so,
and `Messages` in the run has no such cycle across threads.

### `LoadMethods`

*State.* `images` and `maps`, the images that are in and how often they came;
`RW_LOADED`; the two loadable lists; `todo`, what `prepare_load_methods` has still to
schedule, the recursion of `schedule_class_load` being a stack of classes at its
head; `phase`, `detached` and `current`, the place
of `call_load_methods`, the list it has detached and whose +load method runs;
`calls` counts +load calls and is not in the program.

*Actions.* `load_images` and `unmap_image`, when nothing runs or from inside a
+load; `schedule_class_load`, one call of it, and `schedule_category`;
`detach_classes`, `detach_categories`, `skip_unmapped`, `call_load`,
`load_returns`, `end_class_loads`, `end_category_loads`.

*Left out:* other threads, which wait for `loadMethodLock`; dyld's order of
images, except that the class of a category is in before the category, and that
an image goes only when no other one needs it (`Unused`). `Careful`
restricts the passing run to a +load that does not unmap an image whose own +load
methods are just about to run: see finding 3.

### `MethodCache`

The x86_64 build, where stores are seen in program order, with and without
`HAVE_TASK_RESTARTABLE_RANGES`.

*State.* `mask`, `buckets`, `occupied`, `garbage` are the fields of the cache and the
garbage list; `heap` is what is allocated where; `method` the imps in the method
list; `writer` what the holder of `runtimeLock` does; `reader[r]` what a lookup
has loaded, and the imps that were right at some time since it began. `Capacity`
is any size from `INIT_CACHE_SIZE` to `MAX_CACHE_SIZE`. Where the code has powers of
two and takes `& mask`, the model takes `% (mask + 1)`, which is the same for them.

*Actions.* `Insert`, `SetMask`, `Scan`, `SetSel` are `insert` and `reallocate` store
by store; `SetImplementation`, `FlushCaches`, `Flush` replace methods and erase
the cache; `CollectALot` begins the collection that ends `_objc_flush_caches(nil)`,
which takes `runtimeLock` a second time for it: `flushed` counts the threads in
between, and any writer may have the lock meanwhile. `CheckThread` looks at one thread (`_collecting_in_critical`, or the
kernel's restart of a range), `FreeGarbage` frees; `LoadMask`, `LoadBuckets`,
`LoadSel`, `LoadEnd`, `CacheHit` are the loads of `CacheLookup`.

*Left out:* preoptimized caches of the shared cache, the destruction of a
class's cache, the other architectures.

### `RunLoop`

A run loop of a secondary thread.

*State.* `stack` holds the activations of `__CFRunLoopRun` with their locals and
per-run data; the base per-run data, current while nothing runs, has no say in a run, but
ignores wake-ups, so what is sent between two runs is dropped (`IgnoringWakeUps`).
`blocks`, `signaled`, `messages`, `modeStopped` are the shared state;
`waker[t]` says that a thread has made its call and is about to call
`CFRunLoopWakeUp`.

*Actions.* `Run` starts a run, from the thread or from a callout. A turn of the
loop is `DetachBlocks`, `DoBlock`, `EndBlocks`, `DoSource0`, `EndSources0`,
`ServiceMachPort`, `AfterWaiting`, `HandleMessage`, `EndTurn`, with a callout and
`CallOutReturns` wherever the code calls a client. The other threads call
`CFRunLoopPerformBlock`, `CFRunLoopSourceSignal`, `SendMessage`,
`CFRunLoopStop`, `_CFRunLoopStopMode`, `__CFRunLoopTimeout` and `CFRunLoopWakeUp`,
while the loop has given up its lock where the call takes it.

*Left out:* timers, the main dispatch queue, common modes, adding and removing
sources, observers other than those before and after waiting. Calls made by
callouts are those of another thread that happen while the callout runs. Who
adds a block, signals a source or stops a mode is assumed to call
`CFRunLoopWakeUp` after it, as the API asks for. The passing run nests a run
only in callouts of a turn that has already handled something or is past its
sleep: the other case is finding 4.

### Abstract specifications

`ObjectLifetime` knows only how many references each thread owns, whether the
object is alive, in `-dealloc` or freed, and the weak variable. A retain adds
one, the last release starts `-dealloc` in the same step, a weak load succeeds
only on a live object, nothing but the deallocator acts afterwards.
`RefCount!Lifetime` maps to it: `phase` is read off `freed` and `deallocator`.

`PoolStack` is one sequence of entries with the depths of the open pools.
`AutoreleasePool!Stack` maps to it: the concatenation of the pages, the depth of
a token being the number of entries below it; placeholders have no entry until
they are used.

`RecursiveLocks` knows how often each thread is in each object. A thread may
enter if nobody else is in the object. `ObjcSync!Locks` maps to it with
`held`: the lock step is an `Enter`, the call of `objc_sync_exit` an `Exit`, and
everything else, finding, counting, reusing and unlocking, a stutter.

## 3. Runs

| Run | Question | Bounds | Distinct states |
|---|---|---|---|
| `rc_safety` | Is the count conserved, the end decided once, the lifetime implemented? | 2 threads, a nonpointer and a raw class, `RC_HALF = 2` (the field holds 0..3), 4 references per thread, spurious failures | 763,627 |
| `rc_liveness` | Does every call return, is a dropped object freed? | 2 threads, `RC_HALF = 1`, 2 references per thread | 208,289 |
| `pool` | Do the pages behave as a stack, and is no page lost or freed early? | 2 objects, 3 entries per page, 7 entries in all, 2 nested pops, three modes | 415,785 |
| `sync` | Is it one recursive lock an object, and does everybody get in? | 2 threads, 2 objects of which one is entered inside the other, both manners of clients, an object entered at most twice by careful and once by careless ones, `MaxUsers = 2` | 324,998 |
| `initialize` | Does every message return, to the right thread, and once? | 2 threads, 5 classes in a hierarchy four deep, one callback, one fork | 250,154 |
| `method_cache` | Does a lookup read only live memory and find only right imps? | 1 reader, 3 selectors, two of which collide and one of which hashes to the end marker, one method with 2 versions, 2 tables, capacities 4 and 8, one flush of all caches at a time, both builds | 2,432,440 |
| `load` | Is every +load called once and in order? | 4 images, two of them bundles mapped at most twice, 6 classes, 5 categories | 28,201 |
| `run_loop` | Does the loop never sleep on work, and end when told? | 2 modes, 2 sources of version 0 and 1 of version 1, 1 calling thread with 2 calls, the timer thread, 2 runs, nested once | 282,415 |
| `load_unmap` | Is +load sent only to classes of mapped images? (violated) | as `load`, any unmapping | |
| `run_loop_nested` | Is no wake-up lost, wherever a callout nests a run? (violated) | as `run_loop` | |
| `pool_children` | Is every child page empty at the end of `releaseUntil`? (violated) | one mode, 6 entries | |
| `pool_while_if` | Can the inner `while` be an `if`? (violated) | one mode, 6 entries | |

*Why the bounds are enough.* Two threads are what every race in this code needs:
one is between two accesses, the other makes a whole call; a third thread can
only be one more of the second kind. The proofs, wherever there is one, cover any
number of threads, objects, classes, selectors, tables, modes and sources.
With `RC_HALF = 2` the field overflows at four references and two threads hold
up to eight, so the field overflows twice, a borrow may be followed by a retain
that fills the field again, and all four ways out of the second try after a
borrow happen. The
liveness run uses the smallest field, in which nearly every retain overflows.
In `pool`, pages of three entries have a first, a middle and a last slot and
"less than half full" is the empty page, seven entries fill
two pages and start a third, and two nested pops are a `-dealloc` that pops
while its pool is being popped.

In `sync`, two objects and two threads make a `SyncData` change hands while its
last owner has not unlocked it yet, which is where the code is subtle; the
proofs cover any number. `MaxUsers` only stops careless clients from counting on.
The hierarchy of `initialize` has a class whose +initialize messages its
subclass, whose +initialize messages a subclass again, so that two classes end up
pending, and a sibling that comes in from another thread. In `method_cache`
two tables are the cache in use and one waiting to be freed; with three
selectors the cache grows once, and the clamp to `MAX_CACHE_SIZE`, which is
modelled, is not reached. One reader suffices, as readers do not affect one
another; a second one matters only to the loop over the threads, which may
then be at any of them. `MaxFlushed` keeps two threads from being between the two
critical sections of `_objc_flush_caches(nil)`: the second one could only flush and
collect again, as it may once the first is done. In `load` a bundle is mapped,
unmapped and mapped again, before, between and inside +load methods. In
`run_loop` two calls and the timeout meet two activations, or come before the
first run or between two, when no wake-up is delivered.

*Deadlock* is checked except in six instances, where the system may really stop:
`sync` (a thread that has failed to enter needs to do nothing more, and the
bounds are used up), `initialize` (a fork child that halted; no class left to
initialize), `load` and `load_unmap` (every image is in), `run_loop` and
`run_loop_nested` (a loop may sleep for ever when nobody calls it).

### What the properties say

`RefCount`: `CountConserved` (inline count, side table count and what a thread
holding the lock is carrying add up to the references clients own),
`RetainCountExact` (`rootRetainCount` under the lock, which asks the side table only
if `has_sidetable_rc` is set, returns that number: the flag is there whenever it
has to be),
`RuntimeAsserts` (the assertions of the code, over-release and the fatal error
of a weak store are unreachable for a client that owns what it releases),
`OnlyDeallocatorHolds`, `NoUseAfterFree`, `NothingLeftBehind` (side table, weak
table and variable are clean before the memory is freed), `WeakConsistent`
(between critical sections the table, the variable and the flag agree),
`ImplementsLifetime`, and, under fairness, `CallsReturn` and `DroppedIsFreed`.

`AutoreleasePool`: `ReleaseUntilSound` (`WhileIsIf` and `ChildrenEmpty`: what the
comments of `releaseUntil` say, in the modes where it is true), `NoPrematureFree`
(a page a pop still has to use is not freed under it), `PagesKept` (no page is
left when the slot is cleared, and outside pops at most one empty page follows
the hot one), `ImplementsStack`, and, under fairness, `PopReturns`.

`ObjcSync`: `OneLockPerObject` (two `SyncData` never have one object, what a thread
is in keeps its object, and `id2data` never finds its caches "buggy"),
`UsersCounted` (`threadCount` is the number of threads that cache a `SyncData`;
careless clients can only make it too high), `BlockedByHolder` (a thread waits
only for one that is in the object or leaves it, or that is about to unlock the
`SyncData`, which had another object before), `ImplementsLocks`, and, under
fairness, `EnterReturns`.

`Initialize`: `Contiguous` (the part of the hierarchy that is being initialized
hangs together and belongs to one thread), `NeverBuggy` (none of the fatal
errors for a broken state is reached), `CallbackOnce`, `OthersWait` (a message
goes on only when its class is done, or is being done by this thread), and,
under fairness, `MessagesReturn`.

`MethodCache`: `NoDeadRead` (no load from a freed table or past its end),
`LookupRight` (an imp that is found was the method's at some time during the
lookup), `AlwaysEmptySlot` (a scan always ends). `TypeOK` includes that no
table is lost or freed twice.

`LoadMethods`: `LoadOrder` (superclasses and the class of a category have returned
from +load, whatever came in meanwhile), `NoneForgotten` (each +load once),
`LoadsOnlyMapped` (finding 3).

`RunLoop`: `NoWakeUpLost` (a run that sleeps without end has nothing to do, or a
wake-up is on its way, although those sent before it began were dropped),
`StoppedRunEnds` and `SignalServed`, both under fairness.

Each property is paired in `PROJECT.json` with a mutant, or two, of the code it is about
(a dropped reload after a lock, a store without comparing, a forgotten put-back,
a flag not set, ...), under which TLC finds it violated. The mutated operators
stand beside the ones they mutate, and the specifications do not use them.

### Fairness

`RefCount!FairSpec` gives each thread weak fairness on the steps of a call
already begun (the operating system runs every thread) and on starting
`rootDealloc` once `-dealloc` was entered (`-dealloc` returns). Clients have no
fairness. The spinlock is unfair (`os_unfair_lock`), and a compare-and-swap loop
may lose against others for ever, so the properties assume `ClientsStop`: after
some point no new call is made. That an LL/SC pair does not fail for ever
without a conflict is the hardware's promise, so this run has no spurious
failures. `AutoreleasePool!FairSpec` gives weak fairness to the pop under way
and to the return of a `-dealloc`. A `-dealloc` that autoreleases a new object
for every one released would keep a pop going for ever; `MaxEntries` does not
prevent it, and `PopReturns` assumes that clients stop from some point on, as
its comment says.

`ObjcSync!FairSpec`: every thread goes on with its call, and an `@synchronized`
statement ends (`CallExit`). The mutex is unfair, so `EnterReturns` assumes that
from some point on clients only leave; it also needs the nesting of objects
to be free of cycles. `Initialize!FairSpec`: every thread goes on, and +initialize
methods return. `RunLoop!FairSpec`: the owner goes on and callouts return, timers
fire, and `CFRunLoopWakeUp` gets the lock it needs; the last is strong fairness,
because the loop takes that lock and gives it up again and again, so that the call
is enabled infinitely often but not for good. `MethodCache` and `LoadMethods` are
checked for safety only: a lookup is a bounded scan, and the loop of
`call_load_methods` runs as long as images come in.

### Findings

1. `pool_children`. `releaseUntil` ends with the comment "we expect any children
   to be completely empty" and an assertion of it (`NSObject.mm:792-794`). With
   `OBJC_DEBUG_POOL_ALLOCATION`, an object autoreleased with no pool in place
   lies at the start of the cold page; when the thread exits, the object's
   `-dealloc` pushes a pool, which starts a page of its own, and leaves it. The
   loop stops, because the first page is empty down to `stop`, with an entry on
   the child page; the page is then killed and its objects leak. In the other
   modes the comment is true, unbalanced `-dealloc` methods included
   (`ChildrenEmpty` in `pool`).
2. `pool_while_if`. "I think this `while` can be `if`, but I can't prove it"
   (`NSObject.mm:773`). In the normal mode and with `OBJC_DEBUG_MISSING_POOLS`
   it can (`WhileIsIf` in `pool`); with `OBJC_DEBUG_POOL_ALLOCATION` two empty pages in a
   row can be met, so the loop is needed.
3. `load_unmap`. `remove_class_from_loadable_list` looks for a class that is "no
   longer loadable (because its image is being unmapped)"
   (`objc-loadmethod.mm:136`) in `loadable_classes` (`:145`), but
   `call_class_loads` has detached that list. A +load that unmaps a bundle whose
   own +load methods are still to come in the same pass leaves its classes in
   the detached list, and they are sent +load after the image is gone.
4. `run_loop_nested`. The comment of `CFRunLoopWakeUp` says "we don't want to lose a
   wakeup" (`CFRunLoop.c:2767`). The loop decides at line 2428 that it may sleep,
   and calls the observers at `kCFRunLoopBeforeWaiting` only then (2447). When one
   of them runs the loop in another mode, that run receives, or ignores (2761), a
   wake-up meant for the outer one, can do nothing for it, and returns: the outer
   run sleeps with a signaled source, a block or a stop of its own mode. Runs
   nested in the other callouts lose nothing (`run_loop`).

## 4. Proofs

`RefCountProofs` proves, for any finite set of threads, any classes, any field
width and any number of references, that every state of `Spec` satisfies the
invariants of `rc_safety`, and that `Spec` implements `ObjectLifetime`.

*Assumptions.* `ThreadAssumption` (the threads are finitely many and `NoThread`
is none of them), `ClassAssumption` (there is a class, raw classes are classes),
`CountAssumption` (`RC_HALF` and `MaxHeld` are positive), `FailureAssumption`.
The number of threads matters only because references are counted.

*Argument.* None of the invariants is inductive. `CountConserved`, for one, says
nothing about a thread between its load and its store, so a stale store could
break it. `IInv` conjoins

- `TypeOK`;
- `LockInv`: which labels hold the lock, and that at most one thread is where
  the side table is touched, so that counts in flight belong to the holder;
- `OldInv`: what a thread may still believe of the word it loaded (a borrow
  goes on only from a word whose `extra_rc` was zero, ...);
- `IsaInv`: a raw isa has no count and no flags; beside a nonpointer one the
  side table has no flags and a multiple of `RC_HALF`, and none at all unless
  `has_sidetable_rc`;
- `UseInv`: a thread in a call owns what it uses, and has room for what it gets;
- `DyingInv`: the deallocating bit, in whichever word the class keeps it, is set
  exactly from the decision on, and from then on nobody else is in a retain or
  release;
- `WeakInv`: variable, entry and flag agree, except where the lock holder is in
  the middle of changing them;
- `CountInv`: the books balance.

`InvInit` and one lemma per conjunct (`LockStep`, `OldStep`, `IsaStep`,
`UseStep`, `DyingStep`, `WeakStep`, `CountStep`, `TypeStep`), with a step per
action, show that it is inductive; the lemma `LastReference` is the heart of it: a release that finds nothing inline
and nothing in the side table drops the only reference there is. Each theorem
then follows by `IInv => Inv` and temporal reasoning. The proof of `Refinement` maps
`Init` to `Init` and each action to the abstract action or stutter named in its
step.

*Theorems:* `Invariance`, `TypeCorrect`, `Conservation`, `RetainCountIsExact`,
`AssertsHold`, `OnlyOneDeallocator`, `NoUseOfFreedMemory`,
`NothingOutlivesTheObject`, `WeakTableConsistent`, `Refinement`.

`ObjcSyncProofs` proves, for any finite set of threads, any objects, any nesting
and both manners of clients, the safety properties of `sync` and that
`ObjcSync` implements `RecursiveLocks`.

*Assumptions.* `SyncAssumption`: finitely many threads (their users are counted),
`NoThread` is none of them, there is an object, and the bounds are numbers. The
bounds appear only in guards of client calls; nothing in the proof uses them.

*Argument.* That a mutex is held only for one object at a time does not say why.
A thread gives up its use of a `SyncData` and unlocks it later, so in between
the mutex may have another object. `IInv` conjoins, with `TypeOK` and
`UsersCounted`,

- `NodeInv`: caches refer to entries of the list, no call found its cache buggy,
  and a mutex has an owner exactly when it has a depth;
- `WalkInv`: a walk has the spinlock; no entry it passed has its object, nor does
  the thread's cache; the entry it will reuse is still unused;
- `ObjectInv`: one `SyncData` an object, cached once by a thread;
- `HeldInv`: what a thread has entered is in its cache, counted at least as
  often, and the mutex is its own; before the mutex, once more than that;
- `OwnerInv`: the depth of a mutex is the number of its owner's entries, and one
  more from the call of exit to the unlock.

The heart is `KeepStep`: an entry that is reused is in no cache, so nobody has
entered its old object through it; if it has an owner, that one is about to unlock
it for the last time, and has not entered the new object either. `RecountStep`,
`LastReleaseStep`, `WalkOnStep`, `ReturnStep` and `MutexStep` are the other kinds of
steps; `HitStep`, `WalkNextStep`, `LockStep`, ... reduce the actions to them.
`LockEnters` is the refinement: nobody else is in the object of a mutex that is
free, since `HeldInv` would make that one its owner.

*Theorems:* `Invariance`, `TypeCorrect`, `OneLock`, `CountsUsers`, `Blocked`,
`Implementation`.

`InitializeProofs` proves, for any hierarchy, any +initialize methods and
callbacks, any threads, with or without a fork, all the safety properties of
`initialize`.

*Assumptions.* `InitializeAssumption` gives the constants their types and says
that an empty +initialize sends nothing. `HierarchyAssumption`: no class is its
own superclass, however many steps up, which the compiler sees to. The hierarchy
need not be finite.

*Argument.* `NeverBuggy` says that a class whose superclass is done is the only
one to be told to finish, which is a matter of the whole subtree and of who else
may be in it. `IInv` conjoins `TypeOK`, `Contiguous` and

- `FatalInv`: only a fork child halts;
- `StackInv`: the calls of a thread make one another, and each knows of its class
  what the step before has established;
- `SubtreeInv`: what has been entered, or is initialized, above a class;
- `CallbackInv`: each callback that was registered has been called once for each
  class that was entered, or exactly one thread is about to;

and, as long as the child has not halted, `GoInv`:

- `ReadyInv`: beyond the call for the superclass, that one is initialized, or this
  thread's to finish;
- `ListInv`: a thread's list is what it is in the middle of, and what waits;
- `BelowInv`: what is being initialized above or below a class whose +initialize
  a thread runs is on the list of that thread;
- `OrderInv`: a thread enters no class above one it is in the middle of;
- `PendingInv`: a class in `pendingInitializeMap` has a superclass that is being
  initialized and does not wait itself.

`SetInitializingStep` shows that entering a class keeps `BelowInv`: whoever is in a
superclass must be this thread (`ReadyOwner`), and nobody can be below. The heart is
`WaitingFor`: when a class ends, exactly the classes pending on it and on those
are this thread's and wait for nothing else, so that `FinishStep` leaves nobody
behind; `PendStep` is the other end of +initialize. A forked child inherits
classes that no thread will finish: `Trivial` ones may be entered again, which is
why `BelowInv` and `Inside` except them.

*Theorems:* `Invariance`, `TypeCorrect`, `SubtreeContiguous`, `NeverBuggyHolds`,
`CallbacksOnce`, and `OthersDoWait`, which is about steps.

`MethodCacheProofs` proves, for any selectors, readers, tables and limit on the
size, and for both ways to wait for the readers, the safety properties of
`method_cache`.

*Assumptions.* `CacheAssumption`: selectors are numbers other than the two marks,
the static table is none of those allocated, methods have an imp, the limit
(2^16 in the code) is at least `INIT_CACHE_SIZE`, and `MaxFlushed`, which only
`TypeCorrect` speaks of (`FlushBound`), is a number. There may be infinitely many
readers: nobody counts them.

*Argument.* A reader has a mask and a table from two loads, with any number of
reallocations between them. That it stays within the table is no matter of the
present state of the cache. `IInv` conjoins

- `DataInv`, the types, and that every table has its end marker in its last slot
  and nowhere else;
- `TableInv`: tables in use, waiting to be garbage, or garbage, are the ones
  allocated;
- `MaskInv`: the mask is that of the table, or, between the two stores, smaller;
- `WriterInv` and `CountInv`: what the writer knows at each step, and that
  `occupied` counts the slots in use, so that one is always left;
- `CachedInv`: what is cached is the imp of the method or the one being replaced;
- `ReaderInv`: the mask a reader has loaded is not beyond the present one; the table
  it has loaded is in use, or garbage that is not freed before the writer has
  looked at this reader;
- `RightInv`: what a reader may still find was right during its lookup.

As masks only grow, a reader that loads the buckets after the mask is within
them: this is what the order of the stores and loads is for. `FreeGarbageStep` shows that
a reader that may still use a table has not been passed by the writer, `StoreStep`
that a slot is filled only with what is right now.

*Theorems:* `Invariance`, `TypeCorrect`, `NoDeadReads`, `LookupIsRight`,
`EmptySlotLeft`.

`RunLoopProofs` proves `TypeOK` for any modes, sources, threads and depth of
nesting, and `NoWakeUpLost` when runs are nested as in `run_loop`.

*Assumptions.* `LoopAssumption`: the constants have their types, ports are
distinct. `NoWakeUpIsLost` has the hypothesis `~NestAnywhere`, as without it the property is
false: that is finding 4.

*Argument.* When a run goes to sleep it has looked for blocks, sources and stops
at different times, and something may have come in after each of them. A run is
`Attentive` if it has handled nothing in this turn and listens to wake-ups: only
such a run can come to sleep without another turn. `Attended` says of the
innermost one that what came since it looked came with a wake-up that is still on
its way; where wake-ups are dropped because nothing runs there is no such run, and
the next one starts attentive but has yet to look. `StackInv` says that the runs below are not attentive, so that a
wake-up which a nested run receives or ignores is nobody else's.

*Theorems:* `Invariance`, `TypeCorrect`, `NoWakeUpIsLost`.

`LoadMethodsProofs` proves, for any images and any hierarchy, `TypeOK`, and with a
careful +load `LoadOrder` and `NoneForgotten`.

*Assumptions.* `LoadAssumption`: images have no class or category in common, an
image that has a +load method has its class or category, and an image lists a
category once (a class it may list twice: `RW_LOADED` is there for that).
`HierarchyAssumption`: no class is its own superclass, however many
steps up. Neither images nor classes need be finitely many. `SuperclassesFirst` and
`EachLoadOnce` have the hypothesis `Careful`, as without it the first is false: that is
finding 3. `TypeCorrect` holds without it.

*Argument.* `LoadOrder` looks at one +load method that runs, but what it claims was
settled when the lists were built, perhaps several images ago. `IInv` conjoins

- `TypeOK`;
- `PhaseInv`: what each phase has in its lists, and when `todo` may be filled;
- `TodoInv`: a category that is to be scheduled is so once, has a +load and belongs
  to an image that is in;
- `LoadedInv`: `RW_LOADED` has the superclasses of its classes, and the classes with
  +load of the images that are in, but for those in `todo`;
- `ListInv`: what is in a list is scheduled, and in no other list;

and, with a careful +load, `CallsInv` (what was scheduled is in one list and was
not called, or was called once) and `OrderInv` (a superclass with +load comes
before, and what is to be called first is not still to come).

*Theorems:* `Invariance`, `TypeCorrect`, `SuperclassesFirst`, `EachLoadOnce`.

`AutoreleasePoolProofs` proves, for any objects, any size of a page, any mode and any
depth of pops, the invariants of `pool`.

*Assumptions.* `BoundaryAssumption` (the boundary is no object), `PageAssumption` (a page
holds two entries or more: autoreleaseNoPage puts two on a new page without asking
whether it is full), `ModeAssumption` and `BoundAssumption`, of which the proof uses
nothing but that there are such modes. Both debugging variables may be set at once.
`ReleaseUntilIsSound` has the hypothesis that no -dealloc leaves a pool open in a process
that debugs the allocation of pools, as without it the property is false: that is
finding 1. The other theorems hold without it.

*Argument.* `NoPrematureFree` looks at a pop whose page may have been freed by a pop
inside it. In each mode something else forbids that. `IInv` conjoins `TypeOK`, that
`badPop` was not called, and

- `PageInv`: pages beyond the hot one are empty, and, but for page-per-pool debugging,
  those before it are full;
- `TokenInv`: tokens point to boundaries that are there, in the order of the stack;
- `FrameInv`: a pop separates the tokens that stay from those pushed inside it, and
  does not reach below a pop around it;
- `PerPoolInv`: with a page for each pool, a pop inside another is on a later page, and
  only the innermost has its page empty, which is then the hot one;
- `MissingInv`: with `OBJC_DEBUG_MISSING_POOLS`, the first page begins with a boundary,
  so that only the outermost pop can empty and free it;
- `ColdInv`: the first page is empty only in the pop that frees it.

Each action has a lemma. Those that add an entry are reduced to `Grown` (the entry goes
to the hot page or to the next, which is empty) and `GrowStep`; a pop that begins to
`Begun`, a -dealloc that returns to `Marked` and `Shrunk`. `LastUsedPage` shows that the
loop finds an entry to release at or above the page of the pop, `ReleasedStep` that it is
not one of those that stay, and `EndedStep` that what `popPage` frees lies beyond every
pop and token that is left. `FullPageGrows` shows that autoreleaseFullPage never goes
further than one page.

*Theorems:* `Invariance`, `TypeCorrect`, `NoPageFreedEarly`, `PagesAreKept`,
`ReleaseUntilIsSound`.

`AutoreleasePoolRefinement` proves that `AutoreleasePool` implements `PoolStack`, under
the hypothesis of `ReleaseUntilIsSound`: without it `popPage` frees pages with objects in
them (finding 1), which is no step of the stack.

*Argument.* The mapping puts the pages together (`FlattenSeq`) and counts the entries
below a token (`Depth`), both by functions defined by recursion on the number of a page.
That these functions exist and what they give takes an induction up to that number. The
library's induction rule has an operator as parameter, so the induction is made for a set
of numbers instead: a set that has `m`, and the successor of each of its members from `m`
to `n - 1`, has all of `m .. n` (`Upwards`), because the numbers that it lacks would have a
least one (`Smallest`, from the well-foundedness of finite sets under inclusion). From it
follow `JoinedPages`, `SumsAreLengths`, `SameJoined` (pages beyond the m-th do not matter
to the first m), `EmptyEnd` (empty pages at the end add nothing) and `EntryAtEnd` (an entry
at the end of the last page in use is on top of the stack). A step changes no page before
the new hot page (`Agree`), so pools and pops that stay keep their depth (`Kept`,
`SameOpens`, `MarkedDrains`). `GrownFlat`, `NoPageFlat`, `ReleasedFlat` and `FreedFlat` say
what a step does to the stack, one lemma for each action names the step of `PoolStack` it
is, and `NextImplements` collects them. Only the leak of an object with no pool in place is
a stutter: that page-per-pool debugging, the placeholder and the page kept for later cannot
be seen is what the other cases show.

*Theorem:* `PoolsAreAStack`.

*Only model-checked:* liveness (`CallsReturn`, `DroppedIsFreed`, `PopReturns`,
`EnterReturns`, `MessagesReturn`, `StoppedRunEnds`, `SignalServed`: fairness and
`ENABLED` are outside the reach of the prover).

## 5. Plan

In the order of importance. Each module has its MC module and a mutant for each
property. No module that is to be proved about uses recursive operators.

1. **WeakRefs**: several objects and variables on two stripes: `storeWeak` with
   both locks in address order, its retry when the old value has changed,
   `+initialize` run from inside, `objc_destroyWeak`, `objc_copyWeak`,
   `objc_moveWeak`. Absence of deadlock; no variable survives its object.
2. **WeakTable**: an entry's referrers inline or out of line, against a set of
   pairs (refinement). `weak_unregister_no_lock` (`objc-weak.mm:358-376`) is
   worth a run of its own.
3. **Associations**: values neither leaked nor released twice, composed with
   the end of the object from `RefCount`.
4. **BlockRuntime**, **KVONotify**, and as far as room allows **Jetsam** and the
   kqueue observer.

A property of a new module takes the place of the shallowest there is then: the
runs are kept to what is worth asking.

`RefCount` composes with `WeakRefs` (it gives the operations on one object that
`WeakRefs` interleaves) and with `Associations` (the step of `rootDealloc` that
removes them); `AutoreleasePool` uses of an object only its release.
