------------------------------ MODULE MethodCache ------------------------------
(***************************************************************************)
(* The method cache of a class, read by objc_msgSend without a lock:       *)
(* objc-cache.mm and objc-msg-x86_64.s of objc4-818.2.                     *)
(*                                                                         *)
(* The writers hold runtimeLock, so there is one at a time.  It publishes  *)
(* new buckets before their mask, an imp before its selector, and leaves   *)
(* old buckets on a garbage list until no thread is in the lookup code.    *)
(* The readers load the mask, the buckets, then selectors and an imp.      *)
(*                                                                         *)
(* The build for x86_64, where stores are seen in their order.  A step is  *)
(* one access to the memory that readers and writers share.                *)
(***************************************************************************)
EXTENDS Integers, FiniteSets

CONSTANTS
    Reader,       \* the threads in objc_msgSend
    Sel,          \* the selectors, numbers above the end marker
    Replaceable,  \* the selectors whose method can be replaced
    Version,      \* an imp is a selector with one of its versions
    Table,        \* addresses of heap-allocated buckets
    Builds,       \* HAVE_TASK_RESTARTABLE_RANGES, in the builds considered
    MAX_CACHE_SIZE,
    MaxFlushed    \* bound: flushed

VARIABLES
    restartable,  \* HAVE_TASK_RESTARTABLE_RANGES
    method,       \* method[s]: the imp in the method list
    mask, buckets, occupied,
    heap,         \* heap[b]: the buckets allocated at b, if any
    garbage,      \* garbage_refs
    flushed,      \* the threads in _objc_flush_caches(nil) that have yet to collect
    writer, reader

vars == <<restartable, method, mask, buckets, occupied, heap, garbage, flushed, writer, reader>>

INIT_CACHE_SIZE == 4
CACHE_END_MARKER == 1
Nil == 0

emptyBuckets == 0   \* the static table, all zero and as long as any

ASSUME CacheAssumption ==
    /\ Sel \subseteq Nat \ {Nil, CACHE_END_MARKER} /\ emptyBuckets \notin Table
    /\ Replaceable \subseteq Sel /\ Version # {} /\ Builds \subseteq BOOLEAN
    /\ MAX_CACHE_SIZE \in Nat /\ MAX_CACHE_SIZE >= INIT_CACHE_SIZE
    /\ MaxFlushed \in Nat

Imp == Sel \X Version
NoImp == <<Nil, Nil>>
Bucket == [sel : Sel \union {Nil, CACHE_END_MARKER}, imp : Imp \union {NoImp}]
Capacity == INIT_CACHE_SIZE .. MAX_CACHE_SIZE

\* What the writer does, the selector and slot, the capacity it installs, the
\* table it leaves, the threads still to be looked at, the imps being replaced.
Idle == [pc |-> "idle", sel |-> Nil, slot |-> 0, capacity |-> 0, old |-> emptyBuckets,
         left |-> {}, alot |-> FALSE, replaced |-> {}]

\* A lookup: what it has loaded, and the imps that were right since it began.
Out == [pc |-> "out", sel |-> Nil, mask |-> 0, table |-> emptyBuckets, i |-> 0,
        wrapped |-> FALSE, right |-> {}]

Init ==
    /\ restartable \in Builds
    /\ method = LET v == CHOOSE v \in Version : TRUE IN [s \in Sel |-> <<s, v>>]
    /\ mask = 0 /\ buckets = emptyBuckets /\ occupied = 0
    /\ heap = [b \in Table |-> <<>>]
    /\ garbage = {} /\ flushed = 0
    /\ writer = Idle
    /\ reader = [r \in Reader |-> Out]

-----------------------------------------------------------------------------
(* Tables *)

capacity == IF mask = 0 THEN 0 ELSE mask + 1

cache_hash(s, m) == s % (m + 1)

\* Mutant: the table may be full but for the end marker.
cache_fill_ratio_full(n) == n

cache_fill_ratio(n) == (n * 3) \div 4

At(b, i) == IF b = emptyBuckets THEN [sel |-> Nil, imp |-> NoImp] ELSE heap[b][i]

allocateBuckets(n) ==
    [i \in 0 .. n - 1 |-> [sel |-> IF i = n - 1 THEN CACHE_END_MARKER ELSE Nil, imp |-> NoImp]]

isConstantEmptyCache == occupied = 0 /\ buckets = emptyBuckets

\* What the writer does after the buckets were replaced.
Rest(w) ==
    IF w.sel # Nil THEN [w EXCEPT !.pc = "scan", !.left = {}, !.old = emptyBuckets] ELSE Idle

-----------------------------------------------------------------------------
(* insert *)

\* setBucketsAndMask stores the buckets, for now.
Install(w, b) ==
    /\ buckets' = b
    /\ writer' = [w EXCEPT !.pc = "mask"]
    /\ UNCHANGED mask

\* reallocate: new buckets of the capacity, the old ones to be freed or not.
Reallocate(w) ==
    \E b \in Table :
        /\ heap[b] = <<>> /\ \A c \in Table : heap[c] = <<>> => b <= c
        /\ heap' = [heap EXCEPT ![b] = allocateBuckets(w.capacity)]
        /\ Install(w, b)

Insert(s) ==
    /\ writer.pc = "idle"
    /\ LET w == [Idle EXCEPT !.sel = s]
       IN  \/ \* the cache is read-only: replace it
              /\ isConstantEmptyCache
              /\ Reallocate([w EXCEPT !.capacity =
                                IF capacity = 0 THEN INIT_CACHE_SIZE ELSE capacity])
           \/ /\ ~isConstantEmptyCache
              /\ occupied + 1 + CACHE_END_MARKER <= cache_fill_ratio(capacity)
              /\ writer' = [w EXCEPT !.pc = "scan"]
              /\ UNCHANGED <<mask, buckets, heap>>
           \/ /\ ~isConstantEmptyCache
              /\ occupied + 1 + CACHE_END_MARKER > cache_fill_ratio(capacity)
              /\ Reallocate([w EXCEPT !.old = buckets, !.capacity =
                                IF 2 * capacity > MAX_CACHE_SIZE THEN MAX_CACHE_SIZE ELSE 2 * capacity])
    /\ UNCHANGED <<restartable, method, occupied, garbage, flushed, reader>>

\* setBucketsAndMask stores the mask; collect_free, perhaps above the threshold.
SetMask ==
    /\ writer.pc = "mask"
    /\ mask' = writer.capacity - 1
    /\ occupied' = 0
    /\ garbage' = garbage \union ({writer.old} \ {emptyBuckets})
    /\ \/ writer' = Rest(writer)
       \/ writer.old # emptyBuckets /\ writer' = [writer EXCEPT !.pc = "collect", !.left = Reader]
    /\ UNCHANGED <<restartable, method, buckets, heap, flushed, reader>>

\* The slots from the hash on, up to the first that is empty or has s.
Stops(s) == {i \in 0 .. mask : At(buckets, i).sel \in {Nil, s}}
Distance(i, s) == (i + mask + 1 - cache_hash(s, mask)) % (mask + 1)
Found(s) == CHOOSE i \in Stops(s) : \A j \in Stops(s) : Distance(i, s) <= Distance(j, s)

\* Mutant: the selector is stored before the imp.
ScanSelFirst ==
    /\ writer.pc = "scan" /\ Stops(writer.sel) # {}
    /\ LET i == Found(writer.sel)
       IN  IF At(buckets, i).sel = writer.sel THEN writer' = Idle /\ UNCHANGED <<occupied, heap>>
           ELSE /\ occupied' = occupied + 1
                /\ heap' = [heap EXCEPT ![buckets][i].sel = writer.sel]
                /\ writer' = [writer EXCEPT !.pc = "sel", !.slot = i]
    /\ UNCHANGED <<restartable, method, mask, buckets, garbage, flushed, reader>>

\* The loop of insert, and the store of the imp.
Scan ==
    /\ writer.pc = "scan"
    /\ \/ /\ Stops(writer.sel) = {}
          /\ writer' = [writer EXCEPT !.pc = "bad_cache"]
          /\ UNCHANGED <<occupied, heap>>
       \/ /\ Stops(writer.sel) # {}
          /\ LET i == Found(writer.sel)
             IN  \/ \* some other thread added it before we grabbed the lock
                    /\ At(buckets, i).sel = writer.sel
                    /\ writer' = Idle
                    /\ UNCHANGED <<occupied, heap>>
                 \/ /\ At(buckets, i).sel = Nil
                    /\ occupied' = occupied + 1
                    /\ heap' = [heap EXCEPT ![buckets][i].imp = method[writer.sel]]
                    /\ writer' = [writer EXCEPT !.pc = "sel", !.slot = i]
    /\ UNCHANGED <<restartable, method, mask, buckets, garbage, flushed, reader>>

SetSel ==
    /\ writer.pc = "sel"
    /\ heap' = [heap EXCEPT ![buckets][writer.slot] =
                   [sel |-> writer.sel, imp |-> method[writer.sel]]]
    /\ writer' = Idle
    /\ UNCHANGED <<restartable, method, mask, buckets, occupied, garbage, flushed, reader>>

-----------------------------------------------------------------------------
(* method_setImplementation and _objc_flush_caches(nil) *)

SetImplementation(s, v) ==
    /\ writer.pc = "idle" /\ method[s] # <<s, v>>
    /\ method' = [method EXCEPT ![s] = <<s, v>>]
    /\ writer' = [Idle EXCEPT !.pc = "flush", !.replaced = {method[s]}]
    /\ reader' = [r \in Reader |->
                     IF reader[r].sel = s THEN [reader[r] EXCEPT !.right = @ \union {<<s, v>>}]
                     ELSE reader[r]]
    /\ UNCHANGED <<restartable, mask, buckets, occupied, heap, garbage, flushed>>

\* The first of its two critical sections: all caches are flushed.
FlushCaches ==
    /\ writer.pc = "idle" /\ flushed < MaxFlushed
    /\ flushed' = flushed + 1
    /\ writer' = [Idle EXCEPT !.pc = "flush", !.alot = TRUE]
    /\ UNCHANGED <<restartable, method, mask, buckets, occupied, heap, garbage, reader>>

\* shouldFlush: the old imp is cached.
ShouldFlush ==
    writer.alot \/ \E i \in 0 .. mask : At(buckets, i).imp \in writer.replaced

\* eraseNolock
Flush ==
    /\ writer.pc = "flush"
    /\ \/ /\ ShouldFlush /\ occupied > 0
          /\ Install([writer EXCEPT !.capacity = capacity, !.old = buckets], emptyBuckets)
       \/ /\ ~(ShouldFlush /\ occupied > 0)
          /\ writer' = Rest(writer)
          /\ UNCHANGED <<mask, buckets>>
    /\ UNCHANGED <<restartable, method, occupied, heap, garbage, flushed, reader>>

\* The second one, and others may have had the lock in between: collectNolock(true).
CollectALot ==
    /\ writer.pc = "idle" /\ flushed > 0
    /\ flushed' = flushed - 1
    /\ writer' = [Idle EXCEPT !.pc = "alot", !.left = Reader]
    /\ UNCHANGED <<restartable, method, mask, buckets, occupied, heap, garbage, reader>>

-----------------------------------------------------------------------------
(* collectNolock *)

Collecting == writer.pc \in {"collect", "alot"}
EndCollect == IF writer.pc = "alot" THEN Idle ELSE Rest(writer)

\* Mutant: the pc of the threads is not looked at.
InCriticalNever(r) == FALSE

\* The pc of the thread is in objc_restartableRanges.
InCritical(r) == reader[r].pc # "out"

\* One thread in the loop of _collecting_in_critical; or
\* task_restartable_ranges_synchronize, which sends it to LCacheMiss.
CheckThread(r) ==
    /\ Collecting /\ r \in writer.left
    /\ \/ /\ ~InCritical(r) \/ restartable
          /\ writer' = [writer EXCEPT !.left = @ \ {r}]
          /\ reader' = IF InCritical(r) THEN [reader EXCEPT ![r] = Out] ELSE reader
       \/ /\ InCritical(r) /\ ~restartable
          /\ writer' = IF writer.pc = "alot" THEN [writer EXCEPT !.left = Reader] ELSE EndCollect
          /\ UNCHANGED reader
    /\ UNCHANGED <<restartable, method, mask, buckets, occupied, heap, garbage, flushed>>

\* Mutant: the list is not emptied.
FreeGarbageKept ==
    /\ Collecting /\ writer.left = {}
    /\ heap' = [b \in Table |-> IF b \in garbage THEN <<>> ELSE heap[b]]
    /\ writer' = EndCollect
    /\ UNCHANGED <<restartable, method, mask, buckets, occupied, garbage, flushed, reader>>

FreeGarbage ==
    /\ Collecting /\ writer.left = {}
    /\ heap' = [b \in Table |-> IF b \in garbage THEN <<>> ELSE heap[b]]
    /\ garbage' = {}
    /\ writer' = EndCollect
    /\ UNCHANGED <<restartable, method, mask, buckets, occupied, flushed, reader>>

-----------------------------------------------------------------------------
(* CacheLookup *)

ReaderStep(r, new) ==
    /\ reader' = [reader EXCEPT ![r] = new]
    /\ UNCHANGED <<restartable, method, mask, buckets, occupied, heap, garbage, flushed, writer>>

LoadMask(r, s) ==
    /\ reader[r].pc = "out"
    /\ ReaderStep(r, [Out EXCEPT !.pc = "buckets", !.sel = s, !.mask = mask,
                          !.right = {method[s]} \union (writer.replaced \intersect ({s} \X Version))])

LoadBuckets(r) ==
    /\ reader[r].pc = "buckets"
    /\ ReaderStep(r, [reader[r] EXCEPT !.pc = "sel", !.table = buckets,
                          !.i = cache_hash(reader[r].sel, reader[r].mask)])

Here(r) == At(reader[r].table, reader[r].i)

LoadSel(r) ==
    /\ reader[r].pc = "sel"
    /\ ReaderStep(r, [reader[r] EXCEPT !.pc = IF Here(r).sel = reader[r].sel THEN "imp" ELSE "end"])

\* The selector is loaded again: an empty bucket, the end marker, or neither.
LoadEnd(r) ==
    /\ reader[r].pc = "end"
    /\ \/ Here(r).sel = Nil /\ ReaderStep(r, Out)
       \/ /\ Here(r).sel = CACHE_END_MARKER
          /\ ReaderStep(r, IF reader[r].wrapped THEN Out
                           ELSE [reader[r] EXCEPT !.pc = "sel", !.i = 0, !.wrapped = TRUE])
       \/ /\ Here(r).sel \in Sel
          /\ ReaderStep(r, [reader[r] EXCEPT !.pc = "sel", !.i = @ + 1])

CacheHit(r) == reader[r].pc = "imp" /\ ReaderStep(r, Out)

-----------------------------------------------------------------------------
(* Specification *)

WriterStep ==
    \/ SetMask \/ Scan \/ SetSel \/ Flush \/ FreeGarbage
    \/ \E r \in Reader : CheckThread(r)

LookupStep(r) == LoadBuckets(r) \/ LoadSel(r) \/ LoadEnd(r) \/ CacheHit(r)

Next ==
    \/ \E s \in Sel : Insert(s)
    \/ \E s \in Replaceable, v \in Version : SetImplementation(s, v)
    \/ FlushCaches \/ CollectALot
    \/ WriterStep
    \/ \E r \in Reader : LookupStep(r) \/ \E s \in Sel : LoadMask(r, s)

Spec == Init /\ [][Next]_vars

-----------------------------------------------------------------------------
(* Properties *)

\* The type of every variable; and every table is in use, on the garbage list, or
\* free: none is lost, and none is freed twice.
TypeOK ==
    /\ restartable \in Builds
    /\ method \in [Sel -> Imp]
    /\ mask \in {0} \union {n - 1 : n \in Capacity}
    /\ buckets \in Table \union {emptyBuckets}
    /\ occupied \in 0 .. MAX_CACHE_SIZE /\ flushed \in 0 .. MaxFlushed
    /\ \A b \in Table :
           heap[b] = <<>> \/ \E n \in Capacity : heap[b] \in [0 .. n - 1 -> Bucket]
    /\ \A b \in Table :
           (heap[b] # <<>>) <=> (b = buckets \/ b \in garbage \/ (b = writer.old /\ writer.pc = "mask"))
    /\ writer.pc \in {"idle", "mask", "scan", "sel", "flush", "collect", "alot", "bad_cache"}
    /\ writer.left \subseteq Reader /\ writer.replaced \subseteq Imp
    /\ \A r \in Reader : reader[r].pc \in {"out", "buckets", "sel", "end", "imp"}

\* "It is safe to free the memory": a reader never loads from buckets that were
\* freed, nor past the end of them.
NoDeadRead ==
    \A r \in Reader :
        /\ reader[r].pc \in {"sel", "end", "imp"} /\ reader[r].table # emptyBuckets =>
               heap[reader[r].table] # <<>> /\ reader[r].i \in DOMAIN heap[reader[r].table]
        /\ reader[r].pc \in {"sel", "end"} /\ reader[r].table = emptyBuckets =>
               reader[r].i < MAX_CACHE_SIZE

\* "It is unsafe for objc_msgSend to see old imp and new sel", and the result is
\* never "incorrect": the imp of a hit was the method's at some time during the
\* lookup, or while it was being replaced.
LookupRight == \A r \in Reader : reader[r].pc = "imp" => Here(r).imp \in reader[r].right

\* "There is guaranteed to be an empty slot": the cache in use has one, bad_cache
\* is not called, and occupied counts the others.
AlwaysEmptySlot ==
    /\ writer.pc # "bad_cache"
    /\ buckets # emptyBuckets =>
           /\ \E i \in DOMAIN heap[buckets] : heap[buckets][i].sel = Nil
           /\ writer.pc \notin {"mask", "sel"} =>
                  occupied = Cardinality({i \in DOMAIN heap[buckets] : heap[buckets][i].sel \in Sel})
=============================================================================
