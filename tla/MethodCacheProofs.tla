--------------------------- MODULE MethodCacheProofs ---------------------------
(***************************************************************************)
(* Safety of MethodCache.tla for any selectors, readers, tables and sizes: *)
(* the inductive invariant IInv, a lemma for every action that says it     *)
(* preserves IInv, and the theorems that follow.                           *)
(* A reader may hold a mask and buckets of different times, and look at a  *)
(* table that was replaced long ago.  It stays inside it, since masks only *)
(* grow and follow their buckets (MaskInv, ReaderOK); the table stays,     *)
(* since it is in use, or on the garbage list and the writer has yet to    *)
(* look at the reader (TableInv, ReaderOK); and what it finds there under  *)
(* its selector was right since the lookup began (RightOK).                *)
(***************************************************************************)
EXTENDS MethodCache, FiniteSetTheorems, WellFoundedInduction, TLAPS

-----------------------------------------------------------------------------
(* The inductive invariant *)

\* A table of n buckets: the last one holds the end marker, and no other does.
IsTable(f, n) ==
    /\ f \in [0 .. n - 1 -> Bucket]
    /\ \A i \in 0 .. n - 1 : f[i].sel = CACHE_END_MARKER <=> i = n - 1

\* The slots of a table that hold a selector.
Filled(f) == {i \in DOMAIN f : f[i].sel \in Sel}

Used(b) == b = buckets \/ b \in garbage \/ (b = writer.old /\ writer.pc = "mask")

\* A flush has installed the static table, and an insert a new one.
Flushed == writer.sel = Nil

WriterType ==
    [pc : {"idle", "mask", "scan", "sel", "flush", "collect", "alot", "bad_cache"},
     sel : Sel \union {Nil}, slot : Nat, capacity : Nat, old : Table \union {emptyBuckets},
     left : SUBSET Reader, alot : BOOLEAN, replaced : SUBSET Imp]

ReaderType ==
    [pc : {"out", "buckets", "sel", "end", "imp"}, sel : Sel \union {Nil}, mask : Nat,
     table : Table \union {emptyBuckets}, i : Nat, wrapped : BOOLEAN, right : SUBSET Imp]

DataInv ==
    /\ restartable \in Builds
    /\ method \in [Sel -> Imp] /\ \A s \in Sel : method[s] \in {s} \X Version
    /\ mask \in {0} \union {n - 1 : n \in Capacity}
    /\ buckets \in Table \union {emptyBuckets} /\ garbage \subseteq Table
    /\ occupied \in 0 .. MAX_CACHE_SIZE
    /\ heap = [b \in Table |-> heap[b]]
    /\ \A b \in Table : heap[b] = <<>> \/ \E n \in Capacity : IsTable(heap[b], n)
    /\ writer \in WriterType /\ reader \in [Reader -> ReaderType]

\* Tables in use are all there is; the one in use is not garbage, nor is the one
\* that is to be.
TableInv ==
    /\ \A b \in Table : heap[b] # <<>> <=> Used(b)
    /\ buckets \notin garbage
    /\ writer.pc = "mask" => writer.old # buckets \/ buckets = emptyBuckets
    /\ writer.pc = "mask" => writer.old \notin garbage

\* The mask never is beyond the end of the buckets.
MaskInv ==
    /\ buckets # emptyBuckets /\ writer.pc # "mask" => mask # 0 /\ IsTable(heap[buckets], mask + 1)
    /\ writer.pc = "mask" => /\ writer.capacity \in Capacity /\ mask < writer.capacity
                             /\ buckets # emptyBuckets => IsTable(heap[buckets], writer.capacity)

\* What the writer knows.
WriterInv ==
    /\ writer.pc = "idle" => writer = Idle
    /\ writer.sel # Nil => writer.replaced = {}
    /\ writer.pc \in {"idle", "flush", "alot"} => writer.sel = Nil
    /\ writer.pc \in {"scan", "sel"} => writer.sel \in Sel
    /\ writer.pc \in {"mask", "collect", "scan"} /\ writer.sel # Nil => buckets # emptyBuckets
    /\ writer.pc \in {"mask", "collect"} /\ writer.sel = Nil => buckets = emptyBuckets
    /\ writer.pc = "alot" => writer.replaced = {}
    /\ writer.pc \in {"mask", "collect", "flush"} /\ writer.alot => writer.replaced = {}
    /\ writer.pc = "sel" => /\ buckets # emptyBuckets /\ writer.slot \in DOMAIN heap[buckets]
                            /\ heap[buckets][writer.slot].sel = Nil
    /\ writer.pc # "bad_cache"

\* occupied counts the slots that hold a selector, from the store of the imp on;
\* with the end marker they are no more than three quarters.
CountInv ==
    /\ buckets = emptyBuckets /\ writer.pc # "mask" => occupied = 0
    /\ buckets # emptyBuckets /\ writer.pc = "mask" => Filled(heap[buckets]) = {}
    /\ buckets # emptyBuckets /\ writer.pc # "mask" =>
           /\ occupied + CACHE_END_MARKER <= cache_fill_ratio(mask + 1)
           /\ Cardinality(Filled(heap[buckets])) = IF writer.pc = "sel" THEN occupied - 1 ELSE occupied
    /\ writer.pc = "scan" => occupied + 1 + CACHE_END_MARKER <= cache_fill_ratio(mask + 1)
    /\ writer.pc = "collect" => occupied = 0

\* What is cached is the imp of the method, or the one that is being replaced.
CachedInv ==
    buckets # emptyBuckets =>
        \A i \in Filled(heap[buckets]) :
            LET e == heap[buckets][i]
            IN  /\ e.imp \in {e.sel} \X Version
                /\ e.imp = method[e.sel] \/ e.imp \in writer.replaced

Loaded(q) == q.pc \in {"sel", "end", "imp"}

\* The table a reader has loaded is in use, or is garbage that will not be freed
\* before the writer has looked at the reader; and the reader is inside it.
ReaderOK(r, q) ==
    /\ q.pc # "out" => q.sel \in Sel
    /\ q.pc = "buckets" => q.mask <= mask
    /\ Loaded(q) /\ q.table = emptyBuckets => q.i < MAX_CACHE_SIZE
    /\ Loaded(q) /\ q.table # emptyBuckets =>
           /\ Used(q.table) /\ q.i \in DOMAIN heap[q.table]
           /\ q.table \in garbage /\ Collecting => r \in writer.left

ReaderInv == \A r \in Reader : ReaderOK(r, reader[r])

\* A reader finds, of its selector, only what was right during its lookup.
RightOK(q) ==
    /\ q.pc # "out" =>
           /\ method[q.sel] \in q.right
           /\ writer.replaced \intersect ({q.sel} \X Version) \subseteq q.right
    /\ Loaded(q) /\ q.table # emptyBuckets =>
           \A i \in DOMAIN heap[q.table] :
               heap[q.table][i].sel = q.sel => heap[q.table][i].imp \in q.right
    /\ q.pc = "imp" => q.table # emptyBuckets /\ heap[q.table][q.i].sel = q.sel

RightInv == \A r \in Reader : RightOK(reader[r])

\* All of it.
IInv ==
    /\ DataInv /\ TableInv /\ MaskInv /\ WriterInv /\ CountInv
    /\ CachedInv /\ ReaderInv /\ RightInv

-----------------------------------------------------------------------------
(* Tables *)

\* A set of numbers has a smallest one.
LEMMA Smallest ==
    ASSUME NEW S \in SUBSET Nat, S # {}
    PROVE  \E x \in S : \A y \in S : x <= y
<1>. DEFINE Below(x) == S \intersect (0 .. x)
            T == {Below(x) : x \in S}
<1>1. ASSUME NEW x \in S PROVE Below(x) \in FiniteSubsetsOf(S)
  <2>1. IsFiniteSet(0 .. x)
    BY FS_Interval
  <2>2. IsFiniteSet(Below(x))
    BY <2>1, FS_Subset
  <2>. QED
    BY <2>2 DEF FiniteSubsetsOf
<1>2. T \subseteq FiniteSubsetsOf(S) /\ T # {}
    BY <1>1
<1>3. IsWellFoundedOn(StrictSubsetOrdering(S), FiniteSubsetsOf(S))
    BY FS_StrictSubsetOrderingWellFounded
<1>4. PICK B \in T : \A C \in T : ~(<<C, B>> \in StrictSubsetOrdering(S))
    BY <1>2, <1>3, WFMin
<1>5. PICK x \in S : B = Below(x)
    BY <1>4
<1>6. ASSUME NEW y \in S, ~(x <= y) PROVE FALSE
  <2>1. Below(y) \subseteq Below(x) /\ x \in Below(x) /\ x \notin Below(y)
    BY <1>6
  <2>2. <<Below(y), Below(x)>> \in StrictSubsetOrdering(S)
    BY <2>1 DEF StrictSubsetOrdering
  <2>. QED
    BY <1>4, <1>5, <2>2
<1>. QED
    BY <1>6

\* A selector hashes into the table.
LEMMA HashInRange ==
    ASSUME NEW s \in Nat, NEW m \in Nat
    PROVE  cache_hash(s, m) \in 0 .. m
BY DEF cache_hash

\* If there is a slot to stop at, insert finds one.
LEMMA FoundStops ==
    ASSUME NEW s \in Sel, mask \in Nat, Stops(s) # {}
    PROVE  Found(s) \in Stops(s)
<1>1. s \in Nat
    BY CacheAssumption
<1>2. cache_hash(s, mask) \in 0 .. mask
    BY <1>1, HashInRange
<1>3. \A i \in Stops(s) : Distance(i, s) \in Nat
    BY <1>2 DEF Stops, Distance
<1>. DEFINE D == {Distance(i, s) : i \in Stops(s)}
<1>4. D \in SUBSET Nat /\ D # {}
    BY <1>3
<1>5. PICK d \in D : \A e \in D : d <= e
    BY <1>4, Smallest
<1>6. \E i \in Stops(s) : \A j \in Stops(s) : Distance(i, s) <= Distance(j, s)
    BY <1>5
<1>. QED
    BY <1>6 DEF Found

\* A table is not the absence of one, and has the slots it has.
LEMMA TableSlots ==
    ASSUME NEW f, NEW n \in Capacity, IsTable(f, n)
    PROVE  /\ n \in Nat /\ n >= 4 /\ n <= MAX_CACHE_SIZE /\ DOMAIN f = 0 .. n - 1 /\ f # <<>>
           /\ \A i \in 0 .. n - 1 : f[i] \in Bucket
           /\ \A i \in 0 .. n - 1 : f[i].sel = CACHE_END_MARKER <=> i = n - 1
<1>1. n \in Nat /\ n >= 4 /\ n <= MAX_CACHE_SIZE
    BY CacheAssumption DEF Capacity, INIT_CACHE_SIZE
<1>2. DOMAIN f = 0 .. n - 1
    BY DEF IsTable
<1>3. 0 \in DOMAIN f
    BY <1>1, <1>2
<1>4. DOMAIN <<>> = {}
    OBVIOUS
<1>. QED
    BY <1>1, <1>2, <1>3, <1>4 DEF IsTable

\* The size of a table is that of its domain.
LEMMA TableSize ==
    ASSUME NEW f, NEW n \in Capacity, NEW m \in Capacity, IsTable(f, n), DOMAIN f = 0 .. m - 1
    PROVE  m = n
<1>1. n \in Nat /\ m \in Nat /\ n >= 4 /\ m >= 4 /\ 0 .. n - 1 = 0 .. m - 1
    BY TableSlots, CacheAssumption DEF Capacity, INIT_CACHE_SIZE
<1>2. n - 1 \in 0 .. m - 1 /\ m - 1 \in 0 .. n - 1
    BY <1>1
<1>. QED
    BY <1>1, <1>2

\* New buckets are a table that holds no selector.
LEMMA Allocated ==
    ASSUME NEW n \in Capacity
    PROVE  IsTable(allocateBuckets(n), n) /\ Filled(allocateBuckets(n)) = {}
<1>1. n \in Nat /\ n >= 4
    BY CacheAssumption DEF Capacity, INIT_CACHE_SIZE
<1>2. /\ Nil \notin Sel /\ CACHE_END_MARKER \notin Sel /\ Nil # CACHE_END_MARKER
    BY CacheAssumption DEF Nil, CACHE_END_MARKER
<1>3. allocateBuckets(n) \in [0 .. n - 1 -> Bucket]
    BY <1>1 DEF allocateBuckets, Bucket
<1>4. \A i \in 0 .. n - 1 :
          allocateBuckets(n)[i].sel = IF i = n - 1 THEN CACHE_END_MARKER ELSE Nil
    BY DEF allocateBuckets
<1>5. DOMAIN allocateBuckets(n) = 0 .. n - 1
    BY DEF allocateBuckets
<1>. QED
    BY <1>2, <1>3, <1>4, <1>5 DEF IsTable, Filled

\* An imp may be stored in an empty slot, or a method.
LEMMA StoreInTable ==
    ASSUME NEW f, NEW n \in Capacity, IsTable(f, n), NEW i \in 0 .. n - 1, f[i].sel = Nil,
           NEW e \in Bucket, e.sel # CACHE_END_MARKER
    PROVE  /\ IsTable([f EXCEPT ![i] = e], n)
           /\ Filled([f EXCEPT ![i] = e]) = IF e.sel = Nil THEN Filled(f) ELSE Filled(f) \union {i}
<1>. DEFINE g == [f EXCEPT ![i] = e]
<1>1. /\ Nil \notin Sel /\ CACHE_END_MARKER \notin Sel /\ Nil # CACHE_END_MARKER
    BY CacheAssumption DEF Nil, CACHE_END_MARKER
<1>2. /\ g \in [0 .. n - 1 -> Bucket]
      /\ \A j \in 0 .. n - 1 : g[j] = IF j = i THEN e ELSE f[j]
    BY DEF IsTable
<1>3. IsTable(g, n)
    BY <1>1, <1>2 DEF IsTable
<1>4. e.sel = Nil \/ e.sel \in Sel
    BY DEF Bucket
<1>5. DOMAIN g = DOMAIN f /\ DOMAIN f = 0 .. n - 1
    BY DEF IsTable
<1>6. Filled(g) = IF e.sel = Nil THEN Filled(f) ELSE Filled(f) \union {i}
    BY <1>1, <1>2, <1>4, <1>5 DEF Filled
<1>. QED
    BY <1>3, <1>6

\* Selectors fill finitely many slots.
LEMMA FilledFinite ==
    ASSUME NEW f, NEW n \in Capacity, IsTable(f, n)
    PROVE  IsFiniteSet(Filled(f)) /\ Cardinality(Filled(f)) \in Nat
<1>1. n \in Nat /\ DOMAIN f = 0 .. n - 1
    BY TableSlots
<1>2. IsFiniteSet(0 .. n - 1)
    BY <1>1, FS_Interval
<1>. QED
    BY <1>1, <1>2, FS_Subset, FS_CardinalityType DEF Filled

\* "There is guaranteed to be an empty slot."
LEMMA EmptySlot ==
    ASSUME NEW f, NEW n \in Capacity, IsTable(f, n),
           Cardinality(Filled(f)) + CACHE_END_MARKER <= cache_fill_ratio(n)
    PROVE  \E i \in 0 .. n - 1 : f[i].sel = Nil
<1>1. /\ n \in Nat /\ n >= 4 /\ DOMAIN f = 0 .. n - 1
      /\ \A i \in 0 .. n - 1 : f[i] \in Bucket
      /\ \A i \in 0 .. n - 1 : f[i].sel = CACHE_END_MARKER <=> i = n - 1
    BY TableSlots
<1>2. IsFiniteSet(Filled(f)) /\ Cardinality(Filled(f)) \in Nat
    BY FilledFinite
<1>3. cache_fill_ratio(n) < n
    BY <1>1 DEF cache_fill_ratio
<1>4. Cardinality(Filled(f)) + 1 < n
    BY <1>1, <1>2, <1>3 DEF CACHE_END_MARKER, cache_fill_ratio
<1>. SUFFICES ASSUME \A i \in 0 .. n - 1 : f[i].sel # Nil
              PROVE  FALSE
    OBVIOUS
<1>5. 0 .. n - 1 = Filled(f) \union {n - 1}
    BY <1>1 DEF Filled, Bucket
<1>6. Cardinality(0 .. n - 1) = n
    BY <1>1, FS_Interval
<1>7. Cardinality(Filled(f) \union {n - 1}) <= Cardinality(Filled(f)) + 1
  <2>1. Cardinality(Filled(f) \union {n - 1}) =
            IF n - 1 \in Filled(f) THEN Cardinality(Filled(f)) ELSE Cardinality(Filled(f)) + 1
    BY <1>2, FS_AddElement
  <2>. QED
    BY <1>2, <2>1
<1>8. n <= Cardinality(Filled(f)) + 1
    BY <1>5, <1>6, <1>7
<1>. QED
    BY <1>1, <1>2, <1>4, <1>8

-----------------------------------------------------------------------------
(* The lookup *)

\* What a reader may believe depends on it and on what it does not change.
LEMMA ReaderStepInv ==
    ASSUME IInv, NEW r \in Reader, NEW q \in ReaderType, ReaderStep(r, q),
           ReaderOK(r, q), RightOK(q)
    PROVE  IInv'
<1>1. /\ UNCHANGED <<restartable, method, mask, buckets, occupied, heap, garbage, writer>>
      /\ reader' = [reader EXCEPT ![r] = q]
    BY DEF ReaderStep
<1>2. /\ DataInv' /\ \A u \in Reader : reader'[u] = IF u = r THEN q ELSE reader[u]
    BY <1>1 DEF IInv, DataInv, IsTable
<1>3. TableInv' /\ MaskInv' /\ WriterInv'
    BY <1>1 DEF IInv, TableInv, Used, MaskInv, IsTable, WriterInv
<1>4. CountInv' /\ CachedInv'
    BY <1>1 DEF IInv, CountInv, CachedInv
<1>5. ReaderInv'
  <2>1. ASSUME NEW u \in Reader
        PROVE  ReaderOK(u, reader'[u])
    BY <1>2 DEF IInv, ReaderInv
  <2>2. ASSUME NEW u \in Reader
        PROVE  ReaderOK(u, reader[u])'
    BY <1>1, <2>1 DEF ReaderOK, Used, Collecting, Loaded
  <2>. QED
    BY <2>2 DEF ReaderInv
<1>6. RightInv'
  <2>1. ASSUME NEW u \in Reader
        PROVE  RightOK(reader'[u])
    BY <1>2 DEF IInv, RightInv
  <2>2. ASSUME NEW u \in Reader
        PROVE  RightOK(reader[u])'
    BY <1>1, <2>1 DEF RightOK, Loaded
  <2>. QED
    BY <2>2 DEF RightInv
<1>. QED
    BY <1>2, <1>3, <1>4, <1>5, <1>6 DEF IInv

\* Between lookups a reader believes nothing.
LEMMA OutOK == ASSUME NEW r \in Reader PROVE Out \in ReaderType /\ ReaderOK(r, Out) /\ RightOK(Out)
BY DEF Out, ReaderType, ReaderOK, RightOK, Loaded

\* The imp of the method is right from the start.
LEMMA LoadMaskStep ==
    ASSUME IInv, NEW r \in Reader, NEW s \in Sel, LoadMask(r, s)
    PROVE  IInv'
<1>1. mask \in Nat /\ method[s] \in Imp /\ writer.replaced \subseteq Imp
    BY CacheAssumption DEF IInv, DataInv, WriterType, Capacity, INIT_CACHE_SIZE
<1>. DEFINE right == {method[s]} \union (writer.replaced \intersect ({s} \X Version))
<1>2. right \in SUBSET Imp
    BY <1>1
<1>3. PICK q \in ReaderType :
          q = [Out EXCEPT !.pc = "buckets", !.sel = s, !.mask = mask, !.right = right]
    BY <1>1, <1>2 DEF Out, ReaderType
<1>4. q.pc = "buckets" /\ q.sel = s /\ q.mask = mask /\ q.right = right
    BY <1>3 DEF Out
<1>5. ReaderOK(r, q)
    BY <1>1, <1>4 DEF ReaderOK, Loaded
<1>6. RightOK(q)
    BY <1>4 DEF RightOK, Loaded
<1>7. ReaderStep(r, q)
    BY <1>3 DEF LoadMask
<1>. QED
    BY <1>5, <1>6, <1>7, ReaderStepInv

\* The buckets are at least as many as the mask that was loaded before says.
LEMMA LoadBucketsStep == ASSUME IInv, NEW r \in Reader, LoadBuckets(r) PROVE IInv'
<1>1. /\ reader[r] \in ReaderType /\ ReaderOK(r, reader[r]) /\ RightOK(reader[r])
      /\ reader[r].pc = "buckets" /\ reader[r].sel \in Sel /\ reader[r].mask \in Nat
      /\ reader[r].mask <= mask /\ mask \in Nat /\ mask < MAX_CACHE_SIZE
      /\ buckets \in Table \union {emptyBuckets}
  <2>1. reader[r] \in ReaderType /\ ReaderOK(r, reader[r]) /\ RightOK(reader[r])
    BY DEF IInv, DataInv, ReaderInv, RightInv
  <2>2. mask \in Nat /\ mask < MAX_CACHE_SIZE /\ buckets \in Table \union {emptyBuckets}
    BY CacheAssumption DEF IInv, DataInv, Capacity, INIT_CACHE_SIZE
  <2>. QED
    BY <2>1, <2>2 DEF LoadBuckets, ReaderOK, ReaderType
<1>. DEFINE h == cache_hash(reader[r].sel, reader[r].mask)
<1>2. h \in 0 .. reader[r].mask /\ h \in Nat
  <2>1. reader[r].sel \in Nat
    BY <1>1, CacheAssumption
  <2>2. reader[r].mask \in Nat
    BY <1>1
  <2>3. h \in 0 .. reader[r].mask
    BY <2>1, <2>2, HashInRange
  <2>. QED
    BY <2>2, <2>3
<1>3. PICK q \in ReaderType : q = [reader[r] EXCEPT !.pc = "sel", !.table = buckets, !.i = h]
    BY <1>1, <1>2 DEF ReaderType
<1>4. /\ q.pc = "sel" /\ q.table = buckets /\ q.i = h
      /\ q.sel = reader[r].sel /\ q.right = reader[r].right
    BY <1>1, <1>3 DEF ReaderType
<1>5. ASSUME buckets # emptyBuckets
      PROVE  \E n \in Capacity : IsTable(heap[buckets], n) /\ mask < n
  <2>1. CASE writer.pc = "mask"
    BY <1>5, <2>1 DEF IInv, MaskInv
  <2>2. CASE writer.pc # "mask"
    <3>1. mask # 0 /\ IsTable(heap[buckets], mask + 1)
      BY <1>5, <2>2 DEF IInv, MaskInv
    <3>2. mask + 1 \in Capacity
      BY <3>1, CacheAssumption DEF IInv, DataInv, Capacity, INIT_CACHE_SIZE
    <3>. QED
      BY <1>1, <3>1, <3>2
  <2>. QED
    BY <2>1, <2>2
<1>6. ReaderOK(r, q)
  <2>1. ASSUME buckets # emptyBuckets
        PROVE  h \in DOMAIN heap[buckets]
    <3>1. PICK n \in Capacity : IsTable(heap[buckets], n) /\ mask < n
      BY <1>5, <2>1
    <3>2. n \in Nat /\ DOMAIN heap[buckets] = 0 .. n - 1
      BY <3>1, TableSlots
    <3>. QED
      BY <1>1, <1>2, <3>1, <3>2
  <2>2. buckets \notin garbage /\ Used(buckets)
    BY DEF IInv, TableInv, Used
  <2>3. h < MAX_CACHE_SIZE
    BY <1>1, <1>2, CacheAssumption
  <2>. QED
    BY <1>1, <1>4, <2>1, <2>2, <2>3 DEF ReaderOK, Loaded
<1>7. RightOK(q)
  <2>1. ASSUME buckets # emptyBuckets, NEW i \in DOMAIN heap[buckets],
               heap[buckets][i].sel = reader[r].sel
        PROVE  heap[buckets][i].imp \in reader[r].right
    <3>1. i \in Filled(heap[buckets])
      BY <1>1, <2>1 DEF Filled
    <3>2. /\ heap[buckets][i].imp \in {reader[r].sel} \X Version
          /\ heap[buckets][i].imp = method[reader[r].sel] \/ heap[buckets][i].imp \in writer.replaced
      BY <2>1, <3>1 DEF IInv, CachedInv
    <3>. QED
      BY <1>1, <3>2 DEF RightOK
  <2>2. /\ method[reader[r].sel] \in reader[r].right
        /\ writer.replaced \intersect ({reader[r].sel} \X Version) \subseteq reader[r].right
    BY <1>1 DEF RightOK
  <2>. QED
    BY <1>4, <2>1, <2>2 DEF RightOK, Loaded
<1>8. ReaderStep(r, q)
    BY <1>3 DEF LoadBuckets
<1>. QED
    BY <1>6, <1>7, <1>8, ReaderStepInv

\* In the loop, a reader looks at the slot it is at.
LEMMA ReaderAt ==
    ASSUME IInv, NEW r \in Reader, Loaded(reader[r])
    PROVE  /\ reader[r] \in ReaderType /\ ReaderOK(r, reader[r]) /\ RightOK(reader[r])
           /\ reader[r].sel \in Sel
           /\ reader[r].table = emptyBuckets => Here(r).sel = Nil
           /\ reader[r].table # emptyBuckets =>
                  /\ Here(r) = heap[reader[r].table][reader[r].i]
                  /\ \E n \in Capacity : IsTable(heap[reader[r].table], n)
<1>1. /\ reader[r] \in ReaderType /\ ReaderOK(r, reader[r]) /\ RightOK(reader[r])
    BY DEF IInv, DataInv, ReaderInv, RightInv
<1>2. reader[r].sel \in Sel
    BY <1>1 DEF ReaderOK, Loaded
<1>3. ASSUME reader[r].table # emptyBuckets
      PROVE  \E n \in Capacity : IsTable(heap[reader[r].table], n)
  <2>1. reader[r].table \in Table /\ Used(reader[r].table)
    BY <1>1, <1>3 DEF ReaderOK, ReaderType
  <2>2. heap[reader[r].table] # <<>>
    BY <2>1 DEF IInv, TableInv
  <2>. QED
    BY <2>1, <2>2 DEF IInv, DataInv
<1>. QED
    BY <1>1, <1>2, <1>3 DEF Here, At

\* A slot that has the selector has the right imp.
LEMMA LoadSelStep == ASSUME IInv, NEW r \in Reader, LoadSel(r) PROVE IInv'
<1>1. /\ reader[r].pc = "sel" /\ Loaded(reader[r])
      /\ ReaderStep(r, [reader[r] EXCEPT !.pc = IF Here(r).sel = reader[r].sel THEN "imp" ELSE "end"])
    BY DEF LoadSel, Loaded
<1>2. /\ reader[r] \in ReaderType /\ ReaderOK(r, reader[r]) /\ RightOK(reader[r])
      /\ reader[r].sel \in Sel
      /\ reader[r].table = emptyBuckets => Here(r).sel = Nil
      /\ reader[r].table # emptyBuckets => Here(r) = heap[reader[r].table][reader[r].i]
    BY <1>1, ReaderAt
<1>3. Nil \notin Sel
    BY CacheAssumption
<1>4. PICK q \in ReaderType :
          q = [reader[r] EXCEPT !.pc = IF Here(r).sel = reader[r].sel THEN "imp" ELSE "end"]
    BY <1>2 DEF ReaderType
<1>5. /\ Loaded(q) /\ q.table = reader[r].table /\ q.i = reader[r].i /\ q.sel = reader[r].sel
      /\ q.right = reader[r].right /\ q.pc # "buckets"
      /\ q.pc = "imp" => Here(r).sel = reader[r].sel
    BY <1>2, <1>4 DEF ReaderType, Loaded
<1>6. ReaderOK(r, q)
    BY <1>1, <1>2, <1>5 DEF ReaderOK
<1>7. RightOK(q)
    BY <1>1, <1>2, <1>3, <1>5 DEF RightOK
<1>. QED
    BY <1>1, <1>4, <1>6, <1>7, ReaderStepInv

\* The end marker keeps the reader inside the table.
LEMMA LoadEndStep == ASSUME IInv, NEW r \in Reader, LoadEnd(r) PROVE IInv'
<1>1. reader[r].pc = "end" /\ Loaded(reader[r])
    BY DEF LoadEnd, Loaded
<1>2. /\ reader[r] \in ReaderType /\ ReaderOK(r, reader[r]) /\ RightOK(reader[r])
      /\ reader[r].sel \in Sel
      /\ reader[r].table = emptyBuckets => Here(r).sel = Nil
      /\ reader[r].table # emptyBuckets =>
             /\ Here(r) = heap[reader[r].table][reader[r].i]
             /\ \E n \in Capacity : IsTable(heap[reader[r].table], n)
    BY <1>1, ReaderAt
<1>3. Nil \notin Sel /\ CACHE_END_MARKER \notin Sel /\ Nil # CACHE_END_MARKER
    BY CacheAssumption DEF Nil, CACHE_END_MARKER
<1>4. CASE ReaderStep(r, Out)
    BY <1>4, OutOK, ReaderStepInv
<1>5. ASSUME NEW j \in Nat, NEW w \in BOOLEAN, Here(r).sel # Nil,
             reader[r].table # emptyBuckets => j \in DOMAIN heap[reader[r].table],
             ReaderStep(r, [reader[r] EXCEPT !.pc = "sel", !.i = j, !.wrapped = w])
      PROVE  IInv'
  <2>1. PICK q \in ReaderType : q = [reader[r] EXCEPT !.pc = "sel", !.i = j, !.wrapped = w]
    BY <1>2 DEF ReaderType
  <2>2. /\ Loaded(q) /\ q.table = reader[r].table /\ q.i = j /\ q.sel = reader[r].sel
        /\ q.right = reader[r].right /\ q.pc = "sel"
    BY <1>2, <2>1 DEF ReaderType, Loaded
  <2>3. ReaderOK(r, q)
    BY <1>1, <1>2, <1>5, <2>2 DEF ReaderOK
  <2>4. RightOK(q)
    BY <1>1, <1>2, <2>2 DEF RightOK
  <2>. QED
    BY <1>5, <2>1, <2>3, <2>4, ReaderStepInv
<1>6. CASE /\ Here(r).sel = CACHE_END_MARKER /\ ~reader[r].wrapped
           /\ ReaderStep(r, [reader[r] EXCEPT !.pc = "sel", !.i = 0, !.wrapped = TRUE])
  <2>1. reader[r].table # emptyBuckets => 0 \in DOMAIN heap[reader[r].table]
    BY <1>2, TableSlots
  <2>. QED
    BY <1>3, <1>5, <1>6, <2>1
<1>7. CASE /\ Here(r).sel \in Sel
           /\ ReaderStep(r, [reader[r] EXCEPT !.pc = "sel", !.i = @ + 1])
  <2>1. reader[r].i \in Nat /\ reader[r].wrapped \in BOOLEAN
    BY <1>2 DEF ReaderType
  <2>2. ASSUME reader[r].table # emptyBuckets
        PROVE  reader[r].i + 1 \in DOMAIN heap[reader[r].table]
    <3>1. PICK n \in Capacity : IsTable(heap[reader[r].table], n)
      BY <1>2, <2>2
    <3>2. /\ n \in Nat /\ DOMAIN heap[reader[r].table] = 0 .. n - 1
          /\ \A i \in 0 .. n - 1 : heap[reader[r].table][i].sel = CACHE_END_MARKER <=> i = n - 1
      BY <3>1, TableSlots
    <3>3. reader[r].i \in 0 .. n - 1
      BY <1>1, <1>2, <2>2, <3>2 DEF ReaderOK
    <3>4. reader[r].i # n - 1
      BY <1>2, <1>3, <1>7, <2>2, <3>2, <3>3
    <3>. QED
      BY <3>2, <3>3, <3>4
  <2>3. [reader[r] EXCEPT !.pc = "sel", !.i = @ + 1] =
            [reader[r] EXCEPT !.pc = "sel", !.i = reader[r].i + 1, !.wrapped = reader[r].wrapped]
    BY <1>2 DEF ReaderType
  <2>4. /\ ReaderStep(r, [reader[r] EXCEPT !.pc = "sel", !.i = reader[r].i + 1,
                                            !.wrapped = reader[r].wrapped])
        /\ reader[r].i + 1 \in Nat /\ Here(r).sel # Nil
    BY <1>3, <1>7, <2>1, <2>3
  <2>. QED
    BY <1>5, <2>1, <2>2, <2>4
<1>. QED
    BY <1>4, <1>6, <1>7 DEF LoadEnd

\* A hit ends the lookup.
LEMMA CacheHitStep == ASSUME IInv, NEW r \in Reader, CacheHit(r) PROVE IInv'
BY OutOK, ReaderStepInv DEF CacheHit

-----------------------------------------------------------------------------
(* The writer, while the tables stay as they are *)

\* The parts of the invariant that speak of tables outlast steps in which the
\* tables, the mask and what is used stay as they are.
LEMMA SameTables ==
    ASSUME IInv, UNCHANGED <<restartable, method, mask, buckets, occupied, heap, garbage, reader>>,
           writer' \in WriterType, writer.pc # "mask", writer'.pc # "mask"
    PROVE  /\ DataInv' /\ TableInv' /\ MaskInv'
           /\ \A b : Used(b)' <=> Used(b)
<1>1. DataInv'
    BY DEF IInv, DataInv, IsTable
<1>2. \A b : Used(b)' <=> Used(b)
    BY DEF Used
<1>3. TableInv'
    BY <1>2 DEF IInv, TableInv
<1>4. MaskInv'
    BY DEF IInv, MaskInv, IsTable
<1>. QED
    BY <1>1, <1>2, <1>3, <1>4

\* So do those of readers, if the writer holds on to the garbage they look at.
LEMMA SameReaders ==
    ASSUME IInv, UNCHANGED <<restartable, method, mask, buckets, occupied, heap, garbage, reader>>,
           writer' \in WriterType, writer.pc # "mask", writer'.pc # "mask",
           writer'.replaced \subseteq writer.replaced,
           \A r \in Reader : Collecting' => \/ r \in writer'.left
                                            \/ ~Loaded(reader[r])
                                            \/ Collecting /\ r \notin writer.left
    PROVE  ReaderInv' /\ RightInv'
<1>1. \A b : Used(b)' <=> Used(b)
    BY SameTables
<1>2. ASSUME NEW r \in Reader
      PROVE  ReaderOK(r, reader[r])'
  <2>1. ReaderOK(r, reader[r])
    BY DEF IInv, ReaderInv
  <2>. QED
    BY <1>1, <2>1 DEF ReaderOK, Loaded
<1>3. ASSUME NEW r \in Reader
      PROVE  RightOK(reader[r])'
  <2>1. RightOK(reader[r])
    BY DEF IInv, RightInv
  <2>. QED
    BY <2>1 DEF RightOK, Loaded
<1>. QED
    BY <1>2, <1>3 DEF ReaderInv, RightInv

\* A flush of all caches begins with no method replaced.
LEMMA FlushCachesStep == ASSUME IInv, FlushCaches PROVE IInv'
<1>1. /\ UNCHANGED <<restartable, method, mask, buckets, occupied, heap, garbage, reader>>
      /\ writer = Idle /\ writer.pc = "idle" /\ writer' = [Idle EXCEPT !.pc = "flush", !.alot = TRUE]
    BY DEF FlushCaches, IInv, WriterInv
<1>2. /\ writer' \in WriterType /\ writer'.pc = "flush" /\ writer'.sel = Nil
      /\ writer'.replaced = {} /\ writer.replaced = {}
    BY <1>1 DEF Idle, WriterType
<1>3. DataInv' /\ TableInv' /\ MaskInv'
    BY <1>1, <1>2, SameTables
<1>4. WriterInv' /\ CountInv' /\ CachedInv'
    BY <1>1, <1>2 DEF IInv, WriterInv, CountInv, CachedInv
<1>5. ReaderInv' /\ RightInv'
    BY <1>1, <1>2, SameReaders DEF Collecting
<1>. QED
    BY <1>3, <1>4, <1>5 DEF IInv

\* The collection begins, whatever others have done since.
LEMMA CollectALotStep == ASSUME IInv, CollectALot PROVE IInv'
<1>1. /\ writer.pc = "idle" /\ writer.replaced = {}
      /\ UNCHANGED <<restartable, method, mask, buckets, occupied, heap, garbage, reader>>
    BY DEF CollectALot, Idle, IInv, WriterInv
<1>2. /\ writer' \in WriterType /\ writer'.pc = "alot" /\ writer'.sel = Nil
      /\ writer'.replaced = {} /\ writer'.left = Reader
    BY DEF CollectALot, Idle, WriterType
<1>3. DataInv' /\ TableInv' /\ MaskInv'
    BY <1>1, <1>2, SameTables
<1>4. WriterInv' /\ CountInv' /\ CachedInv'
    BY <1>1, <1>2 DEF IInv, WriterInv, CountInv, CachedInv
<1>5. ReaderInv' /\ RightInv'
    BY <1>1, <1>2, SameReaders
<1>. QED
    BY <1>3, <1>4, <1>5 DEF IInv

\* The old imp is right for those in a lookup of the selector, and so is the new.
LEMMA SetImplementationStep ==
    ASSUME IInv, NEW s \in Sel, NEW v \in Version, SetImplementation(s, v)
    PROVE  IInv'
<1>1. /\ UNCHANGED <<restartable, mask, buckets, occupied, heap, garbage>>
      /\ writer = Idle /\ writer.pc = "idle"
      /\ writer' = [Idle EXCEPT !.pc = "flush", !.replaced = {method[s]}]
      /\ method' = [method EXCEPT ![s] = <<s, v>>]
      /\ reader' = [r \in Reader |->
                       IF reader[r].sel = s THEN [reader[r] EXCEPT !.right = @ \union {<<s, v>>}]
                       ELSE reader[r]]
    BY DEF SetImplementation, IInv, WriterInv
<1>2. method \in [Sel -> Imp] /\ (\A u \in Sel : method[u] \in {u} \X Version) /\ <<s, v>> \in Imp
    BY DEF IInv, DataInv, Imp
<1>3. /\ writer' \in WriterType /\ writer'.pc = "flush" /\ writer'.sel = Nil /\ ~writer'.alot
      /\ writer'.replaced = {method[s]} /\ writer.replaced = {}
  <2>1. {method[s]} \in SUBSET Imp
    BY <1>2
  <2>. QED
    BY <1>1, <2>1 DEF Idle, WriterType
<1>4. ASSUME NEW r \in Reader
      PROVE  /\ reader'[r] \in ReaderType /\ reader[r] \in ReaderType
             /\ reader'[r].pc = reader[r].pc /\ reader'[r].sel = reader[r].sel
             /\ reader'[r].mask = reader[r].mask /\ reader'[r].table = reader[r].table
             /\ reader'[r].i = reader[r].i
             /\ reader'[r].right =
                    IF reader[r].sel = s THEN reader[r].right \union {<<s, v>>} ELSE reader[r].right
  <2>1. reader[r] \in ReaderType
    BY DEF IInv, DataInv
  <2>2. CASE reader[r].sel = s
    <3>1. reader'[r] = [reader[r] EXCEPT !.right = @ \union {<<s, v>>}]
      BY <1>1, <2>2
    <3>. QED
      BY <1>2, <2>1, <2>2, <3>1 DEF ReaderType
  <2>3. CASE reader[r].sel # s
    BY <1>1, <2>1, <2>3
  <2>. QED
    BY <2>2, <2>3
<1>5. /\ method' \in [Sel -> Imp] /\ \A u \in Sel : method'[u] \in {u} \X Version
      /\ \A u \in Sel : method'[u] = IF u = s THEN <<s, v>> ELSE method[u]
    BY <1>1, <1>2
<1>6. DataInv'
  <2>1. reader' \in [Reader -> ReaderType]
    BY <1>1, <1>4
  <2>. QED
    BY <1>1, <1>3, <1>5, <2>1 DEF IInv, DataInv, IsTable
<1>7. \A b : Used(b)' <=> Used(b)
    BY <1>1, <1>3 DEF Used
<1>8. TableInv' /\ MaskInv'
    BY <1>1, <1>3, <1>7 DEF IInv, TableInv, MaskInv, IsTable
<1>9. WriterInv' /\ CountInv'
    BY <1>1, <1>3 DEF IInv, WriterInv, CountInv
<1>10. CachedInv'
  <2>. SUFFICES ASSUME buckets # emptyBuckets, NEW i \in Filled(heap[buckets])
                PROVE  /\ heap[buckets][i].imp \in {heap[buckets][i].sel} \X Version
                       /\ \/ heap[buckets][i].imp = method'[heap[buckets][i].sel]
                          \/ heap[buckets][i].imp \in writer'.replaced
    BY <1>1 DEF CachedInv
  <2>1. /\ heap[buckets][i].imp \in {heap[buckets][i].sel} \X Version
        /\ heap[buckets][i].imp = method[heap[buckets][i].sel] /\ heap[buckets][i].sel \in Sel
    BY <1>3 DEF IInv, CachedInv, Filled
  <2>. QED
    BY <1>3, <1>5, <2>1
<1>11. ASSUME NEW r \in Reader
       PROVE  ReaderOK(r, reader[r])'
  <2>1. ReaderOK(r, reader[r])
    BY DEF IInv, ReaderInv
  <2>. QED
    BY <1>1, <1>3, <1>4, <1>7, <2>1 DEF ReaderOK, Loaded, Collecting
<1>12. ASSUME NEW r \in Reader
       PROVE  RightOK(reader[r])'
  <2>1. RightOK(reader[r]) /\ (reader[r].pc # "out" => reader[r].sel \in Sel)
    BY DEF IInv, RightInv, ReaderInv, ReaderOK
  <2>2. reader[r].right \subseteq reader'[r].right
    BY <1>4
  <2>3. ASSUME reader[r].pc # "out"
        PROVE  /\ method'[reader[r].sel] \in reader'[r].right
               /\ writer'.replaced \intersect ({reader[r].sel} \X Version) \subseteq reader'[r].right
    <3>1. method'[reader[r].sel] \in reader'[r].right
      BY <1>4, <1>5, <2>1, <2>3 DEF RightOK
    <3>2. method[s] \in {reader[r].sel} \X Version => method[s] \in reader'[r].right
      BY <1>2, <2>1, <2>2, <2>3 DEF RightOK
    <3>. QED
      BY <1>3, <3>1, <3>2
  <2>. QED
    BY <1>1, <1>4, <2>1, <2>2, <2>3 DEF RightOK, Loaded
<1>. QED
    BY <1>6, <1>8, <1>9, <1>10, <1>11, <1>12 DEF IInv, ReaderInv, RightInv

-----------------------------------------------------------------------------
(* The writer, in flushes and collections *)

\* After the buckets were replaced the writer is idle, or goes on with the insert.
LEMMA RestFields ==
    ASSUME NEW w \in WriterType
    PROVE  /\ Rest(w) \in WriterType
           /\ \/ w.sel # Nil /\ Rest(w).pc = "scan" /\ Rest(w).sel = w.sel
              \/ w.sel = Nil /\ Rest(w) = Idle
           /\ Rest(w) # Idle => Rest(w).replaced = w.replaced /\ Rest(w).alot = w.alot
           /\ Rest(w).pc \in {"idle", "scan"}
<1>1. CASE w.sel # Nil
  <2>1. Rest(w) = [w EXCEPT !.pc = "scan", !.left = {}, !.old = emptyBuckets]
    BY <1>1 DEF Rest
  <2>. QED
    BY <1>1, <2>1 DEF WriterType
<1>2. CASE w.sel = Nil
  <2>1. Rest(w) = Idle
    BY <1>2 DEF Rest
  <2>2. Idle \in WriterType /\ Idle.pc = "idle"
    BY DEF Idle, WriterType
  <2>. QED
    BY <1>2, <2>1, <2>2
<1>. QED
    BY <1>1, <1>2

\* A flush leaves nothing of a method that was replaced: either nothing of it is
\* cached, or the static table is installed.
LEMMA FlushStep == ASSUME IInv, Flush PROVE IInv'
<1>1. /\ writer.pc = "flush" /\ writer.sel = Nil /\ writer \in WriterType
      /\ UNCHANGED <<restartable, method, occupied, heap, garbage, reader>>
    BY DEF Flush, IInv, WriterInv, DataInv
<1>2. CASE ShouldFlush /\ occupied > 0
  <2>1. /\ buckets' = emptyBuckets /\ UNCHANGED mask
        /\ writer' = [[writer EXCEPT !.capacity = capacity, !.old = buckets] EXCEPT !.pc = "mask"]
    BY <1>1, <1>2 DEF Flush, Install
  <2>2. buckets # emptyBuckets /\ buckets \in Table
    BY <1>1, <1>2 DEF IInv, CountInv, DataInv
  <2>3. /\ mask # 0 /\ IsTable(heap[buckets], mask + 1) /\ capacity = mask + 1
        /\ mask + 1 \in Capacity /\ mask \in Nat
    BY <1>1, <2>2, CacheAssumption DEF IInv, MaskInv, DataInv, Capacity, INIT_CACHE_SIZE, capacity
  <2>4. capacity \in Nat
    BY <2>3
  <2>5. /\ writer' \in WriterType /\ writer'.pc = "mask" /\ writer'.sel = Nil
        /\ writer'.old = buckets /\ writer'.capacity = mask + 1
        /\ writer'.replaced = writer.replaced /\ writer'.alot = writer.alot
    BY <1>1, <2>1, <2>2, <2>3, <2>4 DEF WriterType
  <2>6. DataInv'
    BY <1>1, <2>1, <2>5 DEF IInv, DataInv, IsTable
  <2>7. \A b \in Table : Used(b)' <=> Used(b)
    BY <1>1, <2>1, <2>5, CacheAssumption DEF Used
  <2>8. TableInv'
    BY <1>1, <2>1, <2>2, <2>5, <2>7, CacheAssumption DEF IInv, DataInv, TableInv
  <2>9. MaskInv'
    BY <2>1, <2>3, <2>5 DEF MaskInv
  <2>10. WriterInv'
    BY <1>1, <2>1, <2>5 DEF IInv, WriterInv
  <2>11. CountInv' /\ CachedInv'
    BY <2>1, <2>5 DEF CountInv, CachedInv
  <2>12. ASSUME NEW r \in Reader
         PROVE  ReaderOK(r, reader[r])' /\ RightOK(reader[r])'
    <3>1. ReaderOK(r, reader[r]) /\ RightOK(reader[r]) /\ reader[r] \in ReaderType
      BY DEF IInv, ReaderInv, RightInv, DataInv
    <3>2. reader[r].table # emptyBuckets => (Used(reader[r].table)' <=> Used(reader[r].table))
      BY <1>1, <2>1, <2>5, <3>1, CacheAssumption DEF Used, ReaderType
    <3>3. ReaderOK(r, reader[r])'
      BY <1>1, <2>1, <2>5, <3>1, <3>2 DEF ReaderOK, Loaded, Collecting
    <3>4. RightOK(reader[r])'
      BY <1>1, <2>5, <3>1 DEF RightOK, Loaded
    <3>. QED
      BY <3>3, <3>4
  <2>. QED
    BY <2>6, <2>8, <2>9, <2>10, <2>11, <2>12 DEF IInv, ReaderInv, RightInv
<1>3. CASE ~(ShouldFlush /\ occupied > 0)
  <2>1. writer' = Rest(writer) /\ UNCHANGED <<mask, buckets>>
    BY <1>1, <1>3 DEF Flush
  <2>2. /\ writer' \in WriterType /\ writer'.sel = Nil
        /\ writer' = Idle /\ writer'.pc = "idle" /\ writer'.replaced = {}
    BY <1>1, <2>1, RestFields DEF Idle, IInv, WriterInv
  <2>3. DataInv' /\ TableInv' /\ MaskInv'
    BY <1>1, <2>1, <2>2, SameTables
  <2>4. WriterInv' /\ CountInv'
    BY <1>1, <2>1, <2>2 DEF IInv, WriterInv, CountInv
  <2>5. CachedInv'
    <3>. SUFFICES ASSUME buckets # emptyBuckets, NEW i \in Filled(heap[buckets])
                  PROVE  /\ heap[buckets][i].imp \in {heap[buckets][i].sel} \X Version
                         /\ heap[buckets][i].imp = method[heap[buckets][i].sel]
      BY <1>1, <2>1 DEF CachedInv
    <3>1. /\ heap[buckets][i].imp \in {heap[buckets][i].sel} \X Version
          /\ \/ heap[buckets][i].imp = method[heap[buckets][i].sel]
             \/ heap[buckets][i].imp \in writer.replaced
      BY DEF IInv, CachedInv
    <3>2. /\ mask # 0 /\ IsTable(heap[buckets], mask + 1) /\ mask + 1 \in Capacity /\ mask \in Nat
      BY <1>1, CacheAssumption DEF IInv, MaskInv, DataInv, Capacity, INIT_CACHE_SIZE
    <3>3. i \in 0 .. mask
      BY <3>2, TableSlots DEF Filled
    <3>4. occupied > 0
      <4>1. IsFiniteSet(Filled(heap[buckets])) /\ Cardinality(Filled(heap[buckets])) \in Nat
        BY <3>2, FilledFinite
      <4>2. Cardinality(Filled(heap[buckets])) # 0
        BY <4>1, FS_EmptySet
      <4>3. Cardinality(Filled(heap[buckets])) = occupied
        BY <1>1 DEF IInv, CountInv
      <4>. QED
        BY <4>1, <4>2, <4>3
    <3>5. heap[buckets][i].imp \notin writer.replaced
      BY <1>3, <3>3, <3>4 DEF ShouldFlush, At
    <3>. QED
      BY <3>1, <3>5
  <2>6. ReaderInv' /\ RightInv'
    BY <1>1, <2>1, <2>2, SameReaders DEF Collecting
  <2>. QED
    BY <2>3, <2>4, <2>5, <2>6 DEF IInv
<1>. QED
    BY <1>2, <1>3

\* The mask follows the buckets; the old ones are garbage from here on.
LEMMA SetMaskStep == ASSUME IInv, SetMask PROVE IInv'
<1>1. /\ writer.pc = "mask" /\ writer \in WriterType /\ mask' = writer.capacity - 1 /\ occupied' = 0
      /\ garbage' = garbage \union ({writer.old} \ {emptyBuckets})
      /\ UNCHANGED <<restartable, method, buckets, heap, reader>>
    BY DEF SetMask, IInv, DataInv
<1>2. /\ writer.capacity \in Capacity /\ mask < writer.capacity
      /\ writer.capacity \in Nat /\ writer.capacity >= 4 /\ mask \in Nat
      /\ buckets # emptyBuckets => IsTable(heap[buckets], writer.capacity)
    BY <1>1, CacheAssumption DEF IInv, MaskInv, DataInv, Capacity, INIT_CACHE_SIZE
<1>3. /\ writer.old \in Table \union {emptyBuckets} /\ writer.old \notin garbage
      /\ writer.old # buckets \/ buckets = emptyBuckets
      /\ writer.sel # Nil => writer.sel \in Sel /\ writer.replaced = {} /\ buckets # emptyBuckets
      /\ writer.sel = Nil => buckets = emptyBuckets
      /\ writer.alot => writer.replaced = {}
    BY <1>1 DEF IInv, TableInv, WriterInv, WriterType
<1>4. \/ writer' = Rest(writer)
      \/ writer.old # emptyBuckets /\ writer' = [writer EXCEPT !.pc = "collect", !.left = Reader]
    BY DEF SetMask
<1>5. /\ writer' \in WriterType
      /\ writer'.pc \in {"idle", "scan", "collect"}
      /\ writer'.pc = "idle" => writer' = Idle /\ writer'.replaced = {} /\ writer'.sel = Nil
      /\ writer'.pc # "idle" => /\ writer'.sel = writer.sel /\ writer'.alot = writer.alot
                                /\ writer'.replaced = writer.replaced
      /\ writer'.pc = "scan" => writer.sel # Nil
      /\ writer'.pc = "collect" => writer'.left = Reader
  <2>1. CASE writer' = Rest(writer)
    <3>1. Idle.pc = "idle" /\ Idle.replaced = {} /\ Idle.sel = Nil
      BY DEF Idle
    <3>. QED
      BY <1>1, <2>1, <3>1, RestFields
  <2>2. CASE writer' = [writer EXCEPT !.pc = "collect", !.left = Reader]
    BY <1>1, <2>2 DEF WriterType
  <2>. QED
    BY <1>4, <2>1, <2>2
<1>6. DataInv'
  <2>1. writer.capacity - 1 \in {0} \union {n - 1 : n \in Capacity}
    BY <1>2
  <2>2. garbage' \subseteq Table /\ occupied' \in 0 .. MAX_CACHE_SIZE
    BY <1>1, <1>3, CacheAssumption DEF IInv, DataInv
  <2>. QED
    BY <1>1, <1>5, <2>1, <2>2 DEF IInv, DataInv, IsTable
<1>7. \A b \in Table : Used(b)' <=> Used(b)
    BY <1>1, <1>5, CacheAssumption DEF Used
<1>8. TableInv'
  <2>1. \A b \in Table : heap'[b] # <<>> <=> Used(b)'
    BY <1>1, <1>7 DEF IInv, TableInv
  <2>2. buckets' \notin garbage'
    BY <1>1, <1>3, CacheAssumption DEF IInv, TableInv, DataInv
  <2>. QED
    BY <1>5, <2>1, <2>2 DEF TableInv
<1>9. MaskInv'
  <2>1. writer.capacity - 1 # 0 /\ writer.capacity - 1 + 1 = writer.capacity
    BY <1>2
  <2>. QED
    BY <1>1, <1>2, <1>5, <2>1 DEF MaskInv
<1>10. WriterInv'
    BY <1>1, <1>3, <1>5 DEF WriterInv
<1>11. CountInv'
  <2>1. mask' + 1 = writer.capacity
    BY <1>1, <1>2
  <2>2. 0 + 1 + CACHE_END_MARKER <= cache_fill_ratio(writer.capacity)
    BY <1>2 DEF CACHE_END_MARKER, cache_fill_ratio
  <2>3. buckets # emptyBuckets => Filled(heap[buckets]) = {}
    BY <1>1 DEF IInv, CountInv
  <2>4. occupied' + 1 + CACHE_END_MARKER <= cache_fill_ratio(mask' + 1)
    BY <1>1, <2>1, <2>2
  <2>5. occupied' + CACHE_END_MARKER <= cache_fill_ratio(mask' + 1)
    BY <1>1, <1>2, <2>1 DEF CACHE_END_MARKER, cache_fill_ratio
  <2>6. buckets' # emptyBuckets => Cardinality(Filled(heap[buckets])') = 0
    BY <1>1, <2>3, FS_EmptySet
  <2>. QED
    BY <1>1, <1>5, <2>4, <2>5, <2>6 DEF CountInv
<1>12. CachedInv'
  <2>1. buckets # emptyBuckets => Filled(heap[buckets]) = {}
    BY <1>1 DEF IInv, CountInv
  <2>. QED
    BY <1>1, <2>1 DEF CachedInv
<1>13. ASSUME NEW r \in Reader
       PROVE  ReaderOK(r, reader[r])' /\ RightOK(reader[r])'
  <2>1. ReaderOK(r, reader[r]) /\ RightOK(reader[r]) /\ reader[r] \in ReaderType
    BY DEF IInv, ReaderInv, RightInv, DataInv
  <2>2. reader[r].table # emptyBuckets => (Used(reader[r].table)' <=> Used(reader[r].table))
    BY <1>1, <1>5, <2>1, CacheAssumption DEF Used, ReaderType
  <2>3. Collecting' => writer'.left = Reader
    BY <1>5 DEF Collecting
  <2>4. reader[r].pc = "buckets" => reader[r].mask <= mask'
    BY <1>1, <1>2, <2>1 DEF ReaderOK, ReaderType
  <2>5. ReaderOK(r, reader[r])'
    BY <1>1, <2>1, <2>2, <2>3, <2>4 DEF ReaderOK, Loaded
  <2>6. writer'.replaced \subseteq writer.replaced
    BY <1>5
  <2>7. RightOK(reader[r])'
    BY <1>1, <2>1, <2>6 DEF RightOK, Loaded
  <2>. QED
    BY <2>5, <2>7
<1>. QED
    BY <1>6, <1>8, <1>9, <1>10, <1>11, <1>12, <1>13 DEF IInv, ReaderInv, RightInv

\* A thread that is looked at is not in the lookup code, or is sent out of it.
LEMMA CheckThreadStep == ASSUME IInv, NEW t \in Reader, CheckThread(t) PROVE IInv'
<1>1. /\ Collecting /\ writer.pc \in {"collect", "alot"} /\ writer \in WriterType
      /\ UNCHANGED <<restartable, method, mask, buckets, occupied, heap, garbage>>
    BY DEF CheckThread, Collecting, IInv, DataInv
<1>2. CASE /\ writer' = [writer EXCEPT !.left = @ \ {t}]
           /\ reader' = IF InCritical(t) THEN [reader EXCEPT ![t] = Out] ELSE reader
  <2>1. /\ writer' \in WriterType /\ writer'.pc = writer.pc /\ writer'.sel = writer.sel
        /\ writer'.replaced = writer.replaced /\ writer'.alot = writer.alot
        /\ writer'.left = writer.left \ {t}
    BY <1>1, <1>2 DEF WriterType
  <2>2. reader' \in [Reader -> ReaderType] /\ \A r \in Reader \ {t} : reader'[r] = reader[r]
    BY <1>2, OutOK DEF IInv, DataInv
  <2>3. reader'[t].pc = "out" /\ (reader'[t] = Out \/ reader'[t] = reader[t])
    BY <1>2 DEF InCritical, Out, IInv, DataInv
  <2>4. DataInv'
    BY <1>1, <2>1, <2>2 DEF IInv, DataInv, IsTable
  <2>5. \A b : Used(b)' <=> Used(b)
    BY <1>1, <2>1 DEF Used
  <2>6. TableInv' /\ MaskInv'
    BY <1>1, <2>1, <2>5 DEF IInv, TableInv, MaskInv, IsTable
  <2>7. WriterInv' /\ CountInv' /\ CachedInv'
    BY <1>1, <2>1 DEF IInv, WriterInv, CountInv, CachedInv
  <2>8. ASSUME NEW r \in Reader
        PROVE  ReaderOK(r, reader[r])' /\ RightOK(reader[r])'
    <3>1. CASE r = t
      BY <2>3, <3>1 DEF ReaderOK, RightOK, Loaded
    <3>2. CASE r # t
      <4>1. ReaderOK(r, reader[r]) /\ RightOK(reader[r]) /\ reader'[r] = reader[r]
        BY <2>2, <3>2 DEF IInv, ReaderInv, RightInv
      <4>2. ReaderOK(r, reader[r])'
        BY <1>1, <2>1, <2>5, <3>2, <4>1 DEF ReaderOK, Loaded, Collecting
      <4>3. RightOK(reader[r])'
        BY <1>1, <2>1, <4>1 DEF RightOK, Loaded
      <4>. QED
        BY <4>2, <4>3
    <3>. QED
      BY <3>1, <3>2
  <2>. QED
    BY <2>4, <2>6, <2>7, <2>8 DEF IInv, ReaderInv, RightInv
<1>3. CASE /\ writer' = IF writer.pc = "alot" THEN [writer EXCEPT !.left = Reader] ELSE EndCollect
           /\ UNCHANGED reader
  <2>1. CASE writer.pc = "alot"
    <3>1. writer' = [writer EXCEPT !.left = Reader]
      BY <1>3, <2>1
    <3>2. /\ writer' \in WriterType /\ writer'.pc = writer.pc /\ writer'.sel = writer.sel
          /\ writer'.replaced = writer.replaced /\ writer'.alot = writer.alot
          /\ writer'.left = Reader
      BY <1>1, <3>1 DEF WriterType
    <3>3. DataInv' /\ TableInv' /\ MaskInv'
      BY <1>1, <1>3, <3>2, SameTables
    <3>4. WriterInv' /\ CountInv' /\ CachedInv'
      BY <1>1, <3>2 DEF IInv, WriterInv, CountInv, CachedInv
    <3>5. ReaderInv' /\ RightInv'
      BY <1>1, <1>3, <3>2, SameReaders
    <3>. QED
      BY <3>3, <3>4, <3>5 DEF IInv
  <2>2. CASE writer.pc = "collect"
    <3>1. writer' = Rest(writer)
      BY <1>3, <2>2 DEF EndCollect
    <3>2. /\ writer.sel # Nil => writer.sel \in Sel /\ writer.replaced = {} /\ buckets # emptyBuckets
          /\ writer.sel = Nil => buckets = emptyBuckets
          /\ writer.alot => writer.replaced = {}
          /\ occupied = 0
      BY <2>2 DEF IInv, WriterInv, WriterType, CountInv, DataInv
    <3>3. Idle.pc = "idle" /\ Idle.replaced = {} /\ Idle.sel = Nil
      BY DEF Idle
    <3>4. /\ writer' \in WriterType
          /\ writer'.pc \in {"idle", "scan"}
          /\ writer'.pc = "idle" => writer' = Idle /\ writer'.replaced = {} /\ writer'.sel = Nil
          /\ writer'.pc # "idle" => /\ writer'.sel = writer.sel /\ writer'.alot = writer.alot
                                    /\ writer'.replaced = writer.replaced
          /\ writer'.pc = "scan" => writer.sel # Nil
      BY <1>1, <3>1, <3>3, RestFields
    <3>5. DataInv' /\ TableInv' /\ MaskInv'
      BY <1>1, <1>3, <3>4, SameTables
    <3>6. WriterInv'
      BY <1>1, <3>2, <3>4 DEF WriterInv
    <3>7. CountInv'
      <4>1. ASSUME buckets # emptyBuckets
            PROVE  occupied + 1 + CACHE_END_MARKER <= cache_fill_ratio(mask + 1)
        <5>1. mask # 0 /\ mask \in Nat /\ mask + 1 >= 4
          BY <4>1, <2>2, CacheAssumption DEF IInv, MaskInv, DataInv, Capacity, INIT_CACHE_SIZE
        <5>. QED
          BY <3>2, <5>1 DEF CACHE_END_MARKER, cache_fill_ratio
      <4>2. /\ buckets = emptyBuckets => occupied = 0
            /\ buckets # emptyBuckets =>
                   /\ occupied + CACHE_END_MARKER <= cache_fill_ratio(mask + 1)
                   /\ Cardinality(Filled(heap[buckets])) = occupied
        BY <2>2 DEF IInv, CountInv
      <4>. QED
        BY <1>1, <3>2, <3>4, <4>1, <4>2 DEF CountInv
    <3>8. CachedInv'
      BY <1>1, <3>2, <3>4 DEF IInv, CachedInv
    <3>9. ReaderInv' /\ RightInv'
      <4>1. writer'.replaced \subseteq writer.replaced
        BY <3>4
      <4>2. ~Collecting'
        BY <3>4 DEF Collecting
      <4>. QED
        BY <1>1, <1>3, <3>4, <4>1, <4>2, SameReaders
    <3>. QED
      BY <3>5, <3>6, <3>7, <3>8, <3>9 DEF IInv
  <2>. QED
    BY <1>1, <2>1, <2>2
<1>. QED
    BY <1>2, <1>3 DEF CheckThread

\* When every thread was looked at, nobody is in a table on the garbage list.
LEMMA FreeGarbageStep == ASSUME IInv, FreeGarbage PROVE IInv'
<1>1. /\ writer.pc \in {"collect", "alot"} /\ writer.left = {} /\ writer \in WriterType /\ Collecting
      /\ heap' = [b \in Table |-> IF b \in garbage THEN <<>> ELSE heap[b]] /\ garbage' = {}
      /\ writer' = EndCollect
      /\ UNCHANGED <<restartable, method, mask, buckets, occupied, reader>>
    BY DEF FreeGarbage, Collecting, IInv, DataInv
<1>2. /\ writer.pc = "collect" /\ writer.sel # Nil =>
             writer.sel \in Sel /\ writer.replaced = {} /\ buckets # emptyBuckets
      /\ writer.pc = "collect" /\ writer.sel = Nil => buckets = emptyBuckets
      /\ writer.alot => writer.replaced = {}
      /\ writer.pc = "alot" => writer.replaced = {} /\ writer.sel = Nil
      /\ writer.pc = "collect" => occupied = 0
    BY <1>1 DEF IInv, WriterInv, WriterType, CountInv, DataInv
<1>3. Idle \in WriterType /\ Idle.pc = "idle" /\ Idle.replaced = {} /\ Idle.sel = Nil
    BY DEF Idle, WriterType
<1>4. /\ writer' \in WriterType
      /\ writer'.pc \in {"idle", "scan"}
      /\ writer'.pc = "idle" => writer' = Idle /\ writer'.replaced = {} /\ writer'.sel = Nil
      /\ writer'.pc # "idle" => /\ writer'.sel = writer.sel /\ writer'.alot = writer.alot
                                /\ writer'.replaced = writer.replaced /\ writer.pc = "collect"
      /\ writer'.pc = "scan" => writer.sel # Nil
  <2>1. CASE writer.pc = "alot"
    BY <1>1, <1>3, <2>1 DEF EndCollect
  <2>2. CASE writer.pc # "alot"
    <3>1. writer' = Rest(writer)
      BY <1>1, <2>2 DEF EndCollect
    <3>. QED
      BY <1>1, <1>3, <2>2, <3>1, RestFields
  <2>. QED
    BY <2>1, <2>2
<1>5. buckets \in Table \union {emptyBuckets} /\ buckets \notin garbage /\ garbage \subseteq Table
    BY DEF IInv, DataInv, TableInv
<1>6. buckets # emptyBuckets => heap'[buckets] = heap[buckets]
    BY <1>1, <1>5
<1>7. DataInv'
  <2>1. heap' = [b \in Table |-> heap'[b]]
    BY <1>1
  <2>2. \A b \in Table : heap'[b] = <<>> \/ \E n \in Capacity : IsTable(heap'[b], n)
    BY <1>1 DEF IInv, DataInv
  <2>3. \A b \in Table : (heap[b] = <<>> \/ \E n \in Capacity : IsTable(heap[b], n))'
    BY <2>2 DEF IsTable
  <2>. QED
    BY <1>1, <1>4, <2>1, <2>3 DEF IInv, DataInv
<1>8. TableInv'
  <2>1. ASSUME NEW b \in Table
        PROVE  heap'[b] # <<>> <=> Used(b)'
    <3>1. heap[b] # <<>> <=> (b = buckets \/ b \in garbage)
      BY <1>1 DEF IInv, TableInv, Used
    <3>2. Used(b)' <=> b = buckets
      BY <1>1, <1>4 DEF Used
    <3>. QED
      BY <1>1, <1>5, <3>1, <3>2
  <2>. QED
    BY <1>1, <1>4, <2>1 DEF TableInv
<1>9. MaskInv'
    BY <1>1, <1>4, <1>6 DEF IInv, MaskInv, IsTable
<1>10. WriterInv'
    BY <1>1, <1>2, <1>3, <1>4 DEF WriterInv
<1>11. CountInv'
  <2>1. ASSUME buckets # emptyBuckets, occupied = 0
        PROVE  occupied + 1 + CACHE_END_MARKER <= cache_fill_ratio(mask + 1)
    <3>1. mask # 0 /\ mask \in Nat /\ mask + 1 >= 4
      BY <1>1, <2>1, CacheAssumption DEF IInv, MaskInv, DataInv, Capacity, INIT_CACHE_SIZE
    <3>. QED
      BY <2>1, <3>1 DEF CACHE_END_MARKER, cache_fill_ratio
  <2>2. /\ buckets = emptyBuckets => occupied = 0
        /\ buckets # emptyBuckets =>
               /\ occupied + CACHE_END_MARKER <= cache_fill_ratio(mask + 1)
               /\ Cardinality(Filled(heap[buckets])) = occupied
    BY <1>1 DEF IInv, CountInv
  <2>3. buckets' # emptyBuckets => Cardinality(Filled(heap'[buckets'])) = occupied
    BY <1>1, <1>6, <2>2
  <2>. QED
    BY <1>1, <1>2, <1>4, <2>1, <2>2, <2>3 DEF CountInv
<1>12. CachedInv'
  <2>. SUFFICES ASSUME buckets # emptyBuckets, NEW i \in Filled(heap[buckets])
                PROVE  /\ heap[buckets][i].imp \in {heap[buckets][i].sel} \X Version
                       /\ \/ heap[buckets][i].imp = method[heap[buckets][i].sel]
                          \/ heap[buckets][i].imp \in writer'.replaced
    BY <1>1, <1>6 DEF CachedInv
  <2>1. writer.replaced = {}
    BY <1>1, <1>2
  <2>. QED
    BY <2>1 DEF IInv, CachedInv
<1>13. ASSUME NEW r \in Reader
       PROVE  ReaderOK(r, reader[r])' /\ RightOK(reader[r])'
  <2>1. ReaderOK(r, reader[r]) /\ RightOK(reader[r]) /\ reader[r] \in ReaderType
    BY DEF IInv, ReaderInv, RightInv, DataInv
  <2>2. ASSUME Loaded(reader[r]), reader[r].table # emptyBuckets
        PROVE  reader[r].table = buckets /\ heap'[reader[r].table] = heap[reader[r].table]
    <3>1. Used(reader[r].table) /\ reader[r].table \notin garbage
      BY <1>1, <2>1, <2>2 DEF ReaderOK
    <3>2. reader[r].table = buckets
      BY <1>1, <3>1 DEF Used
    <3>. QED
      BY <1>6, <2>2, <3>2
  <2>3. ReaderOK(r, reader[r])'
    BY <1>1, <2>1, <2>2 DEF ReaderOK, Loaded, Used
  <2>4. writer'.replaced \subseteq writer.replaced
    BY <1>4
  <2>5. RightOK(reader[r])'
    <3>1. reader[r].pc = "imp" => Loaded(reader[r])
      BY DEF Loaded
    <3>. QED
      BY <1>1, <2>1, <2>2, <2>4, <3>1 DEF RightOK, Loaded
  <2>. QED
    BY <2>3, <2>5
<1>. QED
    BY <1>7, <1>8, <1>9, <1>10, <1>11, <1>12, <1>13 DEF IInv, ReaderInv, RightInv

-----------------------------------------------------------------------------
(* The writer, inserting *)

\* The state of the table in use while a selector is inserted.
LEMMA InUse ==
    ASSUME IInv, writer.pc \in {"scan", "sel"}
    PROVE  /\ buckets \in Table /\ buckets # emptyBuckets /\ writer.sel \in Sel
           /\ mask \in Nat /\ mask + 1 \in Capacity
           /\ IsTable(heap[buckets], mask + 1) /\ DOMAIN heap[buckets] = 0 .. mask
           /\ writer.replaced = {} /\ writer \in WriterType
           /\ heap = [b \in Table |-> heap[b]]
<1>1. writer.sel \in Sel /\ buckets # emptyBuckets
    BY CacheAssumption DEF IInv, WriterInv
<1>2. /\ buckets \in Table /\ mask # 0 /\ mask \in Nat /\ mask + 1 \in Capacity
      /\ IsTable(heap[buckets], mask + 1)
    BY <1>1, CacheAssumption DEF IInv, MaskInv, DataInv, Capacity, INIT_CACHE_SIZE
<1>3. DOMAIN heap[buckets] = 0 .. mask
    BY <1>2, TableSlots
<1>4. writer.sel # Nil
    BY <1>1, CacheAssumption
<1>. QED
    BY <1>1, <1>2, <1>3, <1>4 DEF IInv, WriterInv, DataInv

\* A slot of the table in use that was empty is written.
LEMMA StoreStep ==
    ASSUME IInv, writer.pc \in {"scan", "sel"}, NEW i \in 0 .. mask, heap[buckets][i].sel = Nil,
           NEW e \in Bucket, e.sel = Nil \/ e = [sel |-> writer.sel, imp |-> method[writer.sel]],
           heap' = [heap EXCEPT ![buckets] = [heap[buckets] EXCEPT ![i] = e]],
           UNCHANGED <<restartable, method, mask, buckets, garbage, reader>>,
           writer' \in WriterType, writer'.pc \in {"idle", "sel"}, writer'.replaced = {},
           occupied' \in 0 .. MAX_CACHE_SIZE
    PROVE  /\ DataInv' /\ TableInv' /\ MaskInv' /\ CachedInv' /\ ReaderInv' /\ RightInv'
           /\ heap'[buckets][i] = e
           /\ Filled(heap'[buckets]) =
                  IF e.sel = Nil THEN Filled(heap[buckets]) ELSE Filled(heap[buckets]) \union {i}
<1>1. /\ buckets \in Table /\ buckets # emptyBuckets /\ writer.sel \in Sel
      /\ mask \in Nat /\ mask + 1 \in Capacity /\ mask + 1 - 1 = mask
      /\ IsTable(heap[buckets], mask + 1) /\ DOMAIN heap[buckets] = 0 .. mask
      /\ writer.replaced = {} /\ heap = [b \in Table |-> heap[b]]
    BY InUse
<1>2. e.sel # CACHE_END_MARKER /\ Nil \notin Sel
    BY <1>1, CacheAssumption DEF Nil, CACHE_END_MARKER
<1>3. PICK g : g = [heap[buckets] EXCEPT ![i] = e]
    OBVIOUS
<1>4. /\ IsTable(g, mask + 1)
      /\ Filled(g) = IF e.sel = Nil THEN Filled(heap[buckets]) ELSE Filled(heap[buckets]) \union {i}
  <2>1. PICK n \in Capacity : n = mask + 1
    BY <1>1
  <2>2. IsTable(heap[buckets], n) /\ i \in 0 .. n - 1
    BY <1>1, <2>1
  <2>3. /\ IsTable([heap[buckets] EXCEPT ![i] = e], n)
        /\ Filled([heap[buckets] EXCEPT ![i] = e]) =
               IF e.sel = Nil THEN Filled(heap[buckets]) ELSE Filled(heap[buckets]) \union {i}
    BY <1>2, <2>2, StoreInTable
  <2>. QED
    BY <1>3, <2>1, <2>3
<1>5. /\ \A b \in Table : heap'[b] = IF b = buckets THEN g ELSE heap[b]
      /\ heap' = [b \in Table |-> heap'[b]]
    BY <1>1, <1>3
<1>6. /\ \A j \in 0 .. mask : g[j] = IF j = i THEN e ELSE heap[buckets][j]
      /\ DOMAIN g = 0 .. mask
    BY <1>1, <1>3
<1>7. g # <<>> /\ heap[buckets] # <<>>
    BY <1>1, <1>4, TableSlots
<1>8. DataInv'
  <2>1. \A b \in Table : heap'[b] = <<>> \/ \E n \in Capacity : IsTable(heap'[b], n)
    BY <1>1, <1>4, <1>5 DEF IInv, DataInv
  <2>2. \A b \in Table : (heap[b] = <<>> \/ \E n \in Capacity : IsTable(heap[b], n))'
    BY <2>1 DEF IsTable
  <2>. QED
    BY <1>5, <2>2 DEF IInv, DataInv
<1>9. \A b : Used(b)' <=> Used(b)
    BY DEF Used
<1>10. TableInv'
  <2>1. ASSUME NEW b \in Table
        PROVE  heap'[b] # <<>> <=> heap[b] # <<>>
    BY <1>5, <1>7
  <2>2. \A b \in Table : heap'[b] # <<>> <=> Used(b)'
    BY <1>9, <2>1 DEF IInv, TableInv
  <2>. QED
    BY <2>2 DEF IInv, TableInv
<1>11. MaskInv'
  <2>1. IsTable(heap'[buckets], mask + 1)
    BY <1>1, <1>4, <1>5
  <2>2. IsTable(heap[buckets], mask + 1)'
    BY <2>1 DEF IsTable
  <2>. QED
    BY <2>2 DEF IInv, MaskInv
<1>12. CachedInv'
  <2>. SUFFICES ASSUME NEW j \in Filled(g)
                PROVE  g[j].imp \in {g[j].sel} \X Version /\ g[j].imp = method[g[j].sel]
    BY <1>1, <1>5 DEF CachedInv
  <2>1. CASE j = i
    <3>1. e.sel \in Sel
      BY <1>6, <2>1 DEF Filled
    <3>2. e = [sel |-> writer.sel, imp |-> method[writer.sel]]
      BY <1>2, <3>1
    <3>. QED
      BY <1>1, <1>6, <2>1, <3>2 DEF IInv, DataInv, Filled
  <2>2. CASE j # i
    <3>1. j \in Filled(heap[buckets]) /\ g[j] = heap[buckets][j]
      BY <1>1, <1>6, <2>2 DEF Filled
    <3>. QED
      BY <1>1, <3>1 DEF IInv, CachedInv
  <2>. QED
    BY <2>1, <2>2
<1>13. ASSUME NEW r \in Reader
       PROVE  ReaderOK(r, reader[r])' /\ RightOK(reader[r])'
  <2>1. ReaderOK(r, reader[r]) /\ RightOK(reader[r]) /\ reader[r] \in ReaderType
    BY DEF IInv, ReaderInv, RightInv, DataInv
  <2>2. ASSUME reader[r].table # emptyBuckets
        PROVE  DOMAIN heap'[reader[r].table] = DOMAIN heap[reader[r].table]
    BY <1>1, <1>5, <1>6, <2>1, <2>2 DEF ReaderType
  <2>3. ~Collecting'
    BY DEF Collecting
  <2>4. ReaderOK(r, reader[r])'
    BY <1>9, <2>1, <2>2, <2>3 DEF ReaderOK, Loaded
  <2>5. ASSUME Loaded(reader[r]), reader[r].table # emptyBuckets,
               NEW j \in DOMAIN heap'[reader[r].table],
               heap'[reader[r].table][j].sel = reader[r].sel
        PROVE  heap'[reader[r].table][j].imp \in reader[r].right
    <3>1. CASE reader[r].table = buckets /\ j = i
      <4>1. heap'[reader[r].table][j] = e /\ e.sel = reader[r].sel /\ reader[r].sel \in Sel
        BY <1>1, <1>5, <1>6, <2>1, <2>5, <3>1 DEF ReaderOK, Loaded
      <4>2. e.imp = method[reader[r].sel]
        BY <1>2, <4>1
      <4>. QED
        BY <2>1, <2>5, <4>1, <4>2 DEF RightOK, Loaded
    <3>2. CASE ~(reader[r].table = buckets /\ j = i)
      <4>1. /\ heap'[reader[r].table][j] = heap[reader[r].table][j]
            /\ j \in DOMAIN heap[reader[r].table]
        BY <1>1, <1>5, <1>6, <2>1, <2>2, <2>5, <3>2 DEF ReaderType
      <4>. QED
        BY <2>1, <2>5, <4>1 DEF RightOK
    <3>. QED
      BY <3>1, <3>2
  <2>6. ASSUME reader[r].pc = "imp"
        PROVE  reader[r].table # emptyBuckets
               /\ heap'[reader[r].table][reader[r].i].sel = reader[r].sel
    <3>1. /\ reader[r].table # emptyBuckets /\ reader[r].table \in Table
          /\ heap[reader[r].table][reader[r].i].sel = reader[r].sel
          /\ reader[r].sel \in Sel /\ reader[r].i \in DOMAIN heap[reader[r].table]
      BY <2>1, <2>6 DEF RightOK, ReaderOK, Loaded, ReaderType
    <3>2. ~(reader[r].table = buckets /\ reader[r].i = i)
      BY <1>2, <3>1
    <3>3. heap'[reader[r].table][reader[r].i] = heap[reader[r].table][reader[r].i]
      BY <1>1, <1>5, <1>6, <3>1, <3>2
    <3>. QED
      BY <3>1, <3>3
  <2>7. RightOK(reader[r])'
    BY <2>1, <2>5, <2>6 DEF RightOK, Loaded
  <2>. QED
    BY <2>4, <2>7
<1>. QED
    BY <1>1, <1>3, <1>4, <1>5, <1>6, <1>8, <1>10, <1>11, <1>12, <1>13 DEF ReaderInv, RightInv

\* The slot that insert finds was empty, and its imp is stored; or the selector is
\* there already.  There always is such a slot.
LEMMA ScanStep == ASSUME IInv, Scan PROVE IInv'
<1>1. /\ writer.pc = "scan" /\ writer.pc \in {"scan", "sel"}
      /\ UNCHANGED <<restartable, method, mask, buckets, garbage, reader>>
    BY DEF Scan
<1>2. /\ buckets \in Table /\ buckets # emptyBuckets /\ writer.sel \in Sel
      /\ mask \in Nat /\ mask + 1 \in Capacity /\ mask + 1 - 1 = mask
      /\ IsTable(heap[buckets], mask + 1) /\ DOMAIN heap[buckets] = 0 .. mask
      /\ writer.replaced = {} /\ writer \in WriterType
      /\ heap = [b \in Table |-> heap[b]]
    BY <1>1, InUse
<1>3. /\ Nil \notin Sel /\ writer.sel # Nil
      /\ \A i \in 0 .. mask : At(buckets, i) = heap[buckets][i] /\ heap[buckets][i] \in Bucket
    BY <1>2, CacheAssumption DEF At, IsTable
<1>4. /\ Cardinality(Filled(heap[buckets])) = occupied /\ occupied \in 0 .. MAX_CACHE_SIZE
      /\ occupied + CACHE_END_MARKER <= cache_fill_ratio(mask + 1)
      /\ occupied + 1 + CACHE_END_MARKER <= cache_fill_ratio(mask + 1)
    BY <1>1, <1>2 DEF IInv, CountInv, DataInv
<1>5. Stops(writer.sel) # {}
  <2>1. \E i \in 0 .. mask + 1 - 1 : heap[buckets][i].sel = Nil
    BY <1>2, <1>4, EmptySlot
  <2>. QED
    BY <1>2, <1>3, <2>1 DEF Stops
<1>. DEFINE i == Found(writer.sel)
<1>6. i \in Stops(writer.sel)
    BY <1>2, <1>5, FoundStops
<1>7. i \in 0 .. mask /\ At(buckets, i) = heap[buckets][i] /\ heap[buckets][i] \in Bucket
    BY <1>3, <1>6 DEF Stops
<1>8. CASE At(buckets, i).sel = writer.sel
  <2>1. writer' = Idle /\ UNCHANGED <<occupied, heap>>
    BY <1>3, <1>5, <1>8 DEF Scan
  <2>2. /\ writer' \in WriterType /\ writer'.pc = "idle" /\ writer'.sel = Nil
        /\ writer'.replaced = {}
    BY <2>1 DEF Idle, WriterType
  <2>3. DataInv' /\ TableInv' /\ MaskInv'
    BY <1>1, <2>1, <2>2, SameTables
  <2>4. WriterInv' /\ CountInv' /\ CachedInv'
    BY <1>1, <1>2, <2>1, <2>2 DEF IInv, WriterInv, CountInv, CachedInv
  <2>5. ReaderInv' /\ RightInv'
    BY <1>1, <2>1, <2>2, SameReaders DEF Collecting
  <2>. QED
    BY <2>3, <2>4, <2>5 DEF IInv
<1>9. CASE At(buckets, i).sel # writer.sel
  <2>1. /\ At(buckets, i).sel = Nil /\ heap[buckets][i].sel = Nil
        /\ occupied' = occupied + 1
        /\ heap' = [heap EXCEPT ![buckets][i].imp = method[writer.sel]]
        /\ writer' = [writer EXCEPT !.pc = "sel", !.slot = i]
    BY <1>5, <1>7, <1>9 DEF Scan
  <2>2. PICK e : e = [heap[buckets][i] EXCEPT !.imp = method[writer.sel]]
    OBVIOUS
  <2>3. method[writer.sel] \in Imp
    BY <1>2 DEF IInv, DataInv
  <2>4. e \in Bucket /\ e.sel = Nil /\ e.imp = method[writer.sel]
    BY <1>7, <2>1, <2>2, <2>3 DEF Bucket
  <2>5. heap' = [heap EXCEPT ![buckets] = [heap[buckets] EXCEPT ![i] = e]]
    BY <2>1, <2>2
  <2>6. /\ writer' \in WriterType /\ writer'.pc = "sel" /\ writer'.slot = i
        /\ writer'.sel = writer.sel /\ writer'.replaced = {} /\ writer'.alot = writer.alot
    <3>1. PICK j \in Nat : j = i
      BY <1>2, <1>7
    <3>2. writer' = [writer EXCEPT !.pc = "sel", !.slot = j]
      BY <2>1, <3>1
    <3>. QED
      BY <1>2, <3>1, <3>2 DEF WriterType
  <2>7. occupied' \in 0 .. MAX_CACHE_SIZE /\ occupied' + CACHE_END_MARKER <= cache_fill_ratio(mask + 1)
    <3>1. mask + 1 \in Nat /\ mask + 1 <= MAX_CACHE_SIZE /\ MAX_CACHE_SIZE \in Nat
      BY <1>2, CacheAssumption DEF Capacity, INIT_CACHE_SIZE
    <3>. QED
      BY <1>4, <2>1, <3>1 DEF CACHE_END_MARKER, cache_fill_ratio
  <2>8. /\ DataInv' /\ TableInv' /\ MaskInv' /\ CachedInv' /\ ReaderInv' /\ RightInv'
        /\ heap'[buckets][i] = e /\ Filled(heap'[buckets]) = Filled(heap[buckets])
    BY <1>1, <1>7, <2>1, <2>4, <2>5, <2>6, <2>7, StoreStep
  <2>9. WriterInv'
    <3>1. i \in DOMAIN heap'[buckets]
      BY <1>2, <1>7, <2>1
    <3>. QED
      BY <1>1, <1>2, <1>3, <2>4, <2>6, <2>8, <3>1 DEF WriterInv
  <2>10. CountInv'
    <3>1. Cardinality(Filled(heap'[buckets])) = occupied' - 1
      BY <1>4, <2>1, <2>8
    <3>. QED
      BY <1>1, <1>2, <2>6, <2>7, <3>1 DEF CountInv
  <2>. QED
    BY <2>8, <2>9, <2>10 DEF IInv
<1>. QED
    BY <1>8, <1>9

\* The selector is stored, and the entry is seen whole.
LEMMA SetSelStep == ASSUME IInv, SetSel PROVE IInv'
<1>1. /\ writer.pc = "sel" /\ writer.pc \in {"scan", "sel"} /\ writer' = Idle
      /\ UNCHANGED <<restartable, method, mask, buckets, occupied, garbage, reader>>
    BY DEF SetSel
<1>2. /\ buckets \in Table /\ buckets # emptyBuckets /\ writer.sel \in Sel
      /\ mask \in Nat /\ mask + 1 \in Capacity
      /\ IsTable(heap[buckets], mask + 1) /\ DOMAIN heap[buckets] = 0 .. mask
      /\ heap = [b \in Table |-> heap[b]]
    BY <1>1, InUse
<1>3. PICK i \in 0 .. mask : i = writer.slot /\ heap[buckets][i].sel = Nil
    BY <1>1, <1>2 DEF IInv, WriterInv
<1>4. PICK e : e = [sel |-> writer.sel, imp |-> method[writer.sel]]
    OBVIOUS
<1>5. e \in Bucket /\ e.sel = writer.sel /\ e.sel # Nil
    BY <1>2, <1>4, CacheAssumption DEF IInv, DataInv, Bucket
<1>6. heap' = [heap EXCEPT ![buckets] = [heap[buckets] EXCEPT ![i] = e]]
    BY <1>3, <1>4 DEF SetSel
<1>7. /\ writer' \in WriterType /\ writer'.pc = "idle" /\ writer'.sel = Nil /\ writer'.replaced = {}
    BY <1>1 DEF Idle, WriterType
<1>8. occupied' \in 0 .. MAX_CACHE_SIZE /\ occupied \in Nat
    BY <1>1, CacheAssumption DEF IInv, DataInv
<1>9. /\ DataInv' /\ TableInv' /\ MaskInv' /\ CachedInv' /\ ReaderInv' /\ RightInv'
      /\ Filled(heap'[buckets]) = Filled(heap[buckets]) \union {i}
  <2>1. /\ e.sel = Nil \/ e = [sel |-> writer.sel, imp |-> method[writer.sel]]
        /\ writer'.pc \in {"idle", "sel"}
    BY <1>4, <1>7
  <2>2. UNCHANGED <<restartable, method, mask, buckets, garbage, reader>>
    BY <1>1
  <2>3. /\ DataInv' /\ TableInv' /\ MaskInv' /\ CachedInv' /\ ReaderInv' /\ RightInv'
        /\ Filled(heap'[buckets]) =
               IF e.sel = Nil THEN Filled(heap[buckets]) ELSE Filled(heap[buckets]) \union {i}
    BY <1>1, <1>3, <1>5, <1>6, <1>7, <1>8, <2>1, <2>2, StoreStep
  <2>. QED
    BY <1>5, <2>3
<1>10. WriterInv'
    BY <1>1, <1>7 DEF WriterInv
<1>11. CountInv'
  <2>1. /\ Cardinality(Filled(heap[buckets])) = occupied - 1
        /\ occupied + CACHE_END_MARKER <= cache_fill_ratio(mask + 1)
    BY <1>1, <1>2 DEF IInv, CountInv
  <2>2. IsFiniteSet(Filled(heap[buckets])) /\ Cardinality(Filled(heap[buckets])) \in Nat
    BY <1>2, FilledFinite
  <2>3. i \notin Filled(heap[buckets])
    BY <1>3, CacheAssumption DEF Filled
  <2>4. Cardinality(Filled(heap[buckets]) \union {i}) = Cardinality(Filled(heap[buckets])) + 1
    BY <2>2, <2>3, FS_AddElement
  <2>5. Cardinality(Filled(heap'[buckets])) = occupied
    BY <1>8, <1>9, <2>1, <2>2, <2>4
  <2>. QED
    BY <1>1, <1>2, <1>7, <2>1, <2>5 DEF CountInv
<1>. QED
    BY <1>9, <1>10, <1>11 DEF IInv

\* A table of free memory is installed, without an entry, and no reader has it; the
\* one it replaces is left to the garbage list, and the mask for later.
LEMMA ReallocateStep ==
    ASSUME IInv, writer.pc = "idle", NEW w \in WriterType, w.sel \in Sel, w.replaced = {},
           w.capacity \in Capacity, mask < w.capacity,
           w.old = buckets, Reallocate(w),
           UNCHANGED <<restartable, method, occupied, garbage, reader>>
    PROVE  IInv'
<1>1. PICK b \in Table : /\ heap[b] = <<>>
                         /\ heap' = [heap EXCEPT ![b] = allocateBuckets(w.capacity)]
                         /\ buckets' = b /\ writer' = [w EXCEPT !.pc = "mask"] /\ UNCHANGED mask
    BY DEF Reallocate, Install
<1>2. /\ writer' \in WriterType /\ writer'.pc = "mask" /\ writer'.sel = w.sel /\ writer'.old = w.old
      /\ writer'.capacity = w.capacity /\ writer'.replaced = {} /\ writer'.sel # Nil
    BY <1>1, CacheAssumption DEF WriterType
<1>3. PICK g : g = allocateBuckets(w.capacity)
    OBVIOUS
<1>4. IsTable(g, w.capacity) /\ Filled(g) = {} /\ g # <<>>
    BY <1>3, Allocated, TableSlots
<1>5. /\ b # emptyBuckets /\ buckets \in Table \union {emptyBuckets} /\ buckets \notin garbage
      /\ garbage \subseteq Table /\ heap = [c \in Table |-> heap[c]] /\ mask \in Nat
      /\ writer.replaced = {} /\ ~Collecting'
    BY <1>2, CacheAssumption
       DEF IInv, DataInv, TableInv, WriterInv, Idle, Collecting, Capacity, INIT_CACHE_SIZE
<1>6. /\ \A c \in Table : heap'[c] = IF c = b THEN g ELSE heap[c]
      /\ heap' = [c \in Table |-> heap'[c]]
    BY <1>1, <1>3, <1>5
<1>7. \A c \in Table : heap[c] # <<>> <=> c = buckets \/ c \in garbage
    BY DEF IInv, TableInv, Used
<1>8. \A c \in Table : Used(c)' <=> c = b \/ c = buckets \/ c \in garbage
    BY <1>1, <1>2 DEF Used
<1>9. DataInv'
  <2>1. \A c \in Table : heap'[c] = <<>> \/ \E n \in Capacity : IsTable(heap'[c], n)
    BY <1>4, <1>6 DEF IInv, DataInv
  <2>2. \A c \in Table : (heap[c] = <<>> \/ \E n \in Capacity : IsTable(heap[c], n))'
    BY <2>1 DEF IsTable
  <2>. QED
    BY <1>1, <1>2, <1>6, <2>2 DEF IInv, DataInv
<1>10. TableInv'
  <2>1. \A c \in Table : heap'[c] # <<>> <=> Used(c)'
    BY <1>4, <1>6, <1>7, <1>8
  <2>2. b \notin garbage /\ b # buckets
    BY <1>1, <1>7
  <2>3. buckets' \notin garbage' /\ writer'.old # buckets' /\ writer'.old \notin garbage'
    BY <1>1, <1>2, <1>5, <2>2
  <2>. QED
    BY <2>1, <2>3 DEF TableInv
<1>11. MaskInv'
  <2>1. heap'[b] = g
    BY <1>6
  <2>. QED
    BY <1>1, <1>2, <1>4, <2>1 DEF MaskInv, IsTable
<1>12. WriterInv'
    BY <1>1, <1>2, <1>5 DEF WriterInv
<1>13. CountInv' /\ CachedInv'
  <2>1. Filled(heap'[b]) = {}
    BY <1>4, <1>6
  <2>. QED
    BY <1>1, <1>2, <1>5, <2>1 DEF CountInv, CachedInv
<1>14. ASSUME NEW r \in Reader
       PROVE  ReaderOK(r, reader[r])' /\ RightOK(reader[r])'
  <2>1. ReaderOK(r, reader[r]) /\ RightOK(reader[r]) /\ reader[r] \in ReaderType
    BY DEF IInv, ReaderInv, RightInv, DataInv
  <2>2. ASSUME Loaded(reader[r]), reader[r].table # emptyBuckets
        PROVE  /\ Used(reader[r].table)'
               /\ heap'[reader[r].table] = heap[reader[r].table]
    <3>1. reader[r].table \in Table /\ Used(reader[r].table)
      BY <2>1, <2>2 DEF ReaderOK, ReaderType
    <3>2. reader[r].table = buckets \/ reader[r].table \in garbage
      BY <3>1 DEF Used
    <3>3. reader[r].table # b
      BY <1>1, <1>7, <3>2
    <3>. QED
      BY <1>6, <1>8, <3>1, <3>2, <3>3
  <2>3. UNCHANGED <<reader, mask>>
    BY <1>1
  <2>4. ReaderOK(r, reader[r])'
    BY <1>5, <2>1, <2>2, <2>3 DEF ReaderOK, Loaded, Used
  <2>5. RightOK(reader[r])'
    <3>1. reader[r].pc = "imp" => Loaded(reader[r])
      BY DEF Loaded
    <3>. QED
      BY <1>2, <1>5, <2>1, <2>2, <3>1 DEF RightOK, Loaded
  <2>. QED
    BY <2>4, <2>5
<1>. QED
    BY <1>9, <1>10, <1>11, <1>12, <1>13, <1>14 DEF IInv, ReaderInv, RightInv

\* insert keeps to the table while it is not too full, and doubles it, as far as it
\* may grow, otherwise.
LEMMA InsertStep == ASSUME IInv, NEW s \in Sel, Insert(s) PROVE IInv'
<1>1. PICK w \in WriterType : w = [Idle EXCEPT !.sel = s]
    BY DEF Idle, WriterType
<1>2. /\ w.pc = "idle" /\ w.sel = s /\ w.replaced = {} /\ w.old = emptyBuckets /\ ~w.alot
      /\ writer.pc = "idle" /\ writer.pc # "mask" /\ writer = Idle
      /\ UNCHANGED <<restartable, method, occupied, garbage, reader>>
    BY <1>1 DEF Idle, Insert, IInv, WriterInv
<1>3. /\ mask \in Nat /\ MAX_CACHE_SIZE \in Nat /\ MAX_CACHE_SIZE >= INIT_CACHE_SIZE
      /\ mask # 0 => mask + 1 \in Capacity
    BY CacheAssumption DEF IInv, DataInv, Capacity, INIT_CACHE_SIZE
<1>4. ASSUME ~isConstantEmptyCache
      PROVE  buckets # emptyBuckets /\ mask # 0
    BY <1>2, <1>4 DEF isConstantEmptyCache, IInv, CountInv, MaskInv
<1>5. CASE isConstantEmptyCache
  <2>1. PICK n : n = IF capacity = 0 THEN INIT_CACHE_SIZE ELSE capacity
    OBVIOUS
  <2>2. n \in Capacity /\ mask < n /\ n \in Nat
    BY <1>3, <2>1 DEF capacity, Capacity, INIT_CACHE_SIZE
  <2>3. PICK x \in WriterType : x = [w EXCEPT !.capacity = n]
    BY <2>2 DEF WriterType
  <2>4. x.sel = s /\ x.replaced = {} /\ x.capacity = n /\ x.old = buckets
    BY <1>2, <1>5, <2>3 DEF WriterType, isConstantEmptyCache
  <2>5. Reallocate(x)
    BY <1>1, <1>5, <2>1, <2>3 DEF Insert
  <2>. QED
    BY <1>2, <2>2, <2>4, <2>5, ReallocateStep
<1>6. CASE ~isConstantEmptyCache /\ occupied + 1 + CACHE_END_MARKER <= cache_fill_ratio(capacity)
  <2>1. writer' = [w EXCEPT !.pc = "scan"] /\ UNCHANGED <<mask, buckets, heap>>
    BY <1>1, <1>3, <1>6 DEF Insert, IInv, DataInv, capacity, CACHE_END_MARKER, cache_fill_ratio
  <2>2. /\ writer' \in WriterType /\ writer'.pc = "scan" /\ writer'.sel = s /\ writer'.replaced = {}
        /\ ~writer'.alot /\ writer.replaced = {}
    BY <1>1, <1>2, <2>1 DEF WriterType, Idle
  <2>3. DataInv' /\ TableInv' /\ MaskInv'
    BY <1>2, <2>1, <2>2, SameTables
  <2>4. WriterInv'
    BY <1>4, <1>6, <2>1, <2>2 DEF WriterInv
  <2>5. CountInv'
    <3>1. capacity = mask + 1
      BY <1>4, <1>6 DEF capacity
    <3>. QED
      BY <1>2, <1>4, <1>6, <2>1, <2>2, <3>1 DEF IInv, CountInv
  <2>6. CachedInv'
    BY <1>2, <2>1, <2>2 DEF IInv, CachedInv
  <2>7. ReaderInv' /\ RightInv'
    BY <1>2, <2>1, <2>2, SameReaders DEF Collecting
  <2>. QED
    BY <2>3, <2>4, <2>5, <2>6, <2>7 DEF IInv
<1>7. CASE ~isConstantEmptyCache /\ ~(occupied + 1 + CACHE_END_MARKER <= cache_fill_ratio(capacity))
  <2>1. PICK n : n = IF 2 * capacity > MAX_CACHE_SIZE THEN MAX_CACHE_SIZE ELSE 2 * capacity
    OBVIOUS
  <2>2. n \in Capacity /\ mask < n /\ n \in Nat
    BY <1>3, <1>4, <1>7, <2>1 DEF capacity, Capacity, INIT_CACHE_SIZE
  <2>3. PICK x \in WriterType : x = [w EXCEPT !.old = buckets, !.capacity = n]
    BY <2>2 DEF WriterType, IInv, DataInv
  <2>4. x.sel = s /\ x.replaced = {} /\ x.capacity = n /\ x.old = buckets
    BY <1>2, <2>3 DEF WriterType
  <2>5. Reallocate(x)
    BY <1>1, <1>7, <2>1, <2>3 DEF Insert
  <2>. QED
    BY <1>2, <2>2, <2>4, <2>5, ReallocateStep
<1>. QED
    BY <1>5, <1>6, <1>7

-----------------------------------------------------------------------------
(* The invariant *)

\* A class starts with the static table, no lookup and an idle writer.
LEMMA InvInit == Init => IInv
<1>. SUFFICES ASSUME Init PROVE IInv
    OBVIOUS
<1>1. /\ restartable \in Builds /\ mask = 0 /\ buckets = emptyBuckets /\ occupied = 0
      /\ heap = [b \in Table |-> <<>>] /\ garbage = {} /\ writer = Idle
      /\ reader = [r \in Reader |-> Out]
    BY DEF Init
<1>2. method \in [Sel -> Imp] /\ \A s \in Sel : method[s] \in {s} \X Version
  <2>1. PICK v : v = CHOOSE x \in Version : TRUE
    OBVIOUS
  <2>2. v \in Version
    BY <2>1, CacheAssumption
  <2>3. method = [s \in Sel |-> <<s, v>>]
    BY <2>1 DEF Init
  <2>. QED
    BY <2>2, <2>3 DEF Imp
<1>3. writer \in WriterType /\ writer.pc = "idle" /\ writer.sel = Nil
    BY <1>1 DEF Idle, WriterType
<1>4. \A r \in Reader : reader[r] \in ReaderType /\ ReaderOK(r, reader[r]) /\ RightOK(reader[r])
    BY <1>1, OutOK
<1>5. DataInv
    BY <1>1, <1>2, <1>3, <1>4, CacheAssumption DEF DataInv
<1>6. TableInv /\ MaskInv /\ WriterInv /\ CountInv /\ CachedInv
    BY <1>1, <1>3, CacheAssumption DEF TableInv, Used, MaskInv, WriterInv, CountInv, CachedInv
<1>. QED
    BY <1>4, <1>5, <1>6 DEF IInv, ReaderInv, RightInv

\* Every step keeps the invariant.
LEMMA InvNext == IInv /\ [Next]_vars => IInv'
<1>. SUFFICES ASSUME IInv, [Next]_vars PROVE IInv'
    OBVIOUS
<1>1. CASE \E s \in Sel : Insert(s)
    BY <1>1, InsertStep
<1>2. CASE \E s \in Replaceable, v \in Version : SetImplementation(s, v)
    BY <1>2, SetImplementationStep, CacheAssumption
<1>3. CASE FlushCaches \/ CollectALot
    BY <1>3, FlushCachesStep, CollectALotStep
<1>4. CASE WriterStep
    BY <1>4, SetMaskStep, ScanStep, SetSelStep, FlushStep, FreeGarbageStep, CheckThreadStep
       DEF WriterStep
<1>5. CASE \E r \in Reader : LookupStep(r) \/ \E s \in Sel : LoadMask(r, s)
    BY <1>5, LoadMaskStep, LoadBucketsStep, LoadSelStep, LoadEndStep, CacheHitStep DEF LookupStep
<1>6. CASE UNCHANGED vars
  <2>1. UNCHANGED <<restartable, method, mask, buckets, occupied, heap, garbage, writer, reader>>
    BY <1>6 DEF vars
  <2>2. DataInv' /\ TableInv' /\ MaskInv'
    <3>1. DataInv'
      BY <2>1 DEF IInv, DataInv, IsTable
    <3>2. TableInv'
      BY <2>1 DEF IInv, TableInv, Used
    <3>3. MaskInv'
      BY <2>1 DEF IInv, MaskInv, IsTable
    <3>. QED
      BY <3>1, <3>2, <3>3
  <2>3. WriterInv' /\ CountInv' /\ CachedInv'
    BY <2>1 DEF IInv, WriterInv, CountInv, CachedInv
  <2>4. ReaderInv' /\ RightInv'
    BY <2>1 DEF IInv, ReaderInv, RightInv, ReaderOK, RightOK, Loaded, Used, Collecting
  <2>. QED
    BY <2>2, <2>3, <2>4 DEF IInv
<1>. QED
    BY <1>1, <1>2, <1>3, <1>4, <1>5, <1>6 DEF Next

\* The invariant holds in every state of the cache.
THEOREM Invariance == Spec => []IInv
BY InvInit, InvNext, PTL DEF Spec

-----------------------------------------------------------------------------
(* The properties *)

\* No more threads are in a flush of all caches than the bound lets in.
FlushBound == flushed \in 0 .. MaxFlushed

\* They are counted where they take the first lock and where they take the second one.
LEMMA FlushedCounted == FlushBound /\ [Next]_vars => FlushBound'
<1>. SUFFICES ASSUME FlushBound, [Next]_vars PROVE FlushBound'
    OBVIOUS
<1>1. CASE UNCHANGED flushed
    BY <1>1 DEF FlushBound
<1>2. CASE FlushCaches
    BY <1>2, CacheAssumption DEF FlushCaches, FlushBound
<1>3. CASE CollectALot
    BY <1>3, CacheAssumption DEF CollectALot, FlushBound
<1>4. CASE WriterStep
  <2>1. UNCHANGED flushed
    BY <1>4 DEF WriterStep, SetMask, Scan, SetSel, Flush, FreeGarbage, CheckThread
  <2>. QED
    BY <1>1, <2>1
<1>5. CASE \/ \E s \in Sel : Insert(s)
           \/ \E s \in Replaceable, v \in Version : SetImplementation(s, v)
  <2>1. UNCHANGED flushed
    BY <1>5 DEF Insert, SetImplementation
  <2>. QED
    BY <1>1, <2>1
<1>6. CASE \E r \in Reader : LookupStep(r) \/ \E s \in Sel : LoadMask(r, s)
  <2>1. UNCHANGED flushed
    BY <1>6 DEF LookupStep, LoadMask, LoadBuckets, LoadSel, LoadEnd, CacheHit, ReaderStep
  <2>. QED
    BY <1>1, <2>1
<1>7. CASE UNCHANGED vars
    BY <1>1, <1>7 DEF vars
<1>. QED
    BY <1>2, <1>3, <1>4, <1>5, <1>6, <1>7 DEF Next

\* The bound holds in every state.
LEMMA FlushesBounded == Spec => []FlushBound
<1>1. Init => FlushBound
    BY CacheAssumption DEF Init, FlushBound
<1>. QED
    BY <1>1, FlushedCounted, PTL DEF Spec

\* What IInv says of types and tables, with the bound, is TypeOK.
LEMMA InvType == IInv /\ FlushBound => TypeOK
<1>. SUFFICES ASSUME IInv, FlushBound PROVE TypeOK
    OBVIOUS
<1>1. \A r \in Reader : reader[r].pc \in {"out", "buckets", "sel", "end", "imp"}
    BY DEF IInv, DataInv, ReaderType
<1>2. \A b \in Table : heap[b] = <<>> \/ \E n \in Capacity : heap[b] \in [0 .. n - 1 -> Bucket]
    BY DEF IInv, DataInv, IsTable
<1>3. \A b \in Table :
          (heap[b] # <<>>) <=> (b = buckets \/ b \in garbage \/ (b = writer.old /\ writer.pc = "mask"))
    BY DEF IInv, TableInv, Used
<1>. QED
    BY <1>1, <1>2, <1>3 DEF IInv, DataInv, TypeOK, WriterType, FlushBound

\* Every variable has its type, and every table is in use, garbage or free: none is
\* lost, and none is freed twice.
THEOREM TypeCorrect == Spec => []TypeOK
BY Invariance, FlushesBounded, InvType, PTL

\* The table a reader has loaded is used, hence not freed, and the reader inside it.
LEMMA InvRead == IInv => NoDeadRead
<1>. SUFFICES ASSUME IInv, NEW r \in Reader
              PROVE  /\ /\ reader[r].pc \in {"sel", "end", "imp"}
                        /\ reader[r].table # emptyBuckets
                        => heap[reader[r].table] # <<>>
                           /\ reader[r].i \in DOMAIN heap[reader[r].table]
                     /\ reader[r].pc \in {"sel", "end"} /\ reader[r].table = emptyBuckets =>
                            reader[r].i < MAX_CACHE_SIZE
    BY DEF NoDeadRead
<1>1. ReaderOK(r, reader[r]) /\ reader[r] \in ReaderType
    BY DEF IInv, ReaderInv, DataInv
<1>2. reader[r].table # emptyBuckets /\ Used(reader[r].table) => heap[reader[r].table] # <<>>
    BY <1>1 DEF IInv, TableInv, ReaderType
<1>. QED
    BY <1>1, <1>2 DEF ReaderOK, Loaded

\* "It is safe to free the memory": no reader loads from buckets that were freed, or
\* past the end of them.
THEOREM NoDeadReads == Spec => []NoDeadRead
BY Invariance, InvRead, PTL

\* What a reader finds of its selector is right, so its hit is.
LEMMA InvRight == IInv => LookupRight
<1>. SUFFICES ASSUME IInv, NEW r \in Reader, reader[r].pc = "imp"
              PROVE  Here(r).imp \in reader[r].right
    BY DEF LookupRight
<1>1. ReaderOK(r, reader[r]) /\ RightOK(reader[r]) /\ Loaded(reader[r])
    BY DEF IInv, ReaderInv, RightInv, Loaded
<1>. QED
    BY <1>1 DEF ReaderOK, RightOK, Here, At

\* A lookup never returns the imp of another selector, nor one that was replaced, and
\* flushed, before the lookup began.
THEOREM LookupIsRight == Spec => []LookupRight
BY Invariance, InvRight, PTL

\* The selectors fill three quarters of the table, with the end marker.
LEMMA InvEmptySlot == IInv => AlwaysEmptySlot
<1>. SUFFICES ASSUME IInv PROVE AlwaysEmptySlot
    OBVIOUS
<1>1. writer.pc # "bad_cache"
    BY DEF IInv, WriterInv
<1>2. ASSUME buckets # emptyBuckets, writer.pc # "mask"
      PROVE  \E i \in DOMAIN heap[buckets] : heap[buckets][i].sel = Nil
  <2>1. PICK n \in Capacity : n = mask + 1 /\ IsTable(heap[buckets], n)
    BY <1>2, CacheAssumption DEF IInv, MaskInv, DataInv, Capacity, INIT_CACHE_SIZE
  <2>2. /\ Cardinality(Filled(heap[buckets])) <= occupied
        /\ occupied + CACHE_END_MARKER <= cache_fill_ratio(n) /\ occupied \in Nat
    BY <1>2, <2>1, CacheAssumption DEF IInv, CountInv, DataInv
  <2>3. Cardinality(Filled(heap[buckets])) \in Nat /\ n \in Nat /\ DOMAIN heap[buckets] = 0 .. n - 1
    BY <2>1, FilledFinite, TableSlots
  <2>4. Cardinality(Filled(heap[buckets])) + CACHE_END_MARKER <= cache_fill_ratio(n)
    BY <2>2, <2>3 DEF CACHE_END_MARKER, cache_fill_ratio
  <2>. QED
    BY <2>1, <2>3, <2>4, EmptySlot
<1>3. ASSUME buckets # emptyBuckets, writer.pc = "mask"
      PROVE  \E i \in DOMAIN heap[buckets] : heap[buckets][i].sel = Nil
  <2>1. PICK n \in Capacity : IsTable(heap[buckets], n)
    BY <1>3 DEF IInv, MaskInv
  <2>2. n \in Nat /\ n >= 4 /\ DOMAIN heap[buckets] = 0 .. n - 1
    BY <2>1, TableSlots
  <2>3. Cardinality(Filled(heap[buckets])) = 0
    BY <1>3, FS_EmptySet DEF IInv, CountInv
  <2>4. Cardinality(Filled(heap[buckets])) + CACHE_END_MARKER <= cache_fill_ratio(n)
    BY <2>2, <2>3 DEF CACHE_END_MARKER, cache_fill_ratio
  <2>. QED
    BY <2>1, <2>2, <2>4, EmptySlot
<1>4. ASSUME buckets # emptyBuckets, writer.pc \notin {"mask", "sel"}
      PROVE  occupied = Cardinality({i \in DOMAIN heap[buckets] : heap[buckets][i].sel \in Sel})
    BY <1>4 DEF IInv, CountInv, Filled
<1>. QED
    BY <1>1, <1>2, <1>3, <1>4 DEF AlwaysEmptySlot

\* "There is guaranteed to be an empty slot": the cache in use has one, bad_cache is
\* never called, and occupied counts the others.
THEOREM EmptySlotLeft == Spec => []AlwaysEmptySlot
BY Invariance, InvEmptySlot, PTL
=============================================================================
