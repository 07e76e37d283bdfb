--------------------------- MODULE RefCountProofs ---------------------------
(***************************************************************************)
(* Safety of RefCount.tla for any number of threads and classes and any    *)
(* RC_HALF: the inductive invariant IInv, one lemma for each of its parts  *)
(* that says every step preserves it, and the theorems that follow.        *)
(* At most one thread is where the side table is touched (LockInv), so the *)
(* counts on their way are that thread's (CountInv); a compare-and-swap    *)
(* that succeeds saw the current word (OldInv); and a release that finds   *)
(* nothing to borrow therefore drops the only reference (LastReference).   *)
(***************************************************************************)
EXTENDS RefCount, FiniteSetTheorems, TLAPS

-----------------------------------------------------------------------------
(* The inductive invariant *)

\* Where a thread holds the lock, and where it does not.
LockedLabel ==
    {"rt_add", "sd_try", "rl_borrow", "rl_bstore", "rl_bload", "rl_bstore2",
     "rl_putback", "ci_move", "sw_load", "sw_store", "sw_set", "fatal"}
UnlockedLabel ==
    {"idle", "dealloc", "rt_lock", "sd_retain", "rl_lock", "sd_release",
     "overreleased", "ci_lock", "lw_read", "lw_lock", "sw_read", "sw_lock",
     "dl_clear", "dl_free"}

\* Where a call has not yet had its effect on the references.
RetainLabel == {"rt_load", "rt_lock", "rt_store", "sd_retain", "sd_try"}
ReleaseLabel ==
    {"rl_load", "rl_store", "rl_lock", "rl_borrow", "rl_bstore", "rl_bload",
     "rl_bstore2", "rl_putback", "rl_dealloc", "sd_release"}
ChangeIsaLabel == {"ci_load", "ci_lock", "ci_store", "ci_move"}
StoreWeakLabel == {"sw_read", "sw_lock", "sw_load", "sw_store", "sw_set"}

\* Where the side table is used beside a nonpointer isa.
SideLabel ==
    {"rt_add", "rl_borrow", "rl_bstore", "rl_bload", "rl_bstore2", "rl_putback"}

\* The lock, thread by thread.
LockInv ==
    \A t \in Thread :
        /\ pc[t] \in LockedLabel => lock = t
        /\ pc[t] \in UnlockedLabel => lock # t
        /\ try[t] => lock = t /\ pc[t] \in {"rt_load", "rt_store", "rt_add", "sd_try"}
        /\ pc[t] = "sd_try" => try[t]
        /\ pc[t] = "rt_store" /\ old[t].extra_rc = RC_MAX => lock = t
        /\ pc[t] = "ci_store" /\ old[t].nonpointer /\ ToRaw(t) => lock = t
        /\ pc[t] = "rl_dealloc" /\ old[t].has_sidetable_rc => lock = t /\ side.rc = 0

\* What a thread remembers of the isa word it loaded.
OldInv ==
    \A t \in Thread :
        /\ pc[t] \in {"rt_store", "rt_lock", "rl_store", "rl_borrow", "rl_bstore",
                      "rl_bstore2", "rl_dealloc", "ci_move", "sw_store"} =>
               old[t].nonpointer
        /\ pc[t] = "rt_store" /\ try[t] => ~old[t].deallocating
        /\ pc[t] = "rl_store" => old[t].extra_rc > 0
        /\ pc[t] \in {"rl_borrow", "rl_bstore", "rl_dealloc"} => old[t].extra_rc = 0
        /\ pc[t] = "rl_bstore2" => old[t].extra_rc + RC_HALF - 1 <= RC_MAX
        /\ pc[t] = "rl_borrow" /\ old[t].deallocating => isa = old[t]
        /\ pc[t] = "rl_dealloc" => ~old[t].deallocating

\* n is a whole number of halves: what overflow moves and underflow borrows.
Multiple(n) == \E k \in 0 .. n : n = k * RC_HALF

\* The isa word, raw and nonpointer, and the side table beside it.
IsaInv ==
    /\ ~isa.nonpointer =>
           /\ isa.extra_rc = 0 /\ ~isa.weakly_referenced
           /\ ~isa.deallocating /\ ~isa.has_sidetable_rc
    /\ isa.nonpointer =>
           ~side.deallocating /\ ~side.weakly_referenced /\ Multiple(side.rc)
    /\ isa.nonpointer /\ ~isa.has_sidetable_rc => side.rc = 0
    /\ \A t \in Thread :
           /\ pc[t] \in SideLabel => isa.nonpointer /\ isa.has_sidetable_rc
           /\ pc[t] \in {"sd_retain", "sd_try", "sd_release", "ci_move"} =>
                  ~isa.nonpointer
           /\ pc[t] = "ci_move" => ~side.deallocating /\ ~side.weakly_referenced

\* A call is made by a thread that may use the object, with room for the
\* reference it gains; -dealloc runs on one thread.
UseInv ==
    \A t \in Thread :
        /\ pc[t] \in ReleaseLabel \union {"rt_add"} => held[t] > 0
        /\ pc[t] \in RetainLabel \union {"lw_read", "lw_lock"} => held[t] < MaxHeld
        /\ pc[t] \in RetainLabel /\ ~try[t] => held[t] > 0 \/ deallocator = t
        /\ pc[t] \in ChangeIsaLabel => held[t] > 0 \/ deallocator = t
        /\ pc[t] \in StoreWeakLabel /\ arg[t].new = "obj" =>
               /\ held[t] > 0 \/ deallocator = t
               /\ arg[t].crash => deallocator # t
        /\ pc[t] \in {"dealloc", "dl_clear", "dl_free"} => deallocator = t
        /\ pc[t] \in {"dl_clear", "dl_free"} => held[t] = 0
        /\ deallocator = t => pc[t] # "idle"
        /\ pc[t] \notin {"overreleased", "fatal"}

\* -dealloc has started.
Dying == deallocator # NoThread \/ freed

\* The side table entry has been erased and the memory is about to go.
Gone == freed \/ \E t \in Thread : pc[t] = "dl_free"

\* The deallocating bit tells exactly that, wherever it is kept.
DyingInv ==
    /\ freed => deallocator = NoThread
    /\ isa.nonpointer => (isa.deallocating <=> Dying)
    /\ \A t \in Thread : pc[t] = "ci_move" => (old[t].deallocating <=> Dying)
    /\ ~isa.nonpointer /\ ~Gone /\ (\A t \in Thread : pc[t] # "ci_move") =>
           (side.deallocating <=> Dying)
    /\ Dying => \A t \in Thread \ {deallocator} : held[t] = 0
    /\ \A t \in Thread :
           pc[t] \in {"sw_load", "sw_store", "sw_set"} /\ arg[t].new = "obj" => ~Dying

\* The object is marked weakly referenced, wherever the bit is kept.
Marked ==
    \/ isa.weakly_referenced
    \/ side.weakly_referenced
    \/ \E t \in Thread : pc[t] = "ci_move" /\ old[t].weakly_referenced

\* The weak variable, its entry in the weak table and the mark.
WeakInv ==
    /\ location = "obj" => Marked
    /\ \A t \in Thread :
           /\ try[t] => location = "obj"
           /\ pc[t] = "sw_set" /\ arg[t].new = "obj" => Marked
           /\ pc[t] \in {"sw_load", "sw_store"} => arg[t].new = "obj"
           /\ pc[t] \in {"sw_load", "sw_store", "sw_set"} =>
                  (entry <=> arg[t].new = "obj")
    /\ (\A t \in Thread : pc[t] \notin {"sw_load", "sw_store", "sw_set"}) =>
           (entry <=> location = "obj")
    /\ Gone =>
           location = "nil" /\ ~entry /\ side = NoEntry /\ \A t \in Thread : ~try[t]

\* The books balance.
CountInv ==
    (IF Dying THEN 0 ELSE 1) + isa.extra_rc + side.rc + InFlight
        = Cardinality(Strong)

IInv ==
    /\ TypeOK /\ LockInv /\ OldInv /\ IsaInv /\ UseInv /\ DyingInv /\ WeakInv
    /\ CountInv

-----------------------------------------------------------------------------
(* Data *)

USE ThreadAssumption, ClassAssumption, CountAssumption

\* What the assumptions say of the constants, and the types of the constant
\* values: a fresh isa, a raw one, an empty side table entry, unused locals.
LEMMA Constants ==
    /\ RC_MAX \in Nat /\ RC_MAX = 2 * RC_HALF - 1
    /\ RC_HALF \in 1 .. RC_MAX /\ MaxHeld \in Nat \ {0}
    /\ \A c \in Class : RawIsa(c) \in IsaWord /\ FreshIsa(c) \in IsaWord
    /\ NoIsa \in IsaWord
    /\ NoArg \in Arg
    /\ NoEntry \in SideWord
<1>1. RC_MAX \in Nat /\ RC_MAX = 2 * RC_HALF - 1 /\ RC_HALF \in 1 .. RC_MAX
    BY DEF RC_MAX
<1>2. ASSUME NEW c \in Class, NEW b \in BOOLEAN PROVE NewIsa(c, b) \in IsaWord
    BY <1>1 DEF NewIsa, IsaWord
<1>3. ASSUME NEW c \in Class PROVE FreshIsa(c) \in IsaWord
  <2>1. (c \notin RawClass) \in BOOLEAN
    BY Zenon
  <2> QED BY <1>2, <2>1 DEF FreshIsa
<1>4. ASSUME NEW c \in Class PROVE RawIsa(c) \in IsaWord
    BY <1>2 DEF RawIsa
<1>5. NoIsa \in IsaWord
  <2>1. (CHOOSE c \in Class : TRUE) \in Class
    OBVIOUS
  <2> QED BY <1>4, <2>1 DEF NoIsa
<1>6. NoArg \in Arg
  <2>1. NoIsa.cls \in Class
    BY <1>5 DEF IsaWord
  <2> QED BY <2>1 DEF NoArg, Arg, Value
<1> QED BY <1>1, <1>3, <1>4, <1>5, <1>6 DEF NoEntry, SideWord

\* Overflow and underflow move one half at a time.
LEMMA Halves ==
    ASSUME NEW n \in Nat, Multiple(n)
    PROVE  /\ Multiple(n + RC_HALF)
           /\ n # 0 => n >= RC_HALF /\ Multiple(n - RC_HALF)
<1>1. PICK k \in 0 .. n : n = k * RC_HALF
    BY DEF Multiple
<1>2. n + RC_HALF = (k + 1) * RC_HALF
    BY <1>1
<1>3. k + 1 \in 0 .. (n + RC_HALF)
    OBVIOUS
<1>4. ASSUME n # 0 PROVE n >= RC_HALF /\ Multiple(n - RC_HALF)
  <2>1. k >= 1
    BY <1>1, <1>4
  <2>2. n - RC_HALF = (k - 1) * RC_HALF
    BY <1>1
  <2>3. (k - 1) * RC_HALF >= k - 1
    BY <2>1
  <2>4. n - RC_HALF \in Nat /\ k - 1 \in 0 .. (n - RC_HALF)
    BY <2>1, <2>2, <2>3
  <2> QED BY <2>2, <2>4 DEF Multiple
<1> QED BY <1>2, <1>3, <1>4 DEF Multiple

-----------------------------------------------------------------------------
(* Counting references *)

\* The references that exist can be counted.
LEMMA StrongFinite ==
    ASSUME TypeOK
    PROVE  IsFiniteSet(Strong) /\ Cardinality(Strong) \in Nat
<1>1. IsFiniteSet(1 .. MaxHeld)
    BY FS_Interval
<1>2. IsFiniteSet(Thread \X (1 .. MaxHeld))
    BY <1>1, FS_Product
<1>3. IsFiniteSet(Strong)
    BY <1>2, FS_Subset DEF Strong
<1> QED BY <1>3, FS_CardinalityType

\* A step that touches nobody's references leaves their number alone.
LEMMA SameStrong ==
    ASSUME held' = held
    PROVE  Cardinality(Strong') = Cardinality(Strong)
    BY DEF Strong

\* A retain makes one reference more.
LEMMA GainStrong ==
    ASSUME TypeOK, NEW t \in Thread, held[t] < MaxHeld, Gain(t)
    PROVE  /\ held' \in [Thread -> 0 .. MaxHeld]
           /\ Cardinality(Strong') = Cardinality(Strong) + 1
<1> DEFINE p == <<t, held[t] + 1>>
<1>1. held \in [Thread -> 0 .. MaxHeld]
    BY DEF TypeOK
<1>2. held' \in [Thread -> 0 .. MaxHeld]
    BY <1>1 DEF Gain
<1>3. Strong' = Strong \union {p}
  <2>1. ASSUME NEW u \in Thread, NEW i \in 1 .. MaxHeld
        PROVE  i <= held'[u] <=> i <= held[u] \/ <<u, i>> = p
    BY <1>1, <2>1 DEF Gain
  <2>2. p \in Thread \X (1 .. MaxHeld)
    BY <1>1
  <2> QED BY <2>1, <2>2 DEF Strong
<1>4. p \notin Strong
    BY <1>1 DEF Strong
<1> QED BY <1>2, <1>3, <1>4, StrongFinite, FS_AddElement

\* A release makes one reference less.
LEMMA LoseStrong ==
    ASSUME TypeOK, NEW t \in Thread, held[t] > 0, Lose(t)
    PROVE  /\ held' \in [Thread -> 0 .. MaxHeld]
           /\ Cardinality(Strong') = Cardinality(Strong) - 1
<1> DEFINE p == <<t, held[t]>>
<1>1. held \in [Thread -> 0 .. MaxHeld]
    BY DEF TypeOK
<1>2. held' \in [Thread -> 0 .. MaxHeld]
    BY <1>1 DEF Lose
<1>3. Strong' = Strong \ {p}
  <2>1. ASSUME NEW u \in Thread, NEW i \in 1 .. MaxHeld
        PROVE  i <= held'[u] <=> i <= held[u] /\ <<u, i>> # p
    BY <1>1, <2>1 DEF Lose
  <2> QED BY <2>1 DEF Strong
<1>4. p \in Strong
    BY <1>1 DEF Strong
<1> QED BY <1>2, <1>3, <1>4, StrongFinite, FS_RemoveElement

\* A reference changes hands.
LEMMA PassStrong ==
    ASSUME TypeOK, NEW t \in Thread, NEW u \in Thread, Pass(t, u)
    PROVE  /\ held' \in [Thread -> 0 .. MaxHeld]
           /\ Cardinality(Strong') = Cardinality(Strong)
<1> DEFINE p == <<t, held[t]>>
           q == <<u, held[u] + 1>>
<1>1. held \in [Thread -> 0 .. MaxHeld] /\ t # u /\ held[t] > 0 /\ held[u] < MaxHeld
    BY DEF TypeOK, Pass
<1>2. held' \in [Thread -> 0 .. MaxHeld]
    BY <1>1 DEF Pass
<1>3. Strong' = (Strong \ {p}) \union {q}
  <2>1. ASSUME NEW v \in Thread, NEW i \in 1 .. MaxHeld
        PROVE  i <= held'[v] <=> (i <= held[v] /\ <<v, i>> # p) \/ <<v, i>> = q
    BY <1>1, <2>1 DEF Pass
  <2>2. q \in Thread \X (1 .. MaxHeld)
    BY <1>1
  <2> QED BY <2>1, <2>2 DEF Strong
<1>4. p \in Strong /\ q \notin Strong
    BY <1>1 DEF Strong
<1>5. IsFiniteSet(Strong \ {p}) /\ Cardinality(Strong \ {p}) = Cardinality(Strong) - 1
    BY <1>4, StrongFinite, FS_RemoveElement
<1>6. Cardinality(Strong') = Cardinality(Strong \ {p}) + 1
    BY <1>3, <1>4, <1>5, FS_AddElement
<1> QED BY <1>2, <1>5, <1>6, StrongFinite

\* The last reference is the only one.
LEMMA LastStrong ==
    ASSUME TypeOK, NEW t \in Thread, held[t] > 0, Cardinality(Strong) = 1
    PROVE  /\ held[t] = 1
           /\ \A u \in Thread \ {t} : held[u] = 0
<1>1. held \in [Thread -> 0 .. MaxHeld]
    BY DEF TypeOK
<1>2. <<t, 1>> \in Strong
    BY <1>1 DEF Strong
<1>3. Cardinality(Strong \ {<<t, 1>>}) = 0 /\ IsFiniteSet(Strong \ {<<t, 1>>})
    BY <1>2, StrongFinite, FS_RemoveElement
<1>4. Strong \ {<<t, 1>>} = {}
    BY <1>3, FS_EmptySet
<1>5. \A p \in Strong : p = <<t, 1>>
    BY <1>4
<1>6. ASSUME NEW u \in Thread, held[u] > 0 PROVE u = t /\ held[u] = 1
  <2>1. <<u, held[u]>> \in Strong
    BY <1>1, <1>6 DEF Strong
  <2> QED BY <1>5, <2>1
<1>7. held[t] = 1
    BY <1>6
<1>8. \A u \in Thread \ {t} : held[u] = 0
    BY <1>1, <1>6
<1> QED BY <1>7, <1>8

\* No thread holds a reference: there is none.
LEMMA NoStrong ==
    ASSUME TypeOK, \A u \in Thread : held[u] = 0
    PROVE  Cardinality(Strong) = 0
<1>1. Strong = {}
    BY DEF Strong, TypeOK
<1> QED BY <1>1, FS_EmptySet

-----------------------------------------------------------------------------
(* Every step preserves the invariant *)

Step(t) == ClientStep(t) \/ RuntimeStep(t) \/ RootDealloc(t)

\* Every step keeps what is known of the lock.
LEMMA LockStep ==
    ASSUME IInv, TypeOK', NEW t \in Thread, Step(t)
    PROVE  LockInv'
<1> USE DEF Call, CallWith, Goto, Home, AtHome, CanUse, Return, Forget, Lock,
       Unlock, UnlockIfLocked, LoadExclusive, StoreExclusive, StoreFails, Gain,
       Lose, Retained, Released, StartDealloc, shared, weak, client, local,
       TypeOK, IsaWord, LockInv, OldInv, ToRaw, LockedLabel, UnlockedLabel
<1>0. /\ TypeOK /\ LockInv /\ OldInv /\ IsaInv /\ UseInv /\ DyingInv /\ WeakInv
      /\ CountInv
    BY DEF IInv
<1>1. ASSUME CallRetain(t) PROVE LockInv'
    BY <1>1, <1>0 DEF CallRetain
<1>2. ASSUME CallRelease(t) PROVE LockInv'
    BY <1>2, <1>0 DEF CallRelease
<1>3. ASSUME CallLoadWeak(t) PROVE LockInv'
    BY <1>3, <1>0 DEF CallLoadWeak
<1>4. ASSUME NEW c \in Class, CallChangeIsa(t, c) PROVE LockInv'
    BY <1>4, <1>0 DEF CallChangeIsa
<1>5. ASSUME NEW v \in Value, NEW crash \in BOOLEAN,
            CallStoreWeak(t, v, crash) PROVE LockInv'
    BY <1>5, <1>0 DEF CallStoreWeak
<1>6. ASSUME NEW u \in Thread, Pass(t, u) PROVE LockInv'
    BY <1>6, <1>0 DEF Pass
<1>7. ASSUME RetainLoad(t) PROVE LockInv'
    BY <1>7, <1>0, SMTT(30) DEF RetainLoad
<1>8. ASSUME RetainLock(t) PROVE LockInv'
    BY <1>8, <1>0 DEF RetainLock
<1>9. ASSUME RetainStore(t) PROVE LockInv'
    BY <1>9, <1>0 DEF RetainStore, Carried
<1>10. ASSUME RetainAdd(t) PROVE LockInv'
    BY <1>10, <1>0 DEF RetainAdd
<1>11. ASSUME SidetableRetain(t) PROVE LockInv'
    BY <1>11, <1>0 DEF SidetableRetain
<1>12. ASSUME SidetableTryRetain(t) PROVE LockInv'
    BY <1>12, <1>0 DEF SidetableTryRetain
<1>13. ASSUME ReleaseLoad(t) PROVE LockInv'
    BY <1>13, <1>0, SMTT(30) DEF ReleaseLoad
<1>14. ASSUME ReleaseStore(t) PROVE LockInv'
    BY <1>14, <1>0 DEF ReleaseStore
<1>15. ASSUME ReleaseLock(t) PROVE LockInv'
    BY <1>15, <1>0 DEF ReleaseLock
<1>16. ASSUME ReleaseBorrow(t) PROVE LockInv'
    BY <1>16, <1>0 DEF ReleaseBorrow
<1>17. ASSUME ReleaseBorrowStore(t) PROVE LockInv'
    BY <1>17, <1>0 DEF ReleaseBorrowStore
<1>18. ASSUME ReleaseBorrowLoad(t) PROVE LockInv'
    BY <1>18, <1>0 DEF ReleaseBorrowLoad
<1>19. ASSUME ReleaseBorrowStore2(t) PROVE LockInv'
    BY <1>19, <1>0 DEF ReleaseBorrowStore2
<1>20. ASSUME ReleasePutBack(t) PROVE LockInv'
    BY <1>20, <1>0 DEF ReleasePutBack
<1>21. ASSUME ReleaseDealloc(t) PROVE LockInv'
    BY <1>21, <1>0 DEF ReleaseDealloc
<1>22. ASSUME SidetableRelease(t) PROVE LockInv'
    BY <1>22, <1>0 DEF SidetableRelease
<1>23. ASSUME ChangeIsaLoad(t) PROVE LockInv'
    BY <1>23, <1>0 DEF ChangeIsaLoad
<1>24. ASSUME ChangeIsaLock(t) PROVE LockInv'
    BY <1>24, <1>0 DEF ChangeIsaLock
<1>25. ASSUME ChangeIsaStore(t) PROVE LockInv'
    BY <1>25, <1>0 DEF ChangeIsaStore
<1>26. ASSUME ChangeIsaMove(t) PROVE LockInv'
    BY <1>26, <1>0 DEF ChangeIsaMove
<1>27. ASSUME LoadWeakRead(t) PROVE LockInv'
    BY <1>27, <1>0 DEF LoadWeakRead
<1>28. ASSUME LoadWeakLock(t) PROVE LockInv'
    BY <1>28, <1>0 DEF LoadWeakLock
<1>29. ASSUME StoreWeakRead(t) PROVE LockInv'
    BY <1>29, <1>0 DEF StoreWeakRead
<1>30. ASSUME StoreWeakLock(t) PROVE LockInv'
    BY <1>30, <1>0 DEF StoreWeakLock
<1>31. ASSUME StoreWeakLoad(t) PROVE LockInv'
    BY <1>31, <1>0 DEF StoreWeakLoad
<1>32. ASSUME StoreWeakStore(t) PROVE LockInv'
    BY <1>32, <1>0 DEF StoreWeakStore
<1>33. ASSUME StoreWeakSet(t) PROVE LockInv'
    BY <1>33, <1>0 DEF StoreWeakSet
<1>34. ASSUME RootDealloc(t) PROVE LockInv'
    BY <1>34, <1>0 DEF RootDealloc
<1>35. ASSUME ClearDeallocating(t) PROVE LockInv'
    BY <1>35, <1>0 DEF ClearDeallocating
<1>36. ASSUME Free(t) PROVE LockInv'
    BY <1>36, <1>0 DEF Free
<1> HIDE DEF LockInv, TypeOK
<1> QED
    BY <1>1, <1>2, <1>3, <1>4, <1>5, <1>6, <1>7, <1>8, <1>9, <1>10, <1>11,
         <1>12, <1>13, <1>14, <1>15, <1>16, <1>17, <1>18, <1>19,
         <1>20, <1>21, <1>22, <1>23, <1>24, <1>25, <1>26, <1>27,
         <1>28, <1>29, <1>30, <1>31, <1>32, <1>33, <1>34, <1>35, <1>36
       DEF Step, ClientStep, RuntimeStep

\* With an empty side table and nothing inline there is only the reference
\* being released, and the object is not being deallocated yet.
LEMMA NothingToBorrow ==
    ASSUME IInv, NEW t \in Thread, pc[t] \in {"rl_load", "rl_borrow", "rl_dealloc"},
           isa.nonpointer, isa.extra_rc = 0,
           ~isa.has_sidetable_rc \/ (lock = t /\ side.rc = 0)
    PROVE  ~Dying /\ ~isa.deallocating /\ held[t] > 0 /\ Cardinality(Strong) = 1
<1>1. side.rc = 0 /\ InFlight = 0
    BY DEF IInv, TypeOK, IsaInv, InFlight, Moving, SideLabel
<1>2. held[t] > 0 /\ held \in [Thread -> 0 .. MaxHeld]
    BY DEF IInv, TypeOK, UseInv, ReleaseLabel
<1>3. Cardinality(Strong) # 0
  <2>1. <<t, 1>> \in Strong
    BY <1>2 DEF Strong
  <2> QED BY <2>1, StrongFinite, FS_EmptySet DEF IInv
<1>4. ~Dying /\ Cardinality(Strong) = 1
    BY <1>1, <1>3 DEF IInv, CountInv
<1> QED BY <1>2, <1>4 DEF IInv, DyingInv

\* The compare-and-swap that sets the deallocating bit drops the last
\* reference there is.
LEMMA LastReference ==
    ASSUME IInv, NEW t \in Thread, ReleaseDealloc(t), pc'[t] # "rl_load"
    PROVE  /\ ~Dying /\ held[t] = 1 /\ Cardinality(Strong) = 1
           /\ \A u \in Thread \ {t} : held[u] = 0
<1>1. pc[t] = "rl_dealloc" /\ isa = old[t]
    BY DEF ReleaseDealloc, Goto, IInv, TypeOK, OldInv, StoreExclusive
<1>2. /\ isa.nonpointer /\ isa.extra_rc = 0
      /\ ~isa.has_sidetable_rc \/ (lock = t /\ side.rc = 0)
    BY <1>1 DEF IInv, TypeOK, IsaWord, OldInv, LockInv
<1>3. ~Dying /\ held[t] > 0 /\ Cardinality(Strong) = 1
    BY <1>1, <1>2, NothingToBorrow
<1> QED BY <1>3, LastStrong DEF IInv

\* So does the release that finds a zero word in the side table.
LEMMA LastReferenceRaw ==
    ASSUME IInv, NEW t \in Thread, SidetableRelease(t), side.rc = 0
    PROVE  /\ ~Dying /\ ~side.deallocating /\ held[t] = 1 /\ Cardinality(Strong) = 1
           /\ \A u \in Thread \ {t} : held[u] = 0
<1>1. pc[t] = "sd_release" /\ lock = NoThread
    BY DEF SidetableRelease
<1>2. ~isa.nonpointer /\ isa.extra_rc = 0 /\ InFlight = 0
    BY <1>1 DEF IInv, IsaInv, InFlight
<1>3. held[t] > 0 /\ held \in [Thread -> 0 .. MaxHeld]
    BY <1>1 DEF IInv, TypeOK, UseInv, ReleaseLabel
<1>4. Cardinality(Strong) # 0
  <2>1. <<t, 1>> \in Strong
    BY <1>3 DEF Strong
  <2> QED BY <2>1, StrongFinite, FS_EmptySet DEF IInv
<1>5. ~Dying /\ Cardinality(Strong) = 1
    BY <1>2, <1>4 DEF IInv, CountInv
<1>6. ~Gone /\ \A u \in Thread : pc[u] # "ci_move"
    BY <1>1, <1>5 DEF IInv, Gone, Dying, UseInv, LockInv, LockedLabel, TypeOK, ThreadAssumption
<1>7. ~side.deallocating
    BY <1>2, <1>5, <1>6 DEF IInv, DyingInv
<1> QED BY <1>3, <1>5, <1>7, LastStrong DEF IInv

\* A store that changes the count changes no other bit a reader looks at.
LEMMA CountStores ==
    ASSUME TypeOK, NEW t \in Thread,
           \/ RetainStore(t) \/ ReleaseStore(t)
           \/ ReleaseBorrowStore(t) \/ ReleaseBorrowStore2(t)
    PROVE  /\ isa'.nonpointer = isa.nonpointer
           /\ isa'.deallocating = isa.deallocating
           /\ isa'.weakly_referenced = isa.weakly_referenced
           /\ UNCHANGED <<side, entry, location, deallocator, freed>>
<1>0. isa \in IsaWord /\ old[t] \in IsaWord
    BY DEF TypeOK
<1>1. CASE RetainStore(t)
    BY <1>0, <1>1 DEF RetainStore, Carried, StoreExclusive, StoreFails, IsaWord, weak
<1>2. CASE ReleaseStore(t)
    BY <1>0, <1>2 DEF ReleaseStore, StoreExclusive, StoreFails, IsaWord, weak
<1>3. CASE ReleaseBorrowStore(t)
    BY <1>0, <1>3 DEF ReleaseBorrowStore, StoreExclusive, StoreFails, IsaWord, weak
<1>4. CASE ReleaseBorrowStore2(t)
    BY <1>0, <1>4 DEF ReleaseBorrowStore2, StoreExclusive, StoreFails, IsaWord, weak
<1> QED BY <1>1, <1>2, <1>3, <1>4

\* A thread that may use the object finds it there.
LEMMA UserKeepsAlive ==
    ASSUME IInv, NEW t \in Thread, held[t] > 0 \/ deallocator = t, pc[t] # "dl_free"
    PROVE  ~Gone /\ ~freed /\ (Dying => deallocator = t)
<1>1. /\ TypeOK /\ UseInv
      /\ freed => deallocator = NoThread
      /\ Dying => \A u \in Thread \ {deallocator} : held[u] = 0
    BY DEF IInv, DyingInv
<1>2. Dying => deallocator = t
    BY <1>1
<1>3. ~freed
    BY <1>1, <1>2, ThreadAssumption DEF Dying
<1>4. ASSUME NEW u \in Thread, pc[u] = "dl_free" PROVE FALSE
  <2>1. deallocator = u
    BY <1>1, <1>4 DEF UseInv
  <2> QED BY <1>2, <1>4, <2>1, ThreadAssumption DEF Dying
<1> QED BY <1>2, <1>3, <1>4 DEF Gone

\* Every step keeps what is known of the words the threads remember.
LEMMA OldStep ==
    ASSUME IInv, TypeOK', NEW t \in Thread, Step(t)
    PROVE  OldInv'
<1> USE DEF Call, CallWith, Goto, Home, AtHome, CanUse, Return, Forget, Lock,
       Unlock, UnlockIfLocked, LoadExclusive, StoreExclusive, StoreFails, Gain,
       Lose, Retained, Released, StartDealloc, shared, weak, client, local,
       TypeOK, IsaWord, SideWord, OldInv, LockInv, IsaInv, UseInv, DyingInv, Dying,
       LockedLabel, SideLabel, RetainLabel, ReleaseLabel, ChangeIsaLabel,
       StoreWeakLabel, ToRaw, NewIsa, RawIsa
<1>0. /\ TypeOK /\ LockInv /\ OldInv /\ IsaInv /\ UseInv /\ DyingInv /\ WeakInv
      /\ CountInv
    BY DEF IInv
<1>1. ASSUME CallRetain(t) PROVE OldInv'
    BY <1>1, <1>0 DEF CallRetain
<1>2. ASSUME CallRelease(t) PROVE OldInv'
    BY <1>2, <1>0 DEF CallRelease
<1>3. ASSUME CallLoadWeak(t) PROVE OldInv'
    BY <1>3, <1>0 DEF CallLoadWeak
<1>4. ASSUME NEW c \in Class, CallChangeIsa(t, c) PROVE OldInv'
    BY <1>4, <1>0 DEF CallChangeIsa
<1>5. ASSUME NEW v \in Value, NEW crash \in BOOLEAN,
            CallStoreWeak(t, v, crash) PROVE OldInv'
    BY <1>5, <1>0 DEF CallStoreWeak
<1>6. ASSUME NEW u \in Thread, Pass(t, u) PROVE OldInv'
    BY <1>6, <1>0 DEF Pass
<1>7. ASSUME RetainLoad(t) PROVE OldInv'
    BY <1>7, <1>0 DEF RetainLoad
<1>8. ASSUME RetainLock(t) PROVE OldInv'
    BY <1>8, <1>0 DEF RetainLock
<1>9. ASSUME RetainStore(t) PROVE OldInv'
    BY <1>9, <1>0 DEF RetainStore, Carried
<1>10. ASSUME RetainAdd(t) PROVE OldInv'
    BY <1>10, <1>0 DEF RetainAdd
<1>11. ASSUME SidetableRetain(t) PROVE OldInv'
    BY <1>11, <1>0 DEF SidetableRetain
<1>12. ASSUME SidetableTryRetain(t) PROVE OldInv'
    BY <1>12, <1>0 DEF SidetableTryRetain
<1>13. ASSUME ReleaseLoad(t) PROVE OldInv'
  <2>1. isa.nonpointer /\ isa.extra_rc = 0 /\ ~isa.has_sidetable_rc => ~isa.deallocating
    BY <1>13, <1>0, NothingToBorrow DEF ReleaseLoad
  <2> QED BY <1>13, <1>0, <2>1 DEF ReleaseLoad
<1>14. ASSUME ReleaseStore(t) PROVE OldInv'
    BY <1>14, <1>0 DEF ReleaseStore
<1>15. ASSUME ReleaseLock(t) PROVE OldInv'
    BY <1>15, <1>0 DEF ReleaseLock
<1>16. ASSUME ReleaseBorrow(t) PROVE OldInv'
  <2>1. side.rc = 0 => ~old[t].deallocating
    BY <1>16, <1>0, NothingToBorrow, SMTT(20) DEF ReleaseBorrow
  <2> QED BY <1>16, <1>0, <2>1 DEF ReleaseBorrow
<1>17. ASSUME ReleaseBorrowStore(t) PROVE OldInv'
    BY <1>17, <1>0 DEF ReleaseBorrowStore
<1>18. ASSUME ReleaseBorrowLoad(t) PROVE OldInv'
    BY <1>18, <1>0 DEF ReleaseBorrowLoad
<1>19. ASSUME ReleaseBorrowStore2(t) PROVE OldInv'
    BY <1>19, <1>0 DEF ReleaseBorrowStore2
<1>20. ASSUME ReleasePutBack(t) PROVE OldInv'
    BY <1>20, <1>0 DEF ReleasePutBack
<1>21. ASSUME ReleaseDealloc(t) PROVE OldInv'
    BY <1>21, <1>0 DEF ReleaseDealloc
<1>22. ASSUME SidetableRelease(t) PROVE OldInv'
    BY <1>22, <1>0 DEF SidetableRelease
<1>23. ASSUME ChangeIsaLoad(t) PROVE OldInv'
    BY <1>23, <1>0 DEF ChangeIsaLoad
<1>24. ASSUME ChangeIsaLock(t) PROVE OldInv'
    BY <1>24, <1>0 DEF ChangeIsaLock
<1>25. ASSUME ChangeIsaStore(t) PROVE OldInv'
    BY <1>25, <1>0 DEF ChangeIsaStore
<1>26. ASSUME ChangeIsaMove(t) PROVE OldInv'
    BY <1>26, <1>0 DEF ChangeIsaMove
<1>27. ASSUME LoadWeakRead(t) PROVE OldInv'
    BY <1>27, <1>0 DEF LoadWeakRead
<1>28. ASSUME LoadWeakLock(t) PROVE OldInv'
    BY <1>28, <1>0 DEF LoadWeakLock
<1>29. ASSUME StoreWeakRead(t) PROVE OldInv'
    BY <1>29, <1>0 DEF StoreWeakRead
<1>30. ASSUME StoreWeakLock(t) PROVE OldInv'
    BY <1>30, <1>0 DEF StoreWeakLock
<1>31. ASSUME StoreWeakLoad(t) PROVE OldInv'
    BY <1>31, <1>0 DEF StoreWeakLoad
<1>32. ASSUME StoreWeakStore(t) PROVE OldInv'
    BY <1>32, <1>0 DEF StoreWeakStore
<1>33. ASSUME StoreWeakSet(t) PROVE OldInv'
    BY <1>33, <1>0 DEF StoreWeakSet
<1>34. ASSUME RootDealloc(t) PROVE OldInv'
    BY <1>34, <1>0 DEF RootDealloc
<1>35. ASSUME ClearDeallocating(t) PROVE OldInv'
    BY <1>35, <1>0 DEF ClearDeallocating
<1>36. ASSUME Free(t) PROVE OldInv'
    BY <1>36, <1>0 DEF Free
<1> HIDE DEF OldInv, TypeOK
<1> QED
    BY <1>1, <1>2, <1>3, <1>4, <1>5, <1>6, <1>7, <1>8, <1>9, <1>10, <1>11,
         <1>12, <1>13, <1>14, <1>15, <1>16, <1>17, <1>18, <1>19,
         <1>20, <1>21, <1>22, <1>23, <1>24, <1>25, <1>26, <1>27,
         <1>28, <1>29, <1>30, <1>31, <1>32, <1>33, <1>34, <1>35, <1>36
       DEF Step, ClientStep, RuntimeStep

\* Every step keeps the isa word and the side table in agreement.
LEMMA IsaStep ==
    ASSUME IInv, TypeOK', NEW t \in Thread, Step(t)
    PROVE  IsaInv'
<1> USE DEF Call, CallWith, Goto, Home, AtHome, CanUse, Return, Forget, Lock,
       Unlock, UnlockIfLocked, LoadExclusive, StoreExclusive, StoreFails, Gain,
       Lose, Retained, Released, StartDealloc, shared, weak, client, local,
       TypeOK, IsaWord, SideWord, IsaInv, LockInv, OldInv, SideLabel, ToRaw,
       LockedLabel, NewIsa, RawIsa
<1>0. /\ TypeOK /\ LockInv /\ OldInv /\ IsaInv /\ UseInv /\ DyingInv /\ WeakInv
      /\ CountInv
    BY DEF IInv
<1>1. ASSUME CallRetain(t) PROVE IsaInv'
    BY <1>1, <1>0 DEF CallRetain
<1>2. ASSUME CallRelease(t) PROVE IsaInv'
    BY <1>2, <1>0 DEF CallRelease
<1>3. ASSUME CallLoadWeak(t) PROVE IsaInv'
    BY <1>3, <1>0 DEF CallLoadWeak
<1>4. ASSUME NEW c \in Class, CallChangeIsa(t, c) PROVE IsaInv'
    BY <1>4, <1>0 DEF CallChangeIsa
<1>5. ASSUME NEW v \in Value, NEW crash \in BOOLEAN,
            CallStoreWeak(t, v, crash) PROVE IsaInv'
    BY <1>5, <1>0 DEF CallStoreWeak
<1>6. ASSUME NEW u \in Thread, Pass(t, u) PROVE IsaInv'
    BY <1>6, <1>0 DEF Pass
<1>7. ASSUME RetainLoad(t) PROVE IsaInv'
    BY <1>7, <1>0 DEF RetainLoad
<1>8. ASSUME RetainLock(t) PROVE IsaInv'
    BY <1>8, <1>0 DEF RetainLock
<1>9. ASSUME RetainStore(t) PROVE IsaInv'
  <2>1. CASE isa' = isa /\ pc' = [pc EXCEPT ![t] = "rt_load"]
    BY <1>9, <1>0, <2>1 DEF RetainStore, Carried
  <2>2. CASE old[t].extra_rc < RC_MAX /\ isa = old[t] /\ isa' = [old[t] EXCEPT !.extra_rc = @ + 1]
    BY <1>9, <1>0, <2>2 DEF RetainStore, Carried
  <2>3. CASE old[t].extra_rc = RC_MAX /\ isa = old[t] /\ lock = t
            /\ isa' = [old[t] EXCEPT !.extra_rc = RC_HALF, !.has_sidetable_rc = TRUE]
    BY <1>9, <1>0, <2>3 DEF RetainStore, Carried
  <2> QED BY <1>9, <1>0, <2>1, <2>2, <2>3 DEF RetainStore, Carried
<1>10. ASSUME RetainAdd(t) PROVE IsaInv'
  <2>1. isa.nonpointer /\ side.rc \in Nat /\ Multiple(side.rc)
    BY <1>10, <1>0 DEF RetainAdd
  <2>2. Multiple(side.rc + RC_HALF)
    BY <2>1, Halves
  <2> QED BY <1>10, <1>0, <2>1, <2>2 DEF RetainAdd
<1>11. ASSUME SidetableRetain(t) PROVE IsaInv'
    BY <1>11, <1>0 DEF SidetableRetain
<1>12. ASSUME SidetableTryRetain(t) PROVE IsaInv'
    BY <1>12, <1>0 DEF SidetableTryRetain
<1>13. ASSUME ReleaseLoad(t) PROVE IsaInv'
    BY <1>13, <1>0 DEF ReleaseLoad
<1>14. ASSUME ReleaseStore(t) PROVE IsaInv'
  <2>1. CASE isa' = isa
    BY <1>14, <1>0, <2>1 DEF ReleaseStore
  <2>2. CASE isa = old[t] /\ isa' = [old[t] EXCEPT !.extra_rc = @ - 1]
    BY <1>14, <1>0, <2>2 DEF ReleaseStore
  <2> QED BY <1>14, <1>0, <2>1, <2>2 DEF ReleaseStore
<1>15. ASSUME ReleaseLock(t) PROVE IsaInv'
    BY <1>15, <1>0 DEF ReleaseLock
<1>16. ASSUME ReleaseBorrow(t) PROVE IsaInv'
  <2>1. isa.nonpointer /\ side.rc \in Nat /\ Multiple(side.rc)
    BY <1>16, <1>0 DEF ReleaseBorrow
  <2>2. side.rc # 0 => Multiple(side.rc - RC_HALF)
    BY <2>1, Halves
  <2> QED BY <1>16, <1>0, <2>1, <2>2 DEF ReleaseBorrow
<1>17. ASSUME ReleaseBorrowStore(t) PROVE IsaInv'
  <2>1. CASE isa' = isa /\ pc' = [pc EXCEPT ![t] = "rl_bload"]
    BY <1>17, <1>0, <2>1 DEF ReleaseBorrowStore
  <2>2. CASE isa = old[t] /\ isa' = [old[t] EXCEPT !.extra_rc = RC_HALF - 1]
             /\ pc' = [pc EXCEPT ![t] = Home(t)]
    BY <1>17, <1>0, <2>2 DEF ReleaseBorrowStore
  <2> QED BY <1>17, <1>0, <2>1, <2>2 DEF ReleaseBorrowStore
<1>18. ASSUME ReleaseBorrowLoad(t) PROVE IsaInv'
    BY <1>18, <1>0 DEF ReleaseBorrowLoad
<1>19. ASSUME ReleaseBorrowStore2(t) PROVE IsaInv'
    BY <1>19, <1>0 DEF ReleaseBorrowStore2
<1>20. ASSUME ReleasePutBack(t) PROVE IsaInv'
  <2>1. isa.nonpointer /\ side.rc \in Nat /\ Multiple(side.rc)
    BY <1>20, <1>0 DEF ReleasePutBack
  <2>2. Multiple(side.rc + RC_HALF)
    BY <2>1, Halves
  <2> QED BY <1>20, <1>0, <2>1, <2>2 DEF ReleasePutBack
<1>21. ASSUME ReleaseDealloc(t) PROVE IsaInv'
    BY <1>21, <1>0 DEF ReleaseDealloc
<1>22. ASSUME SidetableRelease(t) PROVE IsaInv'
    BY <1>22, <1>0 DEF SidetableRelease
<1>23. ASSUME ChangeIsaLoad(t) PROVE IsaInv'
    BY <1>23, <1>0 DEF ChangeIsaLoad
<1>24. ASSUME ChangeIsaLock(t) PROVE IsaInv'
    BY <1>24, <1>0 DEF ChangeIsaLock
<1>25. ASSUME ChangeIsaStore(t) PROVE IsaInv'
    BY <1>25, <1>0 DEF ChangeIsaStore
<1>26. ASSUME ChangeIsaMove(t) PROVE IsaInv'
    BY <1>26, <1>0 DEF ChangeIsaMove
<1>27. ASSUME LoadWeakRead(t) PROVE IsaInv'
    BY <1>27, <1>0 DEF LoadWeakRead
<1>28. ASSUME LoadWeakLock(t) PROVE IsaInv'
    BY <1>28, <1>0 DEF LoadWeakLock
<1>29. ASSUME StoreWeakRead(t) PROVE IsaInv'
    BY <1>29, <1>0 DEF StoreWeakRead
<1>30. ASSUME StoreWeakLock(t) PROVE IsaInv'
    BY <1>30, <1>0 DEF StoreWeakLock
<1>31. ASSUME StoreWeakLoad(t) PROVE IsaInv'
    BY <1>31, <1>0 DEF StoreWeakLoad
<1>32. ASSUME StoreWeakStore(t) PROVE IsaInv'
    BY <1>32, <1>0 DEF StoreWeakStore
<1>33. ASSUME StoreWeakSet(t) PROVE IsaInv'
    BY <1>33, <1>0 DEF StoreWeakSet
<1>34. ASSUME RootDealloc(t) PROVE IsaInv'
    BY <1>34, <1>0 DEF RootDealloc
<1>35. ASSUME ClearDeallocating(t) PROVE IsaInv'
  <2>1. Multiple(0)
    BY DEF Multiple
  <2>2. \A u \in Thread : pc[u] # "ci_move" /\ pc[u] \notin SideLabel
    BY <1>35, <1>0 DEF ClearDeallocating, LockedLabel
  <2> QED BY <1>35, <1>0, <2>1, <2>2 DEF ClearDeallocating, NoEntry
<1>36. ASSUME Free(t) PROVE IsaInv'
    BY <1>36, <1>0 DEF Free
<1> HIDE DEF IsaInv, TypeOK
<1> QED
    BY <1>1, <1>2, <1>3, <1>4, <1>5, <1>6, <1>7, <1>8, <1>9, <1>10, <1>11,
         <1>12, <1>13, <1>14, <1>15, <1>16, <1>17, <1>18, <1>19,
         <1>20, <1>21, <1>22, <1>23, <1>24, <1>25, <1>26, <1>27,
         <1>28, <1>29, <1>30, <1>31, <1>32, <1>33, <1>34, <1>35, <1>36
       DEF Step, ClientStep, RuntimeStep

\* Every step leaves each thread where it has the right to be.
LEMMA UseStep ==
    ASSUME IInv, TypeOK', NEW t \in Thread, Step(t)
    PROVE  UseInv'
<1> USE DEF Call, CallWith, Goto, Home, AtHome, CanUse, Return, Forget, Lock,
       Unlock, UnlockIfLocked, LoadExclusive, StoreExclusive, StoreFails, Gain,
       Lose, Retained, Released, StartDealloc, shared, weak, client, local,
       TypeOK, IsaWord, SideWord, UseInv, Dying, RetainLabel, ReleaseLabel,
       ChangeIsaLabel, StoreWeakLabel, NoArg
<1>0. /\ TypeOK /\ LockInv /\ OldInv /\ IsaInv /\ UseInv /\ DyingInv /\ WeakInv
      /\ CountInv
    BY DEF IInv
<1>1. ASSUME CallRetain(t) PROVE UseInv'
    BY <1>1, <1>0 DEF CallRetain
<1>2. ASSUME CallRelease(t) PROVE UseInv'
    BY <1>2, <1>0 DEF CallRelease
<1>3. ASSUME CallLoadWeak(t) PROVE UseInv'
    BY <1>3, <1>0 DEF CallLoadWeak
<1>4. ASSUME NEW c \in Class, CallChangeIsa(t, c) PROVE UseInv'
    BY <1>4, <1>0 DEF CallChangeIsa
<1>5. ASSUME NEW v \in Value, NEW crash \in BOOLEAN,
            CallStoreWeak(t, v, crash) PROVE UseInv'
    BY <1>5, <1>0 DEF CallStoreWeak
<1>6. ASSUME NEW u \in Thread, Pass(t, u) PROVE UseInv'
    BY <1>6, <1>0 DEF Pass
<1>7. ASSUME RetainLoad(t) PROVE UseInv'
    BY <1>7, <1>0 DEF RetainLoad
<1>8. ASSUME RetainLock(t) PROVE UseInv'
    BY <1>8, <1>0 DEF RetainLock
<1>9. ASSUME RetainStore(t) PROVE UseInv'
    BY <1>9, <1>0 DEF RetainStore, Carried
<1>10. ASSUME RetainAdd(t) PROVE UseInv'
    BY <1>10, <1>0 DEF RetainAdd
<1>11. ASSUME SidetableRetain(t) PROVE UseInv'
    BY <1>11, <1>0 DEF SidetableRetain
<1>12. ASSUME SidetableTryRetain(t) PROVE UseInv'
    BY <1>12, <1>0 DEF SidetableTryRetain
<1>13. ASSUME ReleaseLoad(t) PROVE UseInv'
    BY <1>13, <1>0 DEF ReleaseLoad
<1>14. ASSUME ReleaseStore(t) PROVE UseInv'
    BY <1>14, <1>0 DEF ReleaseStore
<1>15. ASSUME ReleaseLock(t) PROVE UseInv'
    BY <1>15, <1>0 DEF ReleaseLock
<1>16. ASSUME ReleaseBorrow(t) PROVE UseInv'
    BY <1>16, <1>0 DEF ReleaseBorrow
<1>17. ASSUME ReleaseBorrowStore(t) PROVE UseInv'
    BY <1>17, <1>0 DEF ReleaseBorrowStore
<1>18. ASSUME ReleaseBorrowLoad(t) PROVE UseInv'
    BY <1>18, <1>0 DEF ReleaseBorrowLoad
<1>19. ASSUME ReleaseBorrowStore2(t) PROVE UseInv'
    BY <1>19, <1>0 DEF ReleaseBorrowStore2
<1>20. ASSUME ReleasePutBack(t) PROVE UseInv'
    BY <1>20, <1>0 DEF ReleasePutBack
<1>21. ASSUME ReleaseDealloc(t) PROVE UseInv'
  <2>1. CASE pc'[t] = "rl_load"
    BY <1>21, <1>0, <2>1 DEF ReleaseDealloc
  <2>2. CASE pc'[t] # "rl_load"
    <3>1. /\ pc' = [pc EXCEPT ![t] = "dealloc"] /\ deallocator' = t
          /\ held' = [held EXCEPT ![t] = @ - 1]
      BY <1>21, <1>0, <2>2 DEF ReleaseDealloc, OldInv
    <3>2. ~Dying /\ held[t] = 1 /\ \A u \in Thread \ {t} : held[u] = 0
      BY <1>21, <1>0, <2>2, LastReference
    <3> QED BY <1>21, <1>0, <3>1, <3>2 DEF ReleaseDealloc
  <2> QED BY <2>1, <2>2
<1>22. ASSUME SidetableRelease(t) PROVE UseInv'
  <2>1. CASE side.rc > 0
    BY <1>22, <1>0, <2>1 DEF SidetableRelease
  <2>2. CASE side.rc = 0
    <3>1. ~Dying /\ ~side.deallocating /\ held[t] = 1
          /\ \A u \in Thread \ {t} : held[u] = 0
      BY <1>22, <1>0, <2>2, LastReferenceRaw
    <3> QED BY <1>22, <1>0, <2>2, <3>1 DEF SidetableRelease
  <2> QED BY <1>0, <2>1, <2>2
<1>23. ASSUME ChangeIsaLoad(t) PROVE UseInv'
    BY <1>23, <1>0 DEF ChangeIsaLoad
<1>24. ASSUME ChangeIsaLock(t) PROVE UseInv'
    BY <1>24, <1>0 DEF ChangeIsaLock
<1>25. ASSUME ChangeIsaStore(t) PROVE UseInv'
    BY <1>25, <1>0 DEF ChangeIsaStore
<1>26. ASSUME ChangeIsaMove(t) PROVE UseInv'
    BY <1>26, <1>0 DEF ChangeIsaMove
<1>27. ASSUME LoadWeakRead(t) PROVE UseInv'
    BY <1>27, <1>0 DEF LoadWeakRead
<1>28. ASSUME LoadWeakLock(t) PROVE UseInv'
    BY <1>28, <1>0 DEF LoadWeakLock
<1>29. ASSUME StoreWeakRead(t) PROVE UseInv'
    BY <1>29, <1>0 DEF StoreWeakRead
<1>30. ASSUME StoreWeakLock(t) PROVE UseInv'
  <2>1. lock = NoThread /\ pc[t] = "sw_lock"
    BY <1>30 DEF StoreWeakLock
  <2>2. IsDeallocating => Dying
    BY <1>0, <2>1 DEF IsDeallocating, DyingInv, LockInv, LockedLabel, Dying, Gone
  <2>3. arg[t].new = "obj" /\ IsDeallocating => ~arg[t].crash
    BY <1>0, <2>1, <2>2 DEF DyingInv, Dying, StoreWeakLabel
  <2> QED BY <1>30, <1>0, <2>3 DEF StoreWeakLock, Arg
<1>31. ASSUME StoreWeakLoad(t) PROVE UseInv'
    BY <1>31, <1>0 DEF StoreWeakLoad
<1>32. ASSUME StoreWeakStore(t) PROVE UseInv'
    BY <1>32, <1>0 DEF StoreWeakStore
<1>33. ASSUME StoreWeakSet(t) PROVE UseInv'
    BY <1>33, <1>0 DEF StoreWeakSet
<1>34. ASSUME RootDealloc(t) PROVE UseInv'
    BY <1>34, <1>0 DEF RootDealloc
<1>35. ASSUME ClearDeallocating(t) PROVE UseInv'
    BY <1>35, <1>0 DEF ClearDeallocating
<1>36. ASSUME Free(t) PROVE UseInv'
    BY <1>36, <1>0 DEF Free
<1> HIDE DEF UseInv, TypeOK
<1> QED
    BY <1>1, <1>2, <1>3, <1>4, <1>5, <1>6, <1>7, <1>8, <1>9, <1>10, <1>11,
         <1>12, <1>13, <1>14, <1>15, <1>16, <1>17, <1>18, <1>19,
         <1>20, <1>21, <1>22, <1>23, <1>24, <1>25, <1>26, <1>27,
         <1>28, <1>29, <1>30, <1>31, <1>32, <1>33, <1>34, <1>35, <1>36
       DEF Step, ClientStep, RuntimeStep

\* Every step keeps the deallocating bit right.
LEMMA DyingStep ==
    ASSUME IInv, TypeOK', NEW t \in Thread, Step(t)
    PROVE  DyingInv'
<1> USE DEF Call, CallWith, Goto, Home, AtHome, CanUse, Return, Forget, Lock,
       Unlock, UnlockIfLocked, LoadExclusive, StoreExclusive, StoreFails, Gain,
       Lose, Retained, Released, StartDealloc, shared, weak, client, local,
       TypeOK, IsaWord, SideWord, DyingInv, LockInv, UseInv, IsaInv, OldInv,
       WeakInv, Dying, Gone, Marked, RetainLabel, ReleaseLabel, ChangeIsaLabel,
       SideLabel, LockedLabel, UnlockedLabel, NewIsa, RawIsa, NoEntry, WeakClear
<1>0. /\ TypeOK /\ LockInv /\ OldInv /\ IsaInv /\ UseInv /\ DyingInv /\ WeakInv
      /\ CountInv
    BY DEF IInv
<1>1. ASSUME CallRetain(t) PROVE DyingInv'
    BY <1>1, <1>0 DEF CallRetain
<1>2. ASSUME CallRelease(t) PROVE DyingInv'
    BY <1>2, <1>0 DEF CallRelease
<1>3. ASSUME CallLoadWeak(t) PROVE DyingInv'
    BY <1>3, <1>0 DEF CallLoadWeak
<1>4. ASSUME NEW c \in Class, CallChangeIsa(t, c) PROVE DyingInv'
    BY <1>4, <1>0 DEF CallChangeIsa
<1>5. ASSUME NEW v \in Value, NEW crash \in BOOLEAN,
            CallStoreWeak(t, v, crash) PROVE DyingInv'
    BY <1>5, <1>0 DEF CallStoreWeak
<1>6. ASSUME NEW u \in Thread, Pass(t, u) PROVE DyingInv'
    BY <1>6, <1>0 DEF Pass
<1>7. ASSUME RetainLoad(t) PROVE DyingInv'
  <2>1. /\ isa' = isa /\ side' = side /\ held' = held
        /\ deallocator' = deallocator /\ freed' = freed
    BY <1>7 DEF RetainLoad
  <2>2. /\ \A u \in Thread \ {t} : pc'[u] = pc[u] /\ arg'[u] = arg[u] /\ old'[u] = old[u]
        /\ pc[t] = "rt_load" /\ pc'[t] \notin {"ci_move", "dl_free", "sw_load", "sw_store", "sw_set"}
    BY <1>7, <1>0, SMTT(30) DEF RetainLoad
  <2>3. Dying' = Dying /\ Gone' = Gone
    BY <2>1, <2>2, SMTT(30)
  <2>4. DyingInv
    BY <1>0
  <2> HIDE DEF Dying, Gone
  <2> QED BY <2>1, <2>2, <2>3, <2>4, SMTT(30) DEF DyingInv
<1>8. ASSUME RetainLock(t) PROVE DyingInv'
    BY <1>8, <1>0 DEF RetainLock
<1>9. ASSUME RetainStore(t) PROVE DyingInv'
  <2>1. CASE isa' = isa /\ pc' = [pc EXCEPT ![t] = "rt_load"] /\ held' = held
    BY <1>9, <1>0, <2>1 DEF RetainStore, Carried
  <2>2. CASE isa = old[t] /\ held' = [held EXCEPT ![t] = @ + 1]
    <3>1. Dying => deallocator = t
      BY <1>9, <1>0, <2>2 DEF RetainStore, Carried, OldInv, UseInv, RetainLabel
    <3>2. isa'.nonpointer /\ isa.nonpointer /\ isa'.deallocating = isa.deallocating
      BY <1>9, <1>0, <2>2, CountStores DEF RetainStore, Carried
    <3> QED BY <1>9, <1>0, <2>2, <3>1, <3>2 DEF RetainStore, Carried
  <2> QED BY <1>9, <1>0, <2>1, <2>2 DEF RetainStore, Carried
<1>10. ASSUME RetainAdd(t) PROVE DyingInv'
    BY <1>10, <1>0 DEF RetainAdd
<1>11. ASSUME SidetableRetain(t) PROVE DyingInv'
    BY <1>11, <1>0 DEF SidetableRetain
<1>12. ASSUME SidetableTryRetain(t) PROVE DyingInv'
  <2>1. lock = t /\ try[t] /\ ~isa.nonpointer /\ ~Gone
    BY <1>12, <1>0 DEF SidetableTryRetain, WeakInv, IsaInv
  <2>2. ~side.deallocating => ~Dying
    BY <1>12, <1>0, <2>1 DEF SidetableTryRetain
  <2> QED BY <1>12, <1>0, <2>1, <2>2 DEF SidetableTryRetain
<1>13. ASSUME ReleaseLoad(t) PROVE DyingInv'
    BY <1>13, <1>0 DEF ReleaseLoad
<1>14. ASSUME ReleaseStore(t) PROVE DyingInv'
    BY <1>14, <1>0 DEF ReleaseStore
<1>15. ASSUME ReleaseLock(t) PROVE DyingInv'
    BY <1>15, <1>0 DEF ReleaseLock
<1>16. ASSUME ReleaseBorrow(t) PROVE DyingInv'
    BY <1>16, <1>0 DEF ReleaseBorrow
<1>17. ASSUME ReleaseBorrowStore(t) PROVE DyingInv'
  <2>1. /\ isa'.nonpointer = isa.nonpointer /\ isa'.deallocating = isa.deallocating
        /\ side' = side /\ deallocator' = deallocator /\ freed' = freed
    BY <1>17, <1>0, CountStores
  <2> QED BY <1>17, <1>0, <2>1, SMTT(20) DEF ReleaseBorrowStore
<1>18. ASSUME ReleaseBorrowLoad(t) PROVE DyingInv'
    BY <1>18, <1>0 DEF ReleaseBorrowLoad
<1>19. ASSUME ReleaseBorrowStore2(t) PROVE DyingInv'
  <2>1. /\ isa'.nonpointer = isa.nonpointer /\ isa'.deallocating = isa.deallocating
        /\ side' = side /\ deallocator' = deallocator /\ freed' = freed
    BY <1>19, <1>0, CountStores
  <2> QED BY <1>19, <1>0, <2>1, SMTT(20) DEF ReleaseBorrowStore2
<1>20. ASSUME ReleasePutBack(t) PROVE DyingInv'
    BY <1>20, <1>0 DEF ReleasePutBack
<1>21. ASSUME ReleaseDealloc(t) PROVE DyingInv'
  <2>1. CASE pc'[t] = "rl_load"
    BY <1>21, <1>0, <2>1 DEF ReleaseDealloc
  <2>2. CASE pc'[t] # "rl_load"
    <3>1. /\ pc' = [pc EXCEPT ![t] = "dealloc"] /\ deallocator' = t
          /\ isa'.nonpointer /\ isa'.deallocating /\ isa.nonpointer
          /\ held' = [held EXCEPT ![t] = @ - 1]
      BY <1>21, <1>0, <2>2 DEF ReleaseDealloc, OldInv
    <3>2. ~Dying /\ held[t] = 1 /\ \A u \in Thread \ {t} : held[u] = 0
      BY <1>21, <2>2, LastReference
    <3>3. \A u \in Thread : pc[u] # "ci_move"
      BY <1>0, <3>1 DEF IsaInv
    <3>4. \A u \in Thread :
              pc[u] \in {"sw_load", "sw_store", "sw_set"} => arg[u].new # "obj"
      BY <1>21, <1>0, <3>2, SMTT(30) DEF ReleaseDealloc, StoreWeakLabel
    <3> QED BY <1>21, <1>0, <3>1, <3>2, <3>3, <3>4, SMTT(20) DEF ReleaseDealloc
  <2> QED BY <2>1, <2>2
<1>22. ASSUME SidetableRelease(t) PROVE DyingInv'
  <2>1. CASE side.rc > 0
    BY <1>22, <1>0, <2>1 DEF SidetableRelease
  <2>2. CASE side.rc = 0
    <3>1. ~Dying /\ ~side.deallocating /\ held[t] = 1
          /\ \A u \in Thread \ {t} : held[u] = 0
      BY <1>22, <2>2, LastReferenceRaw
    <3>2. /\ pc' = [pc EXCEPT ![t] = "dealloc"] /\ deallocator' = t
          /\ side'.deallocating /\ ~isa.nonpointer /\ isa' = isa
          /\ held' = [held EXCEPT ![t] = @ - 1]
      BY <1>22, <1>0, <2>2, <3>1 DEF SidetableRelease, IsaInv
    <3>3. \A u \in Thread : pc[u] # "ci_move"
      BY <1>22, <1>0 DEF SidetableRelease, LockInv, LockedLabel
    <3> QED BY <1>22, <1>0, <3>1, <3>2, <3>3 DEF SidetableRelease
  <2> QED BY <1>0, <2>1, <2>2
<1>23. ASSUME ChangeIsaLoad(t) PROVE DyingInv'
    BY <1>23, <1>0 DEF ChangeIsaLoad
<1>24. ASSUME ChangeIsaLock(t) PROVE DyingInv'
    BY <1>24, <1>0 DEF ChangeIsaLock
<1>25. ASSUME ChangeIsaStore(t) PROVE DyingInv'
  <2>1. /\ pc[t] = "ci_store" /\ isa \in IsaWord /\ old[t] \in IsaWord
        /\ pc' \in [Thread -> Label] /\ side' = side /\ held' = held
        /\ deallocator' = deallocator /\ freed' = freed
    BY <1>25, <1>0 DEF ChangeIsaStore
  <2>2. /\ \A u \in Thread \ {t} : pc'[u] = pc[u] /\ arg'[u] = arg[u] /\ old'[u] = old[u]
        /\ pc'[t] \in {"idle", "dealloc", "ci_move", "ci_load"}
    BY <1>25, <1>0, SMTT(15) DEF ChangeIsaStore
  <2>3. \/ /\ pc'[t] # "ci_move" /\ isa'.nonpointer = isa.nonpointer
           /\ isa'.deallocating = isa.deallocating
        \/ /\ pc'[t] = "ci_move" /\ old'[t] = isa
           /\ isa.nonpointer /\ ~isa'.nonpointer
    <3>1. CASE StoreFails(t) /\ pc'[t] = "ci_load"
      BY <3>1
    <3>2. CASE isa = old[t] /\ isa' = [old[t] EXCEPT !.cls = arg[t].cls] /\ pc'[t] # "ci_move"
      BY <2>1, <3>2
    <3>3. CASE old[t].nonpointer /\ isa = old[t] /\ pc'[t] = "ci_move"
               /\ isa' = RawIsa(arg[t].cls) /\ old' = old
      BY <3>3 DEF RawIsa, NewIsa
    <3>4. CASE ~old[t].nonpointer /\ isa = old[t] /\ isa' = RawIsa(arg[t].cls)
               /\ pc'[t] # "ci_move"
      BY <1>0, <2>1, <3>4 DEF RawIsa, NewIsa
    <3> QED BY <1>25, <1>0, <3>1, <3>2, <3>3, <3>4 DEF ChangeIsaStore
  <2>4. Dying' = Dying /\ Gone' = Gone
    BY <2>1, <2>2, SMTT(30)
  <2>5. DyingInv
    BY <1>0
  <2>6. \A u \in Thread : pc'[u] \in {"sw_load", "sw_store", "sw_set"} =>
            pc'[u] = pc[u] /\ arg'[u] = arg[u]
    BY <2>2
  <2>7. \A u \in Thread : pc[u] = "ci_move" => ~isa.nonpointer
    BY <1>0
  <2> HIDE DEF Dying, Gone, RawIsa, NewIsa
  <2>a. freed' => deallocator' = NoThread
    BY <2>1, <2>2, <2>3, <2>4, <2>5, <2>6, <2>7 DEF DyingInv
  <2>b. isa'.nonpointer => (isa'.deallocating <=> Dying')
    BY <2>1, <2>2, <2>3, <2>4, <2>5, <2>6, <2>7 DEF DyingInv
  <2>c. \A u \in Thread : pc'[u] = "ci_move" => (old'[u].deallocating <=> Dying')
    BY <2>1, <2>2, <2>3, <2>4, <2>5, <2>6, <2>7 DEF DyingInv
  <2>d. ~isa'.nonpointer /\ ~Gone' /\ (\A u \in Thread : pc'[u] # "ci_move") =>
            (side'.deallocating <=> Dying')
    BY <2>1, <2>2, <2>3, <2>4, <2>5, <2>6, <2>7 DEF DyingInv
  <2>e. Dying' => \A u \in Thread \ {deallocator'} : held'[u] = 0
    BY <2>1, <2>2, <2>3, <2>4, <2>5, <2>6, <2>7 DEF DyingInv
  <2>f. \A u \in Thread :
            pc'[u] \in {"sw_load", "sw_store", "sw_set"} /\ arg'[u].new = "obj" => ~Dying'
    BY <2>1, <2>2, <2>3, <2>4, <2>5, <2>6, <2>7 DEF DyingInv
  <2> QED BY <2>a, <2>b, <2>c, <2>d, <2>e, <2>f DEF DyingInv
<1>26. ASSUME ChangeIsaMove(t) PROVE DyingInv'
    BY <1>26, <1>0 DEF ChangeIsaMove
<1>27. ASSUME LoadWeakRead(t) PROVE DyingInv'
    BY <1>27, <1>0 DEF LoadWeakRead
<1>28. ASSUME LoadWeakLock(t) PROVE DyingInv'
    BY <1>28, <1>0 DEF LoadWeakLock
<1>29. ASSUME StoreWeakRead(t) PROVE DyingInv'
    BY <1>29, <1>0 DEF StoreWeakRead
<1>30. ASSUME StoreWeakLock(t) PROVE DyingInv'
  <2>1. lock = NoThread /\ pc[t] = "sw_lock"
    BY <1>30 DEF StoreWeakLock
  <2>2. arg[t].new = "obj" => ~Gone
    <3>1. arg[t].new = "obj" => held[t] > 0 \/ deallocator = t
      BY <1>0, <2>1 DEF StoreWeakLabel
    <3> QED BY <2>1, <3>1, UserKeepsAlive
  <2>3. arg[t].new = "obj" => (IsDeallocating <=> Dying)
    BY <1>0, <2>1, <2>2 DEF IsDeallocating
  <2>4. /\ isa' = isa /\ side' = side /\ deallocator' = deallocator
        /\ freed' = freed /\ held' = held /\ old' = old
        /\ \A u \in Thread \ {t} : pc'[u] = pc[u] /\ arg'[u] = arg[u]
        /\ pc'[t] \in {"sw_read", "sw_set", "sw_load", "fatal"}
    BY <1>30, <1>0 DEF StoreWeakLock
  <2>5. pc'[t] \in {"sw_set", "sw_load"} /\ arg'[t].new = "obj" => ~IsDeallocating
    <3> HIDE DEF IsDeallocating
    <3> QED BY <1>30, <1>0, SMTT(20) DEF StoreWeakLock, Arg
  <2>6. pc'[t] \in {"sw_set", "sw_load"} /\ arg'[t].new = "obj" =>
            arg[t].new = "obj"
    BY <1>30, <1>0, SMTT(20) DEF StoreWeakLock, Arg
  <2>7. Dying' = Dying /\ Gone' = Gone
    BY <2>1, <2>4
  <2>8. DyingInv
    BY <1>0
  <2> HIDE DEF Dying, Gone, IsDeallocating
  <2>a. freed' => deallocator' = NoThread
    BY <2>1, <2>3, <2>4, <2>5, <2>6, <2>7, <2>8 DEF DyingInv
  <2>b. isa'.nonpointer => (isa'.deallocating <=> Dying')
    BY <2>1, <2>3, <2>4, <2>5, <2>6, <2>7, <2>8 DEF DyingInv
  <2>c. \A u \in Thread : pc'[u] = "ci_move" => (old'[u].deallocating <=> Dying')
    BY <2>1, <2>3, <2>4, <2>5, <2>6, <2>7, <2>8 DEF DyingInv
  <2>d. ~isa'.nonpointer /\ ~Gone' /\ (\A u \in Thread : pc'[u] # "ci_move") =>
            (side'.deallocating <=> Dying')
    BY <2>1, <2>3, <2>4, <2>5, <2>6, <2>7, <2>8 DEF DyingInv
  <2>e. Dying' => \A u \in Thread \ {deallocator'} : held'[u] = 0
    BY <2>1, <2>3, <2>4, <2>5, <2>6, <2>7, <2>8 DEF DyingInv
  <2>f. \A u \in Thread :
            pc'[u] \in {"sw_load", "sw_store", "sw_set"} /\ arg'[u].new = "obj" => ~Dying'
    BY <2>1, <2>3, <2>4, <2>5, <2>6, <2>7, <2>8 DEF DyingInv
  <2> QED BY <2>a, <2>b, <2>c, <2>d, <2>e, <2>f DEF DyingInv
<1>31. ASSUME StoreWeakLoad(t) PROVE DyingInv'
  <2>1. side'.deallocating = side.deallocating
    BY <1>31, <1>0 DEF StoreWeakLoad
  <2> QED BY <1>31, <1>0, <2>1 DEF StoreWeakLoad
<1>32. ASSUME StoreWeakStore(t) PROVE DyingInv'
    BY <1>32, <1>0 DEF StoreWeakStore
<1>33. ASSUME StoreWeakSet(t) PROVE DyingInv'
    BY <1>33, <1>0 DEF StoreWeakSet
<1>34. ASSUME RootDealloc(t) PROVE DyingInv'
    BY <1>34, <1>0 DEF RootDealloc
<1>35. ASSUME ClearDeallocating(t) PROVE DyingInv'
    BY <1>35, <1>0 DEF ClearDeallocating
<1>36. ASSUME Free(t) PROVE DyingInv'
    BY <1>36, <1>0 DEF Free
<1> HIDE DEF DyingInv, TypeOK
<1> QED
    BY <1>1, <1>2, <1>3, <1>4, <1>5, <1>6, <1>7, <1>8, <1>9, <1>10, <1>11,
         <1>12, <1>13, <1>14, <1>15, <1>16, <1>17, <1>18, <1>19,
         <1>20, <1>21, <1>22, <1>23, <1>24, <1>25, <1>26, <1>27,
         <1>28, <1>29, <1>30, <1>31, <1>32, <1>33, <1>34, <1>35, <1>36
       DEF Step, ClientStep, RuntimeStep

\* Where the clauses of WeakInv look.
WeakLabel == {"sw_load", "sw_store", "sw_set", "ci_move", "dl_free"}

\* A step that leaves the mark and the weak table alone, taken outside a weak
\* store, a changeIsa in its second half and the end of -dealloc.
LEMMA WeakFrame ==
    ASSUME WeakInv, NEW t \in Thread,
           isa'.weakly_referenced = isa.weakly_referenced,
           side'.weakly_referenced = side.weakly_referenced,
           side' = side \/ ~Gone,
           entry' = entry, location' = location, freed' = freed,
           \A u \in Thread \ {t} : /\ pc'[u] = pc[u] /\ try'[u] = try[u]
                                   /\ arg'[u] = arg[u] /\ old'[u] = old[u],
           pc[t] \notin WeakLabel, pc'[t] \notin WeakLabel, try'[t] => try[t]
    PROVE  WeakInv'
<1>1. Marked' <=> Marked
    BY DEF Marked, WeakLabel
<1>2. Gone' <=> Gone
    BY DEF Gone, WeakLabel
<1> QED BY <1>1, <1>2 DEF WeakInv, WeakLabel

\* Every step keeps the weak variable, its entry and the mark in agreement.
LEMMA WeakStep ==
    ASSUME IInv, TypeOK', NEW t \in Thread, Step(t)
    PROVE  WeakInv'
<1> USE DEF Call, CallWith, Goto, Home, AtHome, CanUse, Return, Forget, Lock,
       Unlock, UnlockIfLocked, LoadExclusive, StoreExclusive, StoreFails, Gain,
       Lose, Retained, Released, StartDealloc, shared, weak, client, local,
       TypeOK, IsaWord, SideWord, WeakInv, LockInv, UseInv, IsaInv, OldInv,
       DyingInv, Dying, Gone, Marked, StoreWeakLabel, LockedLabel, UnlockedLabel,
       ReleaseLabel, ChangeIsaLabel, SideLabel, NewIsa, RawIsa, NoEntry, WeakClear,
       IsDeallocating, Value, Arg, NoArg
<1>0. /\ TypeOK /\ LockInv /\ OldInv /\ IsaInv /\ UseInv /\ DyingInv /\ WeakInv
      /\ CountInv
    BY DEF IInv
<1>1. ASSUME CallRetain(t) PROVE WeakInv'
    BY <1>1, <1>0 DEF CallRetain
<1>2. ASSUME CallRelease(t) PROVE WeakInv'
    BY <1>2, <1>0 DEF CallRelease
<1>3. ASSUME CallLoadWeak(t) PROVE WeakInv'
    BY <1>3, <1>0 DEF CallLoadWeak
<1>4. ASSUME NEW c \in Class, CallChangeIsa(t, c) PROVE WeakInv'
    BY <1>4, <1>0 DEF CallChangeIsa
<1>5. ASSUME NEW v \in Value, NEW crash \in BOOLEAN,
            CallStoreWeak(t, v, crash) PROVE WeakInv'
    BY <1>5, <1>0 DEF CallStoreWeak
<1>6. ASSUME NEW u \in Thread, Pass(t, u) PROVE WeakInv'
    BY <1>6, <1>0 DEF Pass
<1>7. ASSUME RetainLoad(t) PROVE WeakInv'
  <2>1. isa'.weakly_referenced = isa.weakly_referenced
    BY <1>7, <1>0 DEF RetainLoad
  <2>2. side' = side /\ entry' = entry /\ location' = location /\ freed' = freed
    BY <1>7, <1>0 DEF RetainLoad
  <2>3. /\ \A u \in Thread \ {t} : /\ pc'[u] = pc[u] /\ try'[u] = try[u]
                                /\ arg'[u] = arg[u] /\ old'[u] = old[u]
        /\ pc[t] \notin WeakLabel /\ pc'[t] \notin WeakLabel /\ (try'[t] => try[t])
    BY <1>7, <1>0, SMTT(15) DEF RetainLoad, WeakLabel
  <2>4. WeakInv
    BY <1>0
  <2> HIDE DEF WeakInv, Gone, Marked, Dying
  <2> QED BY <2>1, <2>2, <2>3, <2>4, WeakFrame
<1>8. ASSUME RetainLock(t) PROVE WeakInv'
    BY <1>8, <1>0 DEF RetainLock
<1>9. ASSUME RetainStore(t) PROVE WeakInv'
  <2>1. isa'.weakly_referenced = isa.weakly_referenced
    BY <1>9, <1>0, CountStores DEF RetainStore, Carried
  <2>2. side' = side /\ entry' = entry /\ location' = location /\ freed' = freed
    BY <1>9, <1>0 DEF RetainStore, Carried
  <2>3. /\ \A u \in Thread \ {t} : /\ pc'[u] = pc[u] /\ try'[u] = try[u]
                                /\ arg'[u] = arg[u] /\ old'[u] = old[u]
        /\ pc[t] \notin WeakLabel /\ pc'[t] \notin WeakLabel /\ (try'[t] => try[t])
    BY <1>9, <1>0, SMTT(15) DEF RetainStore, Carried, WeakLabel
  <2>4. WeakInv
    BY <1>0
  <2> HIDE DEF WeakInv, Gone, Marked, Dying
  <2> QED BY <2>1, <2>2, <2>3, <2>4, WeakFrame
<1>10. ASSUME RetainAdd(t) PROVE WeakInv'
    BY <1>10, <1>0 DEF RetainAdd
<1>11. ASSUME SidetableRetain(t) PROVE WeakInv'
  <2>1. /\ isa' = isa /\ side'.weakly_referenced = side.weakly_referenced
        /\ entry' = entry /\ location' = location /\ freed' = freed
    BY <1>11, <1>0 DEF SidetableRetain
  <2>2. ~Gone
    <3>1. held[t] > 0 \/ deallocator = t
      BY <1>11, <1>0 DEF SidetableRetain, RetainLabel
    <3>2. pc[t] # "dl_free"
      BY <1>11 DEF SidetableRetain
    <3> QED BY <3>1, <3>2, UserKeepsAlive
  <2>3. /\ \A u \in Thread \ {t} : /\ pc'[u] = pc[u] /\ try'[u] = try[u]
                                /\ arg'[u] = arg[u] /\ old'[u] = old[u]
        /\ pc[t] \notin WeakLabel /\ pc'[t] \notin WeakLabel /\ (try'[t] => try[t])
    BY <1>11, <1>0, SMTT(15) DEF SidetableRetain, WeakLabel
  <2>4. WeakInv
    BY <1>0
  <2> HIDE DEF WeakInv, Gone, Marked, Dying
  <2> QED BY <2>1, <2>2, <2>3, <2>4, WeakFrame
<1>12. ASSUME SidetableTryRetain(t) PROVE WeakInv'
  <2>1. side'.weakly_referenced = side.weakly_referenced /\ ~Gone
    BY <1>12, <1>0 DEF SidetableTryRetain
  <2> QED BY <1>12, <1>0, <2>1 DEF SidetableTryRetain
<1>13. ASSUME ReleaseLoad(t) PROVE WeakInv'
    BY <1>13, <1>0 DEF ReleaseLoad
<1>14. ASSUME ReleaseStore(t) PROVE WeakInv'
  <2>1. isa'.weakly_referenced = isa.weakly_referenced
    BY <1>14, <1>0, CountStores DEF ReleaseStore
  <2>2. side' = side /\ entry' = entry /\ location' = location /\ freed' = freed
    BY <1>14, <1>0 DEF ReleaseStore
  <2>3. /\ \A u \in Thread \ {t} : /\ pc'[u] = pc[u] /\ try'[u] = try[u]
                                /\ arg'[u] = arg[u] /\ old'[u] = old[u]
        /\ pc[t] \notin WeakLabel /\ pc'[t] \notin WeakLabel /\ (try'[t] => try[t])
    BY <1>14, <1>0, SMTT(15) DEF ReleaseStore, WeakLabel
  <2>4. WeakInv
    BY <1>0
  <2> HIDE DEF WeakInv, Gone, Marked, Dying
  <2> QED BY <2>1, <2>2, <2>3, <2>4, WeakFrame
<1>15. ASSUME ReleaseLock(t) PROVE WeakInv'
    BY <1>15, <1>0 DEF ReleaseLock
<1>16. ASSUME ReleaseBorrow(t) PROVE WeakInv'
    BY <1>16, <1>0 DEF ReleaseBorrow
<1>17. ASSUME ReleaseBorrowStore(t) PROVE WeakInv'
  <2>1. isa'.weakly_referenced = isa.weakly_referenced
    BY <1>17, <1>0, CountStores DEF ReleaseBorrowStore
  <2>2. side' = side /\ entry' = entry /\ location' = location /\ freed' = freed
    BY <1>17, <1>0 DEF ReleaseBorrowStore
  <2>3. /\ \A u \in Thread \ {t} : /\ pc'[u] = pc[u] /\ try'[u] = try[u]
                                /\ arg'[u] = arg[u] /\ old'[u] = old[u]
        /\ pc[t] \notin WeakLabel /\ pc'[t] \notin WeakLabel /\ (try'[t] => try[t])
    BY <1>17, <1>0, SMTT(15) DEF ReleaseBorrowStore, WeakLabel
  <2>4. WeakInv
    BY <1>0
  <2> HIDE DEF WeakInv, Gone, Marked, Dying
  <2> QED BY <2>1, <2>2, <2>3, <2>4, WeakFrame
<1>18. ASSUME ReleaseBorrowLoad(t) PROVE WeakInv'
    BY <1>18, <1>0 DEF ReleaseBorrowLoad
<1>19. ASSUME ReleaseBorrowStore2(t) PROVE WeakInv'
  <2>1. isa'.weakly_referenced = isa.weakly_referenced
    BY <1>19, <1>0, CountStores DEF ReleaseBorrowStore2
  <2>2. side' = side /\ entry' = entry /\ location' = location /\ freed' = freed
    BY <1>19, <1>0 DEF ReleaseBorrowStore2
  <2>3. /\ \A u \in Thread \ {t} : /\ pc'[u] = pc[u] /\ try'[u] = try[u]
                                /\ arg'[u] = arg[u] /\ old'[u] = old[u]
        /\ pc[t] \notin WeakLabel /\ pc'[t] \notin WeakLabel /\ (try'[t] => try[t])
    BY <1>19, <1>0, SMTT(15) DEF ReleaseBorrowStore2, WeakLabel
  <2>4. WeakInv
    BY <1>0
  <2> HIDE DEF WeakInv, Gone, Marked, Dying
  <2> QED BY <2>1, <2>2, <2>3, <2>4, WeakFrame
<1>20. ASSUME ReleasePutBack(t) PROVE WeakInv'
    BY <1>20, <1>0, SMTT(60) DEF ReleasePutBack
<1>21. ASSUME ReleaseDealloc(t) PROVE WeakInv'
  <2>1. isa'.weakly_referenced = isa.weakly_referenced
    <3>1. CASE isa' = isa
      BY <3>1
    <3>2. CASE isa = old[t] /\ isa' = [old[t] EXCEPT !.deallocating = TRUE]
      BY <1>0, <3>2
    <3> QED BY <1>21, <3>1, <3>2 DEF ReleaseDealloc
  <2>2. side' = side /\ entry' = entry /\ location' = location /\ freed' = freed
    BY <1>21, <1>0 DEF ReleaseDealloc
  <2>3. /\ \A u \in Thread \ {t} : /\ pc'[u] = pc[u] /\ try'[u] = try[u]
                                /\ arg'[u] = arg[u] /\ old'[u] = old[u]
        /\ pc[t] \notin WeakLabel /\ pc'[t] \notin WeakLabel /\ (try'[t] => try[t])
    BY <1>21, <1>0, SMTT(15) DEF ReleaseDealloc, WeakLabel
  <2>4. WeakInv
    BY <1>0
  <2> HIDE DEF WeakInv, Gone, Marked, Dying
  <2> QED BY <2>1, <2>2, <2>3, <2>4, WeakFrame
<1>22. ASSUME SidetableRelease(t) PROVE WeakInv'
  <2>1. /\ isa' = isa /\ side'.weakly_referenced = side.weakly_referenced
        /\ entry' = entry /\ location' = location /\ freed' = freed
    BY <1>22, <1>0 DEF SidetableRelease
  <2>2. ~Gone
    <3>1. held[t] > 0 /\ pc[t] # "dl_free"
      BY <1>22, <1>0 DEF SidetableRelease, ReleaseLabel
    <3> QED BY <3>1, UserKeepsAlive
  <2>3. /\ \A u \in Thread \ {t} : /\ pc'[u] = pc[u] /\ try'[u] = try[u]
                                /\ arg'[u] = arg[u] /\ old'[u] = old[u]
        /\ pc[t] \notin WeakLabel /\ pc'[t] \notin WeakLabel /\ (try'[t] => try[t])
    BY <1>22, <1>0, SMTT(15) DEF SidetableRelease, WeakLabel
  <2>4. WeakInv
    BY <1>0
  <2> HIDE DEF WeakInv, Gone, Marked, Dying
  <2> QED BY <2>1, <2>2, <2>3, <2>4, WeakFrame
<1>23. ASSUME ChangeIsaLoad(t) PROVE WeakInv'
    BY <1>23, <1>0 DEF ChangeIsaLoad
<1>24. ASSUME ChangeIsaLock(t) PROVE WeakInv'
    BY <1>24, <1>0 DEF ChangeIsaLock
<1>25. ASSUME ChangeIsaStore(t) PROVE WeakInv'
  <2>0. /\ pc[t] = "ci_store" /\ isa \in IsaWord /\ old[t] \in IsaWord
        /\ pc' \in [Thread -> Label] /\ try' \in [Thread -> BOOLEAN]
        /\ UNCHANGED <<side, entry, location, freed>> /\ side' = side
    BY <1>25, <1>0 DEF ChangeIsaStore
  <2>1. /\ \A u \in Thread \ {t} : /\ pc'[u] = pc[u] /\ try'[u] = try[u]
                                /\ arg'[u] = arg[u] /\ old'[u] = old[u]
        /\ pc'[t] \in {"idle", "dealloc", "ci_move", "ci_load"} /\ (try'[t] => try[t])
    BY <1>25, <1>0, SMTT(15) DEF ChangeIsaStore
  <2>2. \/ pc'[t] # "ci_move" /\ isa'.weakly_referenced = isa.weakly_referenced
        \/ pc'[t] = "ci_move" /\ old'[t] = isa
    <3>1. CASE StoreFails(t)
      BY <1>25, <1>0, <2>0, <3>1 DEF ChangeIsaStore
    <3>2. CASE old[t].nonpointer /\ ~ToRaw(t) /\ StoreExclusive(t, [old[t] EXCEPT !.cls = arg[t].cls])
      BY <1>25, <1>0, <2>0, <3>2 DEF ChangeIsaStore
    <3>3. CASE old[t].nonpointer /\ ToRaw(t) /\ isa = old[t]
      BY <1>25, <1>0, <2>0, <3>3, SMTT(15) DEF ChangeIsaStore
    <3>4. CASE ~old[t].nonpointer /\ StoreExclusive(t, RawIsa(arg[t].cls))
      <4>1. isa'.weakly_referenced = isa.weakly_referenced
        BY <1>0, <2>0, <3>4 DEF RawIsa, NewIsa
      <4>2. pc'[t] # "ci_move"
        BY <1>25, <1>0, <2>0, <3>4 DEF ChangeIsaStore
      <4> QED BY <4>1, <4>2
    <3> QED BY <1>25, <3>1, <3>2, <3>3, <3>4 DEF ChangeIsaStore
  <2>3. Marked => Marked'
    BY <2>0, <2>1, <2>2
  <2>a. /\ pc[t] # "dl_free" /\ pc'[t] # "dl_free" /\ freed' = freed
        /\ \A u \in Thread \ {t} : pc'[u] = pc[u]
    BY <2>0, <2>1
  <2>4. Gone' <=> Gone
    BY <2>a
  <2>5. WeakInv
    BY <1>0
  <2> HIDE DEF Gone, Marked, Dying
  <2>6. /\ entry' = entry /\ location' = location /\ side' = side
        /\ \A u \in Thread : try'[u] => try[u]
    BY <2>0, <2>1
  <2>7. \A u \in Thread :
            pc'[u] # pc[u] =>
                /\ pc[u] \notin {"sw_load", "sw_store", "sw_set"}
                /\ pc'[u] \notin {"sw_load", "sw_store", "sw_set"}
    BY <2>0, <2>1
  <2>8. \A u \in Thread :
            pc'[u] \in {"sw_load", "sw_store", "sw_set"} => arg'[u] = arg[u]
    BY <2>0, <2>1
  <2> QED
    BY <2>3, <2>4, <2>5, <2>6, <2>7, <2>8 DEF WeakInv
<1>26. ASSUME ChangeIsaMove(t) PROVE WeakInv'
    BY <1>26, <1>0 DEF ChangeIsaMove
<1>27. ASSUME LoadWeakRead(t) PROVE WeakInv'
    BY <1>27, <1>0 DEF LoadWeakRead
<1>28. ASSUME LoadWeakLock(t) PROVE WeakInv'
    BY <1>28, <1>0 DEF LoadWeakLock
<1>29. ASSUME StoreWeakRead(t) PROVE WeakInv'
    BY <1>29, <1>0 DEF StoreWeakRead
<1>30. ASSUME StoreWeakLock(t) PROVE WeakInv'
  <2>1. lock = NoThread /\ pc[t] = "sw_lock"
    BY <1>30 DEF StoreWeakLock
  <2>2. entry <=> location = "obj"
    BY <1>0, <2>1
  <2>3. Marked' = Marked /\ Gone' = Gone
    BY <1>30, <1>0 DEF StoreWeakLock
  <2>4. arg[t].new = "obj" => ~Gone
    BY <1>30, <1>0, <2>1
  <2> QED BY <1>30, <1>0, <2>1, <2>2, <2>3, <2>4 DEF StoreWeakLock
<1>31. ASSUME StoreWeakLoad(t) PROVE WeakInv'
  <2>1. ~Gone /\ arg[t].new = "obj"
    BY <1>31, <1>0 DEF StoreWeakLoad
  <2>2. Marked => Marked'
    BY <1>31, <1>0 DEF StoreWeakLoad
  <2>3. pc'[t] = "sw_set" => Marked'
    BY <1>31, <1>0 DEF StoreWeakLoad
  <2>4. ~Gone'
    BY <1>31, <1>0, <2>1 DEF StoreWeakLoad
  <2> QED BY <1>31, <1>0, <2>1, <2>2, <2>3, <2>4 DEF StoreWeakLoad
<1>32. ASSUME StoreWeakStore(t) PROVE WeakInv'
    BY <1>32, <1>0 DEF StoreWeakStore
<1>33. ASSUME StoreWeakSet(t) PROVE WeakInv'
    BY <1>33, <1>0 DEF StoreWeakSet
<1>34. ASSUME RootDealloc(t) PROVE WeakInv'
  <2>1. \A u \in Thread : pc[u] \in {"sw_load", "sw_store", "sw_set"} => arg[u].new # "obj"
    BY <1>34, <1>0 DEF RootDealloc
  <2>2. Marked' = Marked
    BY <1>34, <1>0 DEF RootDealloc
  <2>3. CASE pc'[t] = "dl_free"
    <3>1. ~Marked /\ side = NoEntry
      BY <1>34, <1>0, <2>3 DEF RootDealloc
    <3>2. location = "nil" /\ ~entry
      BY <1>0, <2>1, <3>1
    <3> QED BY <1>34, <1>0, <2>2, <3>1, <3>2 DEF RootDealloc
  <2>4. CASE pc'[t] # "dl_free"
    BY <1>34, <1>0, <2>2, <2>4 DEF RootDealloc
  <2> QED BY <2>3, <2>4
<1>35. ASSUME ClearDeallocating(t) PROVE WeakInv'
  <2>1. \A u \in Thread : pc[u] \notin LockedLabel /\ ~try[u]
    BY <1>35, <1>0 DEF ClearDeallocating
  <2>2. entry <=> location = "obj"
    BY <1>0, <2>1
  <2>3. location = "obj" => isa.weakly_referenced \/ side.weakly_referenced
    BY <1>0, <2>1
  <2>4. location' = "nil" /\ ~entry' /\ side' = NoEntry
    BY <1>35, <1>0, <2>2, <2>3 DEF ClearDeallocating
  <2> QED BY <1>35, <1>0, <2>1, <2>4 DEF ClearDeallocating
<1>36. ASSUME Free(t) PROVE WeakInv'
    BY <1>36, <1>0 DEF Free
<1> HIDE DEF WeakInv, TypeOK
<1> QED
    BY <1>1, <1>2, <1>3, <1>4, <1>5, <1>6, <1>7, <1>8, <1>9, <1>10, <1>11,
         <1>12, <1>13, <1>14, <1>15, <1>16, <1>17, <1>18, <1>19,
         <1>20, <1>21, <1>22, <1>23, <1>24, <1>25, <1>26, <1>27,
         <1>28, <1>29, <1>30, <1>31, <1>32, <1>33, <1>34, <1>35, <1>36
       DEF Step, ClientStep, RuntimeStep

\* Every step keeps the books balanced.
LEMMA CountStep ==
    ASSUME IInv, TypeOK', NEW t \in Thread, Step(t)
    PROVE  CountInv'
<1> USE DEF Call, CallWith, Goto, Home, AtHome, CanUse, Return, Forget, Lock,
       Unlock, UnlockIfLocked, LoadExclusive, StoreExclusive, StoreFails, Gain,
       Lose, Retained, Released, StartDealloc, shared, weak, client, local,
       TypeOK, IsaWord, SideWord, CountInv, InFlight, Moving, LockInv, OldInv, IsaInv,
       UseInv, DyingInv, Dying, Gone, LockedLabel, UnlockedLabel, RetainLabel,
       ReleaseLabel, ChangeIsaLabel, SideLabel, NewIsa, RawIsa
<1>0. /\ TypeOK /\ LockInv /\ OldInv /\ IsaInv /\ UseInv /\ DyingInv /\ WeakInv
      /\ CountInv
    BY DEF IInv
<1>a. Cardinality(Strong) \in Nat /\ RC_MAX = 2 * RC_HALF - 1 /\ RC_HALF \in 1 .. RC_MAX
    BY <1>0, StrongFinite, Constants
<1>b. held' = held => Cardinality(Strong') = Cardinality(Strong)
    BY SameStrong
<1>c. Gain(t) /\ held[t] < MaxHeld => Cardinality(Strong') = Cardinality(Strong) + 1
    BY <1>0, GainStrong
<1>d. Lose(t) /\ held[t] > 0 => Cardinality(Strong') = Cardinality(Strong) - 1
    BY <1>0, LoseStrong
<1>1. ASSUME CallRetain(t) PROVE CountInv'
    BY <1>1, <1>0, <1>a, <1>b, <1>c, <1>d, SMTT(15) DEF CallRetain
<1>2. ASSUME CallRelease(t) PROVE CountInv'
    BY <1>2, <1>0, <1>a, <1>b, <1>c, <1>d, SMTT(15) DEF CallRelease
<1>3. ASSUME CallLoadWeak(t) PROVE CountInv'
    BY <1>3, <1>0, <1>a, <1>b, <1>c, <1>d, SMTT(15) DEF CallLoadWeak
<1>4. ASSUME NEW c \in Class, CallChangeIsa(t, c) PROVE CountInv'
    BY <1>4, <1>0, <1>a, <1>b, <1>c, <1>d, SMTT(15) DEF CallChangeIsa
<1>5. ASSUME NEW v \in Value, NEW crash \in BOOLEAN,
            CallStoreWeak(t, v, crash) PROVE CountInv'
    BY <1>5, <1>0, <1>a, <1>b, <1>c, <1>d, SMTT(15) DEF CallStoreWeak
<1>6. ASSUME NEW u \in Thread, Pass(t, u) PROVE CountInv'
  <2>1. Cardinality(Strong') = Cardinality(Strong)
    BY <1>6, <1>0, PassStrong
  <2> QED BY <1>6, <1>0, <2>1 DEF Pass
<1>7. ASSUME RetainLoad(t) PROVE CountInv'
    BY <1>7, <1>0, <1>a, <1>b, <1>c, <1>d, SMTT(15) DEF RetainLoad
<1>8. ASSUME RetainLock(t) PROVE CountInv'
    BY <1>8, <1>0, <1>a, <1>b, <1>c, <1>d, SMTT(15) DEF RetainLock
<1>9. ASSUME RetainStore(t) PROVE CountInv'
  <2>1. CASE isa' = isa /\ pc' = [pc EXCEPT ![t] = "rt_load"] /\ held' = held
    BY <1>9, <1>0, <1>a, <1>b, <1>c, <1>d, <2>1, SMTT(15) DEF RetainStore, Carried
  <2>2. CASE old[t].extra_rc < RC_MAX /\ isa = old[t] /\ isa' = [old[t] EXCEPT !.extra_rc = @ + 1]
    BY <1>9, <1>0, <1>a, <1>b, <1>c, <1>d, <2>2, SMTT(15) DEF RetainStore, Carried
  <2>3. CASE old[t].extra_rc = RC_MAX /\ isa = old[t] /\ lock = t
            /\ isa' = [old[t] EXCEPT !.extra_rc = RC_HALF, !.has_sidetable_rc = TRUE]
            /\ pc' = [pc EXCEPT ![t] = "rt_add"]
    <3>1. isa'.extra_rc = RC_HALF /\ isa.extra_rc = RC_MAX
      BY <1>0, <2>3
    <3>2. /\ pc[t] = "rt_store" /\ pc' = [pc EXCEPT ![t] = "rt_add"] /\ lock' = lock
          /\ side' = side /\ deallocator' = deallocator /\ freed' = freed
          /\ held' = [held EXCEPT ![t] = @ + 1]
      BY <1>9, <1>0, <1>a, <2>3 DEF RetainStore, Carried
    <3>3. InFlight = 0 /\ InFlight' = RC_HALF
      BY <1>0, <2>3, <3>2
    <3>4. Cardinality(Strong') = Cardinality(Strong) + 1
      BY <1>0, <1>c, <3>2
    <3>5. (IF Dying' THEN 0 ELSE 1) = IF Dying THEN 0 ELSE 1
      BY <3>2
    <3>6. CountInv /\ side.rc \in Nat /\ side'.rc = side.rc
      BY <1>0, <3>2
    <3> DEFINE one == IF Dying THEN 0 ELSE 1
    <3>7. one \in Nat
      OBVIOUS
    <3>8. one + isa.extra_rc + side.rc + 0 = Cardinality(Strong)
      BY <3>3, <3>6
    <3>9. CountInv' <=>
             one + isa'.extra_rc + side.rc + RC_HALF = Cardinality(Strong')
      BY <3>3, <3>5, <3>6
    <3> HIDE DEF one, CountInv
    <3> QED BY <1>a, <3>1, <3>4, <3>6, <3>7, <3>8, <3>9
  <2> QED BY <1>9, <1>0, <2>1, <2>2, <2>3 DEF RetainStore, Carried
<1>10. ASSUME RetainAdd(t) PROVE CountInv'
    BY <1>10, <1>0, <1>a, <1>b, <1>c, <1>d, SMTT(15) DEF RetainAdd
<1>11. ASSUME SidetableRetain(t) PROVE CountInv'
    BY <1>11, <1>0, <1>a, <1>b, <1>c, <1>d, SMTT(15) DEF SidetableRetain
<1>12. ASSUME SidetableTryRetain(t) PROVE CountInv'
    BY <1>12, <1>0, <1>a, <1>b, <1>c, <1>d, SMTT(15) DEF SidetableTryRetain
<1>13. ASSUME ReleaseLoad(t) PROVE CountInv'
    BY <1>13, <1>0, <1>a, <1>b, <1>c, <1>d, SMTT(15) DEF ReleaseLoad
<1>14. ASSUME ReleaseStore(t) PROVE CountInv'
    BY <1>14, <1>0, <1>a, <1>b, <1>c, <1>d, SMTT(15) DEF ReleaseStore
<1>15. ASSUME ReleaseLock(t) PROVE CountInv'
    BY <1>15, <1>0, <1>a, <1>b, <1>c, <1>d, SMTT(15) DEF ReleaseLock
<1>16. ASSUME ReleaseBorrow(t) PROVE CountInv'
  <2>1. /\ isa' = isa /\ lock' = t /\ lock = t /\ held' = held /\ InFlight = 0
        /\ (Dying' <=> Dying)
    BY <1>16, <1>0 DEF ReleaseBorrow
  <2>2. side'.rc + InFlight' = side.rc
    BY <1>16, <1>0, <1>a DEF ReleaseBorrow
  <2> DEFINE one == IF Dying THEN 0 ELSE 1
  <2>3. one' = one /\ one \in Nat
    BY <2>1
  <2>4. isa.extra_rc \in Nat /\ CountInv /\ Cardinality(Strong') = Cardinality(Strong)
    BY <1>0, <1>b, <2>1
  <2>5. /\ one + isa.extra_rc + side.rc + 0 = Cardinality(Strong)
        /\ InFlight' \in Nat /\ side'.rc \in Nat /\ side.rc \in Nat
    BY <1>16, <1>0, <1>a, <2>1, <2>4 DEF ReleaseBorrow
  <2>6. CountInv' <=> one' + isa'.extra_rc + side'.rc + InFlight' = Cardinality(Strong')
    BY DEF CountInv
  <2> HIDE DEF one, CountInv, InFlight, Dying
  <2> QED BY <1>a, <2>1, <2>2, <2>3, <2>4, <2>5, <2>6
<1>17. ASSUME ReleaseBorrowStore(t) PROVE CountInv'
    BY <1>17, <1>0, <1>a, <1>b, <1>c, <1>d, SMTT(15) DEF ReleaseBorrowStore
<1>18. ASSUME ReleaseBorrowLoad(t) PROVE CountInv'
    BY <1>18, <1>0, <1>a, <1>b, <1>c, <1>d, SMTT(15) DEF ReleaseBorrowLoad
<1>19. ASSUME ReleaseBorrowStore2(t) PROVE CountInv'
    BY <1>19, <1>0, <1>a, <1>b, <1>c, <1>d, SMTT(15) DEF ReleaseBorrowStore2
<1>20. ASSUME ReleasePutBack(t) PROVE CountInv'
    BY <1>20, <1>0, <1>a, <1>b, <1>c, <1>d, SMTT(15) DEF ReleasePutBack
<1>21. ASSUME ReleaseDealloc(t) PROVE CountInv'
    BY <1>21, <1>0, <1>a, <1>b, <1>c, <1>d, SMTT(15) DEF ReleaseDealloc
<1>22. ASSUME SidetableRelease(t) PROVE CountInv'
    BY <1>22, <1>0, <1>a, <1>b, <1>c, <1>d, SMTT(15) DEF SidetableRelease
<1>23. ASSUME ChangeIsaLoad(t) PROVE CountInv'
    BY <1>23, <1>0, <1>a, <1>b, <1>c, <1>d, SMTT(15) DEF ChangeIsaLoad
<1>24. ASSUME ChangeIsaLock(t) PROVE CountInv'
    BY <1>24, <1>0, <1>a, <1>b, <1>c, <1>d, SMTT(15) DEF ChangeIsaLock
<1>25. ASSUME ChangeIsaStore(t) PROVE CountInv'
    BY <1>25, <1>0, <1>a, <1>b, <1>c, <1>d, SMTT(60) DEF ChangeIsaStore
<1>26. ASSUME ChangeIsaMove(t) PROVE CountInv'
    BY <1>26, <1>0, <1>a, <1>b, <1>c, <1>d, SMTT(15) DEF ChangeIsaMove
<1>27. ASSUME LoadWeakRead(t) PROVE CountInv'
    BY <1>27, <1>0, <1>a, <1>b, <1>c, <1>d, SMTT(15) DEF LoadWeakRead
<1>28. ASSUME LoadWeakLock(t) PROVE CountInv'
    BY <1>28, <1>0, <1>a, <1>b, <1>c, <1>d, SMTT(15) DEF LoadWeakLock
<1>29. ASSUME StoreWeakRead(t) PROVE CountInv'
    BY <1>29, <1>0, <1>a, <1>b, <1>c, <1>d, SMTT(15) DEF StoreWeakRead
<1>30. ASSUME StoreWeakLock(t) PROVE CountInv'
    BY <1>30, <1>0, <1>a, <1>b, <1>c, <1>d, SMTT(15) DEF StoreWeakLock
<1>31. ASSUME StoreWeakLoad(t) PROVE CountInv'
    BY <1>31, <1>0, <1>a, <1>b, <1>c, <1>d, SMTT(15) DEF StoreWeakLoad
<1>32. ASSUME StoreWeakStore(t) PROVE CountInv'
    BY <1>32, <1>0, <1>a, <1>b, <1>c, <1>d, SMTT(15) DEF StoreWeakStore
<1>33. ASSUME StoreWeakSet(t) PROVE CountInv'
    BY <1>33, <1>0, <1>a, <1>b, <1>c, <1>d, SMTT(15) DEF StoreWeakSet
<1>34. ASSUME RootDealloc(t) PROVE CountInv'
    BY <1>34, <1>0, <1>a, <1>b, <1>c, <1>d, SMTT(15) DEF RootDealloc
<1>35. ASSUME ClearDeallocating(t) PROVE CountInv'
  <2>1. Dying /\ Dying' /\ lock = NoThread /\ lock' = NoThread /\ held' = held
    BY <1>35, <1>0 DEF ClearDeallocating
  <2>2. Cardinality(Strong) = 0
    BY <1>0, <2>1, <1>35, NoStrong DEF ClearDeallocating
  <2>3. side.rc = 0 /\ side'.rc = 0
    BY <1>35, <1>0, <2>1, <2>2 DEF ClearDeallocating, NoEntry
  <2> QED BY <1>35, <1>0, <1>a, <1>b, <1>c, <1>d, <2>1, <2>2, <2>3 DEF ClearDeallocating
<1>36. ASSUME Free(t) PROVE CountInv'
    BY <1>36, <1>0, <1>a, <1>b, <1>c, <1>d, SMTT(15) DEF Free
<1> HIDE DEF CountInv, TypeOK
<1> QED
    BY <1>1, <1>2, <1>3, <1>4, <1>5, <1>6, <1>7, <1>8, <1>9, <1>10, <1>11,
         <1>12, <1>13, <1>14, <1>15, <1>16, <1>17, <1>18, <1>19,
         <1>20, <1>21, <1>22, <1>23, <1>24, <1>25, <1>26, <1>27,
         <1>28, <1>29, <1>30, <1>31, <1>32, <1>33, <1>34, <1>35, <1>36
       DEF Step, ClientStep, RuntimeStep

\* Every step keeps the types of the isa word and of the side table.
LEMMA WordsType ==
    ASSUME IInv, NEW t \in Thread, Step(t)
    PROVE  isa' \in IsaWord /\ side' \in SideWord
<1> USE DEF Call, CallWith, Goto, Home, AtHome, CanUse, Return, Forget, Lock,
       Unlock, UnlockIfLocked, LoadExclusive, StoreExclusive, StoreFails, Gain,
       Lose, Retained, Released, StartDealloc, shared, weak, client, local, WeakClear,
       TypeOK, IsaWord, SideWord, NoEntry
<1>0. TypeOK /\ OldInv /\ IsaInv /\ LockInv
    BY DEF IInv
<1>1. CASE CallRetain(t)
    BY <1>1, <1>0, Constants DEF CallRetain
<1>2. CASE CallRelease(t)
    BY <1>2, <1>0, Constants DEF CallRelease
<1>3. CASE CallLoadWeak(t)
    BY <1>3, <1>0, Constants DEF CallLoadWeak
<1>4. CASE \E c \in Class : CallChangeIsa(t, c)
    BY <1>4, <1>0, Constants DEF CallChangeIsa
<1>5. CASE \E v \in Value, crash \in BOOLEAN : CallStoreWeak(t, v, crash)
    BY <1>5, <1>0, Constants DEF CallStoreWeak
<1>6. CASE \E u \in Thread : Pass(t, u)
    BY <1>6, <1>0, Constants DEF Pass
<1>7. CASE RetainLoad(t)
    BY <1>7, <1>0, Constants DEF RetainLoad
<1>8. CASE RetainLock(t)
    BY <1>8, <1>0, Constants DEF RetainLock
<1>9. CASE RetainStore(t)
  <2>1. CASE UNCHANGED <<isa, side>>
    BY <1>9, <1>0, <2>1, Constants DEF RetainStore, Carried, OldInv
  <2>2. CASE side' = side /\ old[t].extra_rc < RC_MAX
             /\ isa' = [old[t] EXCEPT !.extra_rc = @ + 1]
    BY <1>0, <2>2, Constants
  <2>3. CASE side' = side
             /\ isa' = [old[t] EXCEPT !.extra_rc = RC_HALF, !.has_sidetable_rc = TRUE]
    <3>1. RC_HALF \in 0 .. RC_MAX /\ old[t] \in IsaWord
      BY <1>0, Constants
    <3> QED BY <2>3, <3>1, <1>0
  <2> QED BY <1>9, <2>1, <2>2, <2>3 DEF RetainStore, Carried
<1>10. CASE RetainAdd(t)
    BY <1>10, <1>0, Constants DEF RetainAdd
<1>11. CASE SidetableRetain(t)
    BY <1>11, <1>0, Constants DEF SidetableRetain
<1>12. CASE SidetableTryRetain(t)
    BY <1>12, <1>0, Constants DEF SidetableTryRetain
<1>13. CASE ReleaseLoad(t)
    BY <1>13, <1>0, Constants DEF ReleaseLoad
<1>14. CASE ReleaseStore(t)
  <2>1. CASE UNCHANGED <<isa, side>>
    BY <1>14, <1>0, <2>1, Constants DEF ReleaseStore, OldInv
  <2>2. CASE side' = side /\ isa' = [old[t] EXCEPT !.extra_rc = @ - 1]
    BY <1>14, <1>0, <2>2, Constants, SMTT(30) DEF ReleaseStore, OldInv
  <2> QED BY <1>14, <2>1, <2>2 DEF ReleaseStore
<1>15. CASE ReleaseLock(t)
    BY <1>15, <1>0, Constants DEF ReleaseLock
<1>16. CASE ReleaseBorrow(t)
  <2>1. side.rc # 0 => side.rc - RC_HALF \in Nat
    BY <1>16, <1>0, Halves, Constants DEF ReleaseBorrow, IsaInv, SideLabel
  <2>2. CASE side' = side
    BY <1>16, <1>0, <2>2 DEF ReleaseBorrow
  <2>3. CASE side.rc # 0 /\ side' = [side EXCEPT !.rc = @ - RC_HALF]
    BY <1>16, <1>0, <2>1, <2>3 DEF ReleaseBorrow
  <2> QED BY <1>16, <2>2, <2>3 DEF ReleaseBorrow
<1>17. CASE ReleaseBorrowStore(t)
  <2>1. CASE UNCHANGED <<isa, side>>
    BY <1>17, <1>0, <2>1, Constants DEF ReleaseBorrowStore, OldInv
  <2>2. CASE side' = side /\ isa' = [old[t] EXCEPT !.extra_rc = RC_HALF - 1]
    BY <1>17, <1>0, <2>2, Constants, SMTT(30) DEF ReleaseBorrowStore, OldInv
  <2> QED BY <1>17, <2>1, <2>2 DEF ReleaseBorrowStore
<1>18. CASE ReleaseBorrowLoad(t)
    BY <1>18, <1>0, Constants DEF ReleaseBorrowLoad
<1>19. CASE ReleaseBorrowStore2(t)
  <2>1. old[t].extra_rc + RC_HALF - 1 \in 0 .. RC_MAX
    BY <1>19, <1>0, Constants DEF ReleaseBorrowStore2, OldInv
  <2>2. CASE UNCHANGED <<isa, side>>
    BY <1>0, <2>2
  <2>3. CASE side' = side /\ isa' = [old[t] EXCEPT !.extra_rc = @ + RC_HALF - 1]
    BY <1>0, <2>1, <2>3
  <2> QED BY <1>19, <2>2, <2>3 DEF ReleaseBorrowStore2
<1>20. CASE ReleasePutBack(t)
    BY <1>20, <1>0, Constants DEF ReleasePutBack
<1>21. CASE ReleaseDealloc(t)
  <2>1. CASE UNCHANGED <<isa, side>>
    BY <1>21, <1>0, <2>1, Constants DEF ReleaseDealloc, OldInv
  <2>2. CASE side' = side /\ isa' = [old[t] EXCEPT !.deallocating = TRUE]
    BY <1>21, <1>0, <2>2, Constants DEF ReleaseDealloc, OldInv
  <2> QED BY <1>21, <2>1, <2>2 DEF ReleaseDealloc
<1>22. CASE SidetableRelease(t)
  <2>1. CASE side' = [side EXCEPT !.deallocating = TRUE]
    BY <1>22, <1>0, <2>1 DEF SidetableRelease
  <2>2. CASE side.rc > 0 /\ side' = [side EXCEPT !.rc = @ - 1]
    BY <1>22, <1>0, <2>2 DEF SidetableRelease
  <2>3. CASE side' = side
    BY <1>22, <1>0, <2>3 DEF SidetableRelease
  <2> QED BY <1>22, <2>1, <2>2, <2>3 DEF SidetableRelease
<1>23. CASE ChangeIsaLoad(t)
    BY <1>23, <1>0, Constants DEF ChangeIsaLoad
<1>24. CASE ChangeIsaLock(t)
    BY <1>24, <1>0, Constants DEF ChangeIsaLock
<1>25. CASE ChangeIsaStore(t)
  <2>0. side' = side /\ arg[t].cls \in Class
    BY <1>25, <1>0 DEF ChangeIsaStore, Arg
  <2>1. CASE isa' = isa
    BY <1>0, <2>0, <2>1
  <2>2. CASE isa' = [old[t] EXCEPT !.cls = arg[t].cls]
    BY <1>0, <2>0, <2>2
  <2>3. CASE isa' = RawIsa(arg[t].cls)
    BY <1>0, <2>0, <2>3, Constants
  <2> QED BY <1>25, <2>1, <2>2, <2>3 DEF ChangeIsaStore
<1>26. CASE ChangeIsaMove(t)
    BY <1>26, <1>0, Constants DEF ChangeIsaMove
<1>27. CASE LoadWeakRead(t)
    BY <1>27, <1>0, Constants DEF LoadWeakRead
<1>28. CASE LoadWeakLock(t)
    BY <1>28, <1>0, Constants DEF LoadWeakLock
<1>29. CASE StoreWeakRead(t)
    BY <1>29, <1>0, Constants DEF StoreWeakRead
<1>30. CASE StoreWeakLock(t)
    BY <1>30, <1>0, Constants DEF StoreWeakLock
<1>31. CASE StoreWeakLoad(t)
    BY <1>31, <1>0, Constants DEF StoreWeakLoad
<1>32. CASE StoreWeakStore(t)
  <2>1. CASE UNCHANGED <<isa, side>>
    BY <1>32, <1>0, <2>1, Constants DEF StoreWeakStore, OldInv
  <2>2. CASE side' = side /\ isa' = [old[t] EXCEPT !.weakly_referenced = TRUE]
    BY <1>32, <1>0, <2>2, Constants DEF StoreWeakStore, OldInv
  <2> QED BY <1>32, <2>1, <2>2 DEF StoreWeakStore
<1>33. CASE StoreWeakSet(t)
    BY <1>33, <1>0, Constants DEF StoreWeakSet
<1>34. CASE RootDealloc(t)
    BY <1>34, <1>0, Constants DEF RootDealloc
<1>35. CASE ClearDeallocating(t)
    BY <1>35, <1>0, Constants DEF ClearDeallocating
<1>36. CASE Free(t)
    BY <1>36, <1>0, Constants DEF Free
<1> QED
    BY <1>1, <1>2, <1>3, <1>4, <1>5, <1>6, <1>7, <1>8, <1>9, <1>10, <1>11,
         <1>12, <1>13, <1>14, <1>15, <1>16, <1>17, <1>18, <1>19,
         <1>20, <1>21, <1>22, <1>23, <1>24, <1>25, <1>26, <1>27,
         <1>28, <1>29, <1>30, <1>31, <1>32, <1>33, <1>34, <1>35, <1>36
       DEF Step, ClientStep, RuntimeStep

\* Every step keeps the types of what the threads share beside them.
LEMMA ClientType ==
    ASSUME IInv, NEW t \in Thread, Step(t)
    PROVE  /\ held' \in [Thread -> 0 .. MaxHeld]
           /\ deallocator' \in Thread \union {NoThread} /\ freed' \in BOOLEAN
           /\ lock' \in Thread \union {NoThread}
           /\ entry' \in BOOLEAN /\ location' \in Value
<1> USE DEF Call, CallWith, Goto, Home, AtHome, CanUse, Return, Forget, Lock,
       Unlock, UnlockIfLocked, LoadExclusive, StoreExclusive, StoreFails, Gain,
       Lose, Retained, Released, StartDealloc, shared, weak, client, local, WeakClear,
       TypeOK, Value, Arg, UseInv, RetainLabel, ReleaseLabel
<1>0. TypeOK /\ UseInv
    BY DEF IInv
<1>a. /\ held' = held => held' \in [Thread -> 0 .. MaxHeld]
      /\ Gain(t) /\ held[t] < MaxHeld => held' \in [Thread -> 0 .. MaxHeld]
      /\ Lose(t) /\ held[t] > 0 => held' \in [Thread -> 0 .. MaxHeld]
  <2>1. held' = held => held' \in [Thread -> 0 .. MaxHeld]
    BY <1>0
  <2>2. Gain(t) /\ held[t] < MaxHeld => held' \in [Thread -> 0 .. MaxHeld]
    BY <1>0, GainStrong
  <2>3. Lose(t) /\ held[t] > 0 => held' \in [Thread -> 0 .. MaxHeld]
    BY <1>0, LoseStrong
  <2> QED BY <2>1, <2>2, <2>3
<1>1. CASE CallRetain(t)
    BY <1>1, <1>0, <1>a DEF CallRetain
<1>2. CASE CallRelease(t)
    BY <1>2, <1>0, <1>a DEF CallRelease
<1>3. CASE CallLoadWeak(t)
    BY <1>3, <1>0, <1>a DEF CallLoadWeak
<1>4. CASE \E c \in Class : CallChangeIsa(t, c)
    BY <1>4, <1>0, <1>a DEF CallChangeIsa
<1>5. CASE \E v \in Value, crash \in BOOLEAN : CallStoreWeak(t, v, crash)
    BY <1>5, <1>0, <1>a DEF CallStoreWeak
<1>6. CASE \E u \in Thread : Pass(t, u)
    BY <1>6, <1>0, PassStrong DEF Pass
<1>7. CASE RetainLoad(t)
    BY <1>7, <1>0, <1>a DEF RetainLoad
<1>8. CASE RetainLock(t)
    BY <1>8, <1>0, <1>a DEF RetainLock
<1>9. CASE RetainStore(t)
    BY <1>9, <1>0, <1>a DEF RetainStore, Carried
<1>10. CASE RetainAdd(t)
    BY <1>10, <1>0, <1>a DEF RetainAdd
<1>11. CASE SidetableRetain(t)
    BY <1>11, <1>0, <1>a DEF SidetableRetain
<1>12. CASE SidetableTryRetain(t)
    BY <1>12, <1>0, <1>a DEF SidetableTryRetain
<1>13. CASE ReleaseLoad(t)
    BY <1>13, <1>0, <1>a DEF ReleaseLoad
<1>14. CASE ReleaseStore(t)
    BY <1>14, <1>0, <1>a DEF ReleaseStore
<1>15. CASE ReleaseLock(t)
    BY <1>15, <1>0, <1>a DEF ReleaseLock
<1>16. CASE ReleaseBorrow(t)
    BY <1>16, <1>0, <1>a DEF ReleaseBorrow
<1>17. CASE ReleaseBorrowStore(t)
    BY <1>17, <1>0, <1>a DEF ReleaseBorrowStore
<1>18. CASE ReleaseBorrowLoad(t)
    BY <1>18, <1>0, <1>a DEF ReleaseBorrowLoad
<1>19. CASE ReleaseBorrowStore2(t)
    BY <1>19, <1>0, <1>a DEF ReleaseBorrowStore2
<1>20. CASE ReleasePutBack(t)
    BY <1>20, <1>0, <1>a DEF ReleasePutBack
<1>21. CASE ReleaseDealloc(t)
    BY <1>21, <1>0, <1>a DEF ReleaseDealloc
<1>22. CASE SidetableRelease(t)
    BY <1>22, <1>0, <1>a DEF SidetableRelease
<1>23. CASE ChangeIsaLoad(t)
    BY <1>23, <1>0, <1>a DEF ChangeIsaLoad
<1>24. CASE ChangeIsaLock(t)
    BY <1>24, <1>0, <1>a DEF ChangeIsaLock
<1>25. CASE ChangeIsaStore(t)
    BY <1>25, <1>0, <1>a DEF ChangeIsaStore
<1>26. CASE ChangeIsaMove(t)
    BY <1>26, <1>0, <1>a DEF ChangeIsaMove
<1>27. CASE LoadWeakRead(t)
    BY <1>27, <1>0, <1>a DEF LoadWeakRead
<1>28. CASE LoadWeakLock(t)
    BY <1>28, <1>0, <1>a DEF LoadWeakLock
<1>29. CASE StoreWeakRead(t)
    BY <1>29, <1>0, <1>a DEF StoreWeakRead
<1>30. CASE StoreWeakLock(t)
    BY <1>30, <1>0, <1>a DEF StoreWeakLock
<1>31. CASE StoreWeakLoad(t)
    BY <1>31, <1>0, <1>a DEF StoreWeakLoad
<1>32. CASE StoreWeakStore(t)
    BY <1>32, <1>0, <1>a DEF StoreWeakStore
<1>33. CASE StoreWeakSet(t)
    BY <1>33, <1>0, <1>a DEF StoreWeakSet
<1>34. CASE RootDealloc(t)
    BY <1>34, <1>0, <1>a DEF RootDealloc
<1>35. CASE ClearDeallocating(t)
    BY <1>35, <1>0, <1>a DEF ClearDeallocating
<1>36. CASE Free(t)
    BY <1>36, <1>0, <1>a DEF Free
<1> QED
    BY <1>1, <1>2, <1>3, <1>4, <1>5, <1>6, <1>7, <1>8, <1>9, <1>10, <1>11,
         <1>12, <1>13, <1>14, <1>15, <1>16, <1>17, <1>18, <1>19,
         <1>20, <1>21, <1>22, <1>23, <1>24, <1>25, <1>26, <1>27,
         <1>28, <1>29, <1>30, <1>31, <1>32, <1>33, <1>34, <1>35, <1>36
       DEF Step, ClientStep, RuntimeStep

\* Every step keeps the types of the threads' locals.
LEMMA LocalType ==
    ASSUME IInv, NEW t \in Thread, Step(t)
    PROVE  /\ pc' \in [Thread -> Label] /\ old' \in [Thread -> IsaWord]
           /\ handle' \in [Thread -> BOOLEAN] /\ try' \in [Thread -> BOOLEAN]
           /\ arg' \in [Thread -> Arg]
<1> USE DEF Call, CallWith, Goto, Home, AtHome, CanUse, Return, Forget, Lock,
       Unlock, UnlockIfLocked, LoadExclusive, StoreExclusive, StoreFails, Gain,
       Lose, Retained, Released, StartDealloc, shared, weak, client, local, WeakClear,
       TypeOK, Arg, Value, Label
<1>0. TypeOK
    BY DEF IInv
<1>1. CASE CallRetain(t)
    BY <1>1, <1>0, Constants DEF CallRetain
<1>2. CASE CallRelease(t)
    BY <1>2, <1>0, Constants DEF CallRelease
<1>3. CASE CallLoadWeak(t)
    BY <1>3, <1>0, Constants DEF CallLoadWeak
<1>4. CASE \E c \in Class : CallChangeIsa(t, c)
    BY <1>4, <1>0, Constants DEF CallChangeIsa
<1>5. CASE \E v \in Value, crash \in BOOLEAN : CallStoreWeak(t, v, crash)
  <2>1. PICK v \in Value, crash \in BOOLEAN : CallStoreWeak(t, v, crash)
    BY <1>5
  <2>2. [NoArg EXCEPT !.new = v, !.crash = crash] \in Arg
    BY <2>1, Constants
  <2> QED BY <2>1, <2>2, <1>0, Constants DEF CallStoreWeak
<1>6. CASE \E u \in Thread : Pass(t, u)
    BY <1>6, <1>0, Constants DEF Pass
<1>7. CASE RetainLoad(t)
  <2>1. pc' \in [Thread -> Label]
    BY <1>7, <1>0 DEF RetainLoad
  <2>2. old' \in [Thread -> IsaWord]
    BY <1>7, <1>0, Constants DEF RetainLoad
  <2>3. handle' \in [Thread -> BOOLEAN] /\ try' \in [Thread -> BOOLEAN]
    BY <1>7, <1>0 DEF RetainLoad
  <2>4. arg' \in [Thread -> Arg]
    BY <1>7, <1>0, Constants DEF RetainLoad
  <2> QED BY <2>1, <2>2, <2>3, <2>4
<1>8. CASE RetainLock(t)
    BY <1>8, <1>0, Constants DEF RetainLock
<1>9. CASE RetainStore(t)
  <2>1. pc' \in [Thread -> Label]
    BY <1>9, <1>0 DEF RetainStore, Carried
  <2>2. old' \in [Thread -> IsaWord]
    BY <1>9, <1>0, Constants DEF RetainStore, Carried
  <2>3. handle' \in [Thread -> BOOLEAN] /\ try' \in [Thread -> BOOLEAN]
    BY <1>9, <1>0 DEF RetainStore, Carried
  <2>4. arg' \in [Thread -> Arg]
    BY <1>9, <1>0, Constants DEF RetainStore, Carried
  <2> QED BY <2>1, <2>2, <2>3, <2>4
<1>10. CASE RetainAdd(t)
    BY <1>10, <1>0, Constants DEF RetainAdd
<1>11. CASE SidetableRetain(t)
    BY <1>11, <1>0, Constants DEF SidetableRetain
<1>12. CASE SidetableTryRetain(t)
    BY <1>12, <1>0, Constants DEF SidetableTryRetain
<1>13. CASE ReleaseLoad(t)
  <2>1. pc' \in [Thread -> Label]
    BY <1>13, <1>0, SMTT(30) DEF ReleaseLoad
  <2>2. old' \in [Thread -> IsaWord]
    BY <1>13, <1>0, Constants DEF ReleaseLoad
  <2>3. handle' \in [Thread -> BOOLEAN] /\ try' \in [Thread -> BOOLEAN]
    BY <1>13, <1>0 DEF ReleaseLoad
  <2>4. arg' \in [Thread -> Arg]
    BY <1>13, <1>0, Constants DEF ReleaseLoad
  <2> QED BY <2>1, <2>2, <2>3, <2>4
<1>14. CASE ReleaseStore(t)
  <2>1. pc' \in [Thread -> Label]
    BY <1>14, <1>0 DEF ReleaseStore
  <2>2. old' \in [Thread -> IsaWord]
    BY <1>14, <1>0, Constants DEF ReleaseStore
  <2>3. handle' \in [Thread -> BOOLEAN] /\ try' \in [Thread -> BOOLEAN]
    BY <1>14, <1>0 DEF ReleaseStore
  <2>4. arg' \in [Thread -> Arg]
    BY <1>14, <1>0, Constants DEF ReleaseStore
  <2> QED BY <2>1, <2>2, <2>3, <2>4
<1>15. CASE ReleaseLock(t)
    BY <1>15, <1>0, Constants DEF ReleaseLock
<1>16. CASE ReleaseBorrow(t)
    BY <1>16, <1>0, Constants DEF ReleaseBorrow
<1>17. CASE ReleaseBorrowStore(t)
  <2>1. pc' \in [Thread -> Label]
    BY <1>17, <1>0 DEF ReleaseBorrowStore
  <2>2. old' \in [Thread -> IsaWord]
    BY <1>17, <1>0, Constants DEF ReleaseBorrowStore
  <2>3. handle' \in [Thread -> BOOLEAN] /\ try' \in [Thread -> BOOLEAN]
    BY <1>17, <1>0 DEF ReleaseBorrowStore
  <2>4. arg' \in [Thread -> Arg]
    BY <1>17, <1>0, Constants DEF ReleaseBorrowStore
  <2> QED BY <2>1, <2>2, <2>3, <2>4
<1>18. CASE ReleaseBorrowLoad(t)
    BY <1>18, <1>0, Constants DEF ReleaseBorrowLoad
<1>19. CASE ReleaseBorrowStore2(t)
  <2>1. pc' \in [Thread -> Label]
    BY <1>19, <1>0 DEF ReleaseBorrowStore2
  <2>2. old' \in [Thread -> IsaWord]
    BY <1>19, <1>0, Constants DEF ReleaseBorrowStore2
  <2>3. handle' \in [Thread -> BOOLEAN] /\ try' \in [Thread -> BOOLEAN]
    BY <1>19, <1>0 DEF ReleaseBorrowStore2
  <2>4. arg' \in [Thread -> Arg]
    BY <1>19, <1>0, Constants DEF ReleaseBorrowStore2
  <2> QED BY <2>1, <2>2, <2>3, <2>4
<1>20. CASE ReleasePutBack(t)
    BY <1>20, <1>0, Constants DEF ReleasePutBack
<1>21. CASE ReleaseDealloc(t)
  <2>1. pc' \in [Thread -> Label]
    BY <1>21, <1>0 DEF ReleaseDealloc
  <2>2. old' \in [Thread -> IsaWord]
    BY <1>21, <1>0, Constants DEF ReleaseDealloc
  <2>3. handle' \in [Thread -> BOOLEAN] /\ try' \in [Thread -> BOOLEAN]
    BY <1>21, <1>0 DEF ReleaseDealloc
  <2>4. arg' \in [Thread -> Arg]
    BY <1>21, <1>0, Constants DEF ReleaseDealloc
  <2> QED BY <2>1, <2>2, <2>3, <2>4
<1>22. CASE SidetableRelease(t)
  <2>1. pc' \in [Thread -> Label]
    BY <1>22, <1>0 DEF SidetableRelease
  <2>2. old' \in [Thread -> IsaWord]
    BY <1>22, <1>0, Constants DEF SidetableRelease
  <2>3. handle' \in [Thread -> BOOLEAN] /\ try' \in [Thread -> BOOLEAN]
    BY <1>22, <1>0 DEF SidetableRelease
  <2>4. arg' \in [Thread -> Arg]
    <3>1. arg' = [arg EXCEPT ![t] = NoArg] \/ arg' = arg
      BY <1>22 DEF SidetableRelease
    <3>2. arg \in [Thread -> Arg] /\ NoArg \in Arg
      BY <1>0, Constants
    <3> HIDE DEF Arg, NoArg
    <3> QED BY <3>1, <3>2
  <2> QED BY <2>1, <2>2, <2>3, <2>4
<1>23. CASE ChangeIsaLoad(t)
    BY <1>23, <1>0, Constants DEF ChangeIsaLoad
<1>24. CASE ChangeIsaLock(t)
    BY <1>24, <1>0, Constants DEF ChangeIsaLock
<1>25. CASE ChangeIsaStore(t)
  <2>1. pc' \in [Thread -> Label]
    BY <1>25, <1>0 DEF ChangeIsaStore
  <2>2. old' \in [Thread -> IsaWord]
    BY <1>25, <1>0, Constants DEF ChangeIsaStore
  <2>3. handle' \in [Thread -> BOOLEAN] /\ try' \in [Thread -> BOOLEAN]
    BY <1>25, <1>0 DEF ChangeIsaStore
  <2>4. arg' \in [Thread -> Arg]
    BY <1>25, <1>0, Constants DEF ChangeIsaStore
  <2> QED BY <2>1, <2>2, <2>3, <2>4
<1>26. CASE ChangeIsaMove(t)
    BY <1>26, <1>0, Constants DEF ChangeIsaMove
<1>27. CASE LoadWeakRead(t)
    BY <1>27, <1>0, Constants DEF LoadWeakRead
<1>28. CASE LoadWeakLock(t)
    BY <1>28, <1>0, Constants DEF LoadWeakLock
<1>29. CASE StoreWeakRead(t)
    BY <1>29, <1>0, Constants, SMTT(30) DEF StoreWeakRead
<1>30. CASE StoreWeakLock(t)
  <2>1. pc' \in [Thread -> Label]
    BY <1>30, <1>0 DEF StoreWeakLock
  <2>2. old' \in [Thread -> IsaWord]
    BY <1>30, <1>0, Constants DEF StoreWeakLock
  <2>3. handle' \in [Thread -> BOOLEAN] /\ try' \in [Thread -> BOOLEAN]
    BY <1>30, <1>0 DEF StoreWeakLock
  <2>4. arg' \in [Thread -> Arg]
    BY <1>30, <1>0, Constants DEF StoreWeakLock
  <2> QED BY <2>1, <2>2, <2>3, <2>4
<1>31. CASE StoreWeakLoad(t)
  <2>1. pc' \in [Thread -> Label]
    BY <1>31, <1>0 DEF StoreWeakLoad
  <2>2. old' \in [Thread -> IsaWord]
    BY <1>31, <1>0, Constants DEF StoreWeakLoad
  <2>3. handle' \in [Thread -> BOOLEAN] /\ try' \in [Thread -> BOOLEAN]
    BY <1>31, <1>0 DEF StoreWeakLoad
  <2>4. arg' \in [Thread -> Arg]
    BY <1>31, <1>0, Constants DEF StoreWeakLoad
  <2> QED BY <2>1, <2>2, <2>3, <2>4
<1>32. CASE StoreWeakStore(t)
    BY <1>32, <1>0, Constants DEF StoreWeakStore
<1>33. CASE StoreWeakSet(t)
    BY <1>33, <1>0, Constants DEF StoreWeakSet
<1>34. CASE RootDealloc(t)
    BY <1>34, <1>0, Constants DEF RootDealloc
<1>35. CASE ClearDeallocating(t)
    BY <1>35, <1>0, Constants DEF ClearDeallocating
<1>36. CASE Free(t)
    BY <1>36, <1>0, Constants DEF Free
<1> QED
    BY <1>1, <1>2, <1>3, <1>4, <1>5, <1>6, <1>7, <1>8, <1>9, <1>10, <1>11,
         <1>12, <1>13, <1>14, <1>15, <1>16, <1>17, <1>18, <1>19,
         <1>20, <1>21, <1>22, <1>23, <1>24, <1>25, <1>26, <1>27,
         <1>28, <1>29, <1>30, <1>31, <1>32, <1>33, <1>34, <1>35, <1>36
       DEF Step, ClientStep, RuntimeStep

\* Every step keeps the types.
LEMMA TypeStep ==
    ASSUME IInv, NEW t \in Thread, Step(t)
    PROVE  TypeOK'
    BY WordsType, ClientType, LocalType DEF TypeOK

\* Every step preserves the invariant.
LEMMA InvStep ==
    ASSUME IInv, NEW t \in Thread, Step(t)
    PROVE  IInv'
<1>1. TypeOK'
    BY TypeStep
<1>2. LockInv' /\ OldInv' /\ IsaInv' /\ UseInv' /\ DyingInv' /\ WeakInv' /\ CountInv'
    BY <1>1, LockStep, OldStep, IsaStep, UseStep, DyingStep, WeakStep, CountStep
<1> QED BY <1>1, <1>2 DEF IInv

\* Nothing changes.
LEMMA InvStutter ==
    ASSUME IInv, UNCHANGED vars
    PROVE  IInv'
<1> USE DEF IInv, vars, shared, weak, client, local
<1>1. TypeOK'
    BY DEF TypeOK
<1>2. LockInv'
    BY DEF LockInv, ToRaw
<1>3. OldInv'
    BY DEF OldInv
<1>4. IsaInv'
    BY DEF IsaInv
<1>5. UseInv'
    BY DEF UseInv
<1>6. DyingInv'
    BY DEF DyingInv, Dying, Gone
<1>7. WeakInv'
    BY DEF WeakInv, Marked, Gone
<1>8. CountInv'
    BY DEF CountInv, Dying, InFlight, Moving, Strong
<1> QED BY <1>1, <1>2, <1>3, <1>4, <1>5, <1>6, <1>7, <1>8

\* One thread owns the first reference.
LEMMA InvInit ==
    ASSUME Init
    PROVE  IInv
<1>1. PICK c \in Class : isa = FreshIsa(c)
    BY DEF Init
<1>2. PICK t \in Thread : held = [u \in Thread |-> IF u = t THEN 1 ELSE 0]
    BY DEF Init
<1>3. isa \in IsaWord /\ isa.extra_rc = 0 /\ ~isa.weakly_referenced
      /\ ~isa.deallocating /\ ~isa.has_sidetable_rc
  <2>1. isa \in IsaWord
    BY <1>1, Constants
  <2> QED BY <2>1, <1>1 DEF FreshIsa, NewIsa
<1>4. TypeOK
  <2>1. held \in [Thread -> 0 .. MaxHeld]
    BY <1>2
  <2>2. NoIsa \in IsaWord /\ NoArg \in Arg /\ NoEntry \in SideWord
    BY Constants
  <2> QED BY <1>3, <2>1, <2>2 DEF Init, TypeOK, Label, Value
<1>5. \A u \in Thread : pc[u] = "idle" /\ ~try[u] /\ deallocator # u /\ lock # u
    BY ThreadAssumption DEF Init
<1>6. deallocator = NoThread /\ ~freed /\ side = NoEntry /\ lock = NoThread
      /\ ~entry /\ location = "nil"
    BY DEF Init
<1>7. LockInv /\ OldInv
    BY <1>5 DEF LockInv, OldInv, LockedLabel
<1>8. IsaInv
  <2>1. Multiple(0)
    BY DEF Multiple
  <2> QED BY <1>3, <1>5, <1>6, <2>1 DEF IsaInv, SideLabel, NoEntry
<1>9. UseInv
    BY <1>5 DEF UseInv, ReleaseLabel, RetainLabel, ChangeIsaLabel, StoreWeakLabel
<1>10. ~Dying /\ ~Gone
    BY <1>5, <1>6 DEF Dying, Gone
<1>11. DyingInv
    BY <1>3, <1>5, <1>6, <1>10 DEF DyingInv, NoEntry
<1>12. WeakInv
    BY <1>5, <1>6, <1>10 DEF WeakInv
<1>13. Cardinality(Strong) = 1
  <2>1. Strong = {<<t, 1>>}
    BY <1>2, Constants DEF Strong
  <2> QED BY <2>1, FS_Singleton
<1>14. CountInv
    BY <1>3, <1>6, <1>10, <1>13 DEF CountInv, InFlight, NoEntry
<1> QED BY <1>4, <1>7, <1>8, <1>9, <1>11, <1>12, <1>14 DEF IInv

-----------------------------------------------------------------------------
(* The theorems *)

\* The inductive invariant holds throughout.
THEOREM Invariance == Spec => []IInv
<1>1. Init => IInv
    BY InvInit
<1>2. IInv /\ [Next]_vars => IInv'
  <2>1. ASSUME IInv, Next PROVE IInv'
    BY <2>1, InvStep DEF Next, Step
  <2> QED BY <2>1, InvStutter
<1> QED BY <1>1, <1>2, PTL DEF Spec

\* The deallocating bit, wherever it is, says that -dealloc has started.
LEMMA DeallocatingIsDying ==
    ASSUME IInv
    PROVE  Deallocating <=> Dying
<1> USE DEF IInv
<1>1. ASSUME NEW t \in Thread, pc[t] = "dl_free" PROVE Dying
    BY <1>1, ThreadAssumption DEF UseInv, Dying
<1>2. freed => Dying
    BY DEF Dying
<1>3. ASSUME NEW t \in Thread, pc[t] = "ci_move" PROVE lock = t /\ lock # NoThread
    BY <1>3, ThreadAssumption DEF LockInv, LockedLabel
<1>4. lock # NoThread => lock \in Thread
    BY DEF TypeOK
<1>5. CASE isa.nonpointer
    BY <1>1, <1>2, <1>4, <1>5 DEF Deallocating, DyingInv, IsaInv
<1>6. CASE ~isa.nonpointer /\ \E t \in Thread : pc[t] = "ci_move"
    BY <1>1, <1>2, <1>3, <1>4, <1>6 DEF Deallocating, DyingInv, IsaInv
<1>7. CASE ~isa.nonpointer /\ ~\E t \in Thread : pc[t] = "ci_move"
    BY <1>1, <1>2, <1>4, <1>7 DEF Deallocating, DyingInv, IsaInv, Gone
<1> QED BY <1>5, <1>6, <1>7 DEF TypeOK, IsaWord

\* Every variable keeps its type: the count in the isa word never leaves its
\* bit field and the one in the side table is never negative.
THEOREM TypeCorrect == Spec => []TypeOK
<1>1. IInv => TypeOK
    BY DEF IInv
<1> QED BY <1>1, Invariance, PTL

\* No retain and no release is lost or counted twice between the isa word and
\* the side table, for any number of threads and any width of extra_rc.
THEOREM Conservation == Spec => []CountConserved
<1>1. IInv => CountConserved
  <2> SUFFICES ASSUME IInv PROVE CountConserved
    OBVIOUS
  <2>1. Deallocating <=> Dying
    BY DeallocatingIsDying
  <2> QED BY <2>1 DEF IInv, CountInv, CountConserved
<1> QED BY <1>1, Invariance, PTL

\* What rootRetainCount computes under the side table lock is the number of
\* references there are.
THEOREM RetainCountIsExact == Spec => []RetainCountExact
<1>1. IInv => RetainCountExact
  <2> SUFFICES ASSUME IInv, lock = NoThread, ~freed PROVE RetainCountExact
    BY DEF RetainCountExact
  <2>1. Deallocating <=> Dying
    BY DeallocatingIsDying
  <2>2. InFlight = 0 /\ side.rc \in Nat /\ isa.extra_rc \in Nat
    BY DEF InFlight, IInv, TypeOK, SideWord, IsaWord
  <2>3. /\ ~isa.nonpointer => isa.extra_rc = 0
        /\ isa.nonpointer /\ ~isa.has_sidetable_rc => side.rc = 0
    BY DEF IInv, IsaInv
  <2>4. (IF Dying THEN 0 ELSE 1) + isa.extra_rc + side.rc = Cardinality(Strong)
    BY <2>2 DEF IInv, CountInv
  <2>5. rootRetainCount = 1 + side.rc + isa.extra_rc
    BY <2>2, <2>3 DEF rootRetainCount
  <2> QED BY <2>1, <2>2, <2>4, <2>5 DEF RetainCountExact
<1> QED BY <1>1, Invariance, PTL

\* The ASSERTs of the side table functions never fail, and no client that owns
\* what it releases reaches overrelease_error or the fatal weak store.
THEOREM AssertsHold == Spec => []RuntimeAsserts
<1>1. IInv => RuntimeAsserts
  <2> SUFFICES ASSUME IInv, NEW t \in Thread
               PROVE  /\ pc[t] \notin {"overreleased", "fatal"}
                      /\ pc[t] \in {"rt_add", "rl_borrow", "rl_putback"} =>
                             /\ isa.nonpointer
                             /\ ~side.deallocating /\ ~side.weakly_referenced
                      /\ pc[t] = "rl_borrow" /\ side.rc # 0 => side.rc >= RC_HALF
                      /\ pc[t] = "ci_move" =>
                             /\ ~isa.nonpointer
                             /\ ~side.deallocating /\ ~side.weakly_referenced
                      /\ pc[t] \in {"sd_retain", "sd_try", "sd_release"} =>
                             ~isa.nonpointer
    BY DEF RuntimeAsserts
  <2>1. UseInv /\ IsaInv /\ side.rc \in Nat
    BY DEF IInv, TypeOK, SideWord
  <2>2. pc[t] = "rl_borrow" /\ side.rc # 0 => side.rc >= RC_HALF
    BY <2>1, Halves DEF IsaInv, SideLabel
  <2> QED BY <2>1, <2>2 DEF UseInv, IsaInv, SideLabel
<1> QED BY <1>1, Invariance, PTL

\* Who does not run -dealloc, once it has started.
LEMMA OnlyDeallocatorUses ==
    ASSUME IInv, Dying, NEW t \in Thread, t # deallocator
    PROVE  /\ held[t] = 0
           /\ \/ pc[t] \in {"idle", "lw_read", "lw_lock",
                            "sw_read", "sw_lock", "sw_set"}
              \/ pc[t] \in {"rt_load", "rt_store", "sd_try"} /\ try[t]
<1>1. held[t] = 0 /\ pc[t] \in Label
    BY DEF IInv, DyingInv, TypeOK
<1>2. UseInv /\ LockInv /\ WeakInv
    BY DEF IInv
<1>3. pc[t] \notin ReleaseLabel \union ChangeIsaLabel \union
                   {"rt_add", "dealloc", "dl_clear", "dl_free", "overreleased", "fatal"}
    BY <1>1, <1>2 DEF UseInv
<1>4. pc[t] \in RetainLabel => try[t] /\ pc[t] \in {"rt_load", "rt_store", "sd_try"}
    BY <1>1, <1>2 DEF UseInv, LockInv, RetainLabel
<1>5. pc[t] \notin {"sw_load", "sw_store"}
    BY <1>1, <1>2 DEF UseInv, WeakInv, StoreWeakLabel
<1> QED
    BY <1>1, <1>3, <1>4, <1>5 DEF Label, ReleaseLabel, RetainLabel, ChangeIsaLabel

\* The last release was the last: once -dealloc starts, nobody but its thread
\* holds a reference or is inside a call that needs one.
THEOREM OnlyOneDeallocator == Spec => []OnlyDeallocatorHolds
<1>1. IInv => OnlyDeallocatorHolds
    BY DeallocatingIsDying, OnlyDeallocatorUses DEF OnlyDeallocatorHolds
<1> QED BY <1>1, Invariance, PTL

\* No thread touches the object's isa or its side table entry after the free.
THEOREM NoUseOfFreedMemory == Spec => []NoUseAfterFree
<1>1. IInv => NoUseAfterFree
  <2> SUFFICES ASSUME IInv, freed, NEW t \in Thread
               PROVE  pc[t] \in {"idle", "lw_read", "lw_lock",
                                 "sw_read", "sw_lock", "sw_set"}
    BY DEF NoUseAfterFree
  <2>1. Dying /\ Gone /\ deallocator # t /\ ~try[t]
    BY ThreadAssumption DEF IInv, Dying, Gone, DyingInv, WeakInv
  <2> QED BY <2>1, OnlyDeallocatorUses
<1> QED BY <1>1, Invariance, PTL

\* The side table entry, the weak table entry and the weak variable's value go
\* before the memory does: the assert(!sidetable_present()) of the source.
THEOREM NothingOutlivesTheObject == Spec => []NothingLeftBehind
<1>1. IInv => NothingLeftBehind
    BY DEF IInv, WeakInv, Gone, NothingLeftBehind
<1> QED BY <1>1, Invariance, PTL

\* The weak table, the weak variable and the mark agree whenever the lock is
\* free.
THEOREM WeakTableConsistent == Spec => []WeakConsistent
<1>1. IInv => WeakConsistent
  <2> SUFFICES ASSUME IInv, lock = NoThread
               PROVE  /\ entry <=> location = "obj"
                      /\ entry => isa.weakly_referenced \/ side.weakly_referenced
    BY DEF WeakConsistent
  <2>1. \A t \in Thread : pc[t] \notin LockedLabel
    BY ThreadAssumption DEF IInv, LockInv
  <2>2. entry <=> location = "obj"
    BY <2>1 DEF IInv, WeakInv, LockedLabel
  <2>3. location = "obj" => isa.weakly_referenced \/ side.weakly_referenced
    BY <2>1 DEF IInv, WeakInv, Marked, LockedLabel
  <2> QED BY <2>2, <2>3
<1> QED BY <1>1, Invariance, PTL

-----------------------------------------------------------------------------
(* RefCount.tla implements ObjectLifetime.tla: every step of every thread *)
(* is one operation of the abstract object, or changes nothing its clients *)
(* can see. *)

\* The phase of the abstract object.
Phase == IF freed THEN "freed" ELSE IF Deallocating THEN "deallocating" ELSE "alive"

\* The states the argument is about.
Good == IInv /\ (Deallocating <=> Dying)

\* Every state the invariant admits is one.
LEMMA GoodStates == IInv => Good
    BY DeallocatingIsDying DEF Good

-----------------------------------------------------------------------------
(* What each kind of step is to the abstract object *)

\* A step the clients do not see.
LEMMA Silent ==
    ASSUME Good, Good', held' = held, deallocator' = deallocator, freed' = freed,
           location' = location
    PROVE  UNCHANGED Lifetime!vars
<1>1. Dying' <=> Dying
    BY DEF Dying
<1>2. Deallocating' <=> Deallocating
    BY <1>1 DEF Good
<1> HIDE DEF Deallocating
<1> QED BY <1>2 DEF Lifetime!vars

\* The phase stays what it is when deallocator and freed do.
LEMMA SamePhase ==
    ASSUME Good, Good', deallocator' = deallocator, freed' = freed
    PROVE  /\ Phase' = Phase
           /\ Phase = IF freed THEN "freed"
                      ELSE IF Dying THEN "deallocating" ELSE "alive"
<1>1. Dying' <=> Dying
    BY DEF Dying
<1>2. (Deallocating' <=> Deallocating) /\ (Deallocating <=> Dying)
    BY <1>1 DEF Good
<1> QED BY <1>2 DEF Phase

\* A reference more, for a thread that may use the object, is a Retain.
LEMMA IsRetain ==
    ASSUME Good, Good', NEW t \in Thread, Gain(t), held[t] < MaxHeld,
           held[t] > 0 \/ deallocator = t, pc[t] # "dl_free",
           deallocator' = deallocator, freed' = freed, location' = location
    PROVE  Lifetime!Next
<1>1. ~freed /\ (Dying => deallocator = t)
    BY UserKeepsAlive DEF Good
<1>2. Phase' = Phase /\ (Phase = IF Dying THEN "deallocating" ELSE "alive")
    BY <1>1, SamePhase
<1>3. ~Dying => held[t] > 0
    BY ThreadAssumption DEF Dying
<1>4. Lifetime!Retain(t)
    BY <1>1, <1>2, <1>3 DEF Lifetime!Retain, Gain, Phase
<1> QED BY <1>4 DEF Lifetime!Next

\* A reference more, taken from the weak variable, is a LoadWeak.
LEMMA IsLoadWeak ==
    ASSUME Good, Good', NEW t \in Thread, Gain(t), held[t] < MaxHeld,
           ~Dying, location = "obj",
           deallocator' = deallocator, freed' = freed, location' = location
    PROVE  Lifetime!Next
<1>1. Phase' = Phase /\ Phase = "alive"
    BY SamePhase DEF Dying
<1>2. Lifetime!LoadWeak(t)
    BY <1>1 DEF Lifetime!LoadWeak, Gain, Phase
<1> QED BY <1>2 DEF Lifetime!Next

\* A reference less that leaves another one, or leaves -dealloc running, is a
\* Release.
LEMMA IsRelease ==
    ASSUME Good, Good', NEW t \in Thread, Lose(t), held[t] > 0, pc[t] # "dl_free",
           Dying \/ Cardinality(Strong) # 1,
           deallocator' = deallocator, freed' = freed, location' = location
    PROVE  Lifetime!Next
<1>1. ~freed
    BY UserKeepsAlive DEF Good
<1>2. Phase' = Phase /\ (Phase = IF Dying THEN "deallocating" ELSE "alive")
    BY <1>1, SamePhase
<1>3. ~Dying => Lifetime!Strong # {<<t, 1>>}
    BY FS_Singleton DEF Lifetime!Strong, Strong
<1>4. Lifetime!Release(t)
    BY <1>1, <1>2, <1>3 DEF Lifetime!Release, Lose, Phase
<1> QED BY <1>4 DEF Lifetime!Next

\* The only reference less is the LastRelease.
LEMMA IsLastRelease ==
    ASSUME Good, Good', NEW t \in Thread, Lose(t), held[t] = 1,
           \A u \in Thread \ {t} : held[u] = 0, ~Dying,
           deallocator' = t, freed' = freed, location' = location
    PROVE  Lifetime!Next
<1>1. Phase = "alive" /\ Phase' = "deallocating"
    BY ThreadAssumption DEF Phase, Good, Dying
<1>2. Lifetime!Strong = {<<t, 1>>}
  <2>1. held \in [Thread -> 0 .. MaxHeld] /\ 1 \in 1 .. MaxHeld
    BY Constants DEF Good, IInv, TypeOK
  <2> QED BY <2>1 DEF Lifetime!Strong
<1>3. Lifetime!LastRelease(t)
    BY <1>1, <1>2 DEF Lifetime!LastRelease, Lose, Phase
<1> QED BY <1>3 DEF Lifetime!Next

\* A new value of the weak variable is a StoreWeak.
LEMMA IsStoreWeak ==
    ASSUME Good, Good', location' \in Value, location' = "obj" => ~Dying,
           held' = held, deallocator' = deallocator, freed' = freed
    PROVE  Lifetime!Next
<1>1. Phase' = Phase /\ (~Dying => Phase = "alive")
    BY SamePhase DEF Dying
<1>2. Lifetime!StoreWeak(location')
    BY <1>1 DEF Lifetime!StoreWeak, Phase
<1> QED BY <1>2 DEF Lifetime!Next, Value

-----------------------------------------------------------------------------
(* Every step *)

\* A step of a thread is one operation of the abstract object, or a stutter.
LEMMA StepImplements ==
    ASSUME Good, Good', NEW t \in Thread, Step(t)
    PROVE  Lifetime!Next \/ UNCHANGED Lifetime!vars
<1> USE DEF Call, CallWith, Goto, Home, AtHome, CanUse, Return, Forget, Lock,
       Unlock, UnlockIfLocked, LoadExclusive, StoreExclusive, StoreFails,
       Retained, Released, StartDealloc, shared, weak, client, local
<1>0. /\ TypeOK /\ LockInv /\ OldInv /\ IsaInv /\ UseInv /\ DyingInv /\ WeakInv
      /\ CountInv
    BY DEF Good, IInv
<1>a. Cardinality(Strong) \in Nat /\ side.rc \in Nat /\ RC_HALF \in Nat \ {0}
    BY <1>0, StrongFinite, CountAssumption DEF TypeOK, SideWord
<1>1. CASE CallRetain(t)
    BY <1>1, Silent DEF CallRetain
<1>2. CASE CallRelease(t)
    BY <1>2, Silent DEF CallRelease
<1>3. CASE CallLoadWeak(t)
    BY <1>3, Silent DEF CallLoadWeak
<1>4. CASE \E c \in Class : CallChangeIsa(t, c)
    BY <1>4, Silent DEF CallChangeIsa
<1>5. CASE \E v \in Value, crash \in BOOLEAN : CallStoreWeak(t, v, crash)
    BY <1>5, Silent DEF CallStoreWeak
<1>6. CASE RetainLoad(t)
    BY <1>6, Silent DEF RetainLoad
<1>7. CASE RetainLock(t)
    BY <1>7, Silent DEF RetainLock
<1>8. CASE RetainAdd(t)
    BY <1>8, Silent DEF RetainAdd
<1>9. CASE ReleaseLoad(t)
    BY <1>9, Silent DEF ReleaseLoad
<1>10. CASE ReleaseLock(t)
    BY <1>10, Silent DEF ReleaseLock
<1>11. CASE ReleaseBorrow(t)
    BY <1>11, Silent DEF ReleaseBorrow
<1>12. CASE ReleaseBorrowLoad(t)
    BY <1>12, Silent DEF ReleaseBorrowLoad
<1>13. CASE ReleasePutBack(t)
    BY <1>13, Silent DEF ReleasePutBack
<1>14. CASE ChangeIsaLoad(t)
    BY <1>14, Silent DEF ChangeIsaLoad
<1>15. CASE ChangeIsaLock(t)
    BY <1>15, Silent DEF ChangeIsaLock
<1>16. CASE ChangeIsaStore(t)
    BY <1>16, Silent DEF ChangeIsaStore
<1>17. CASE ChangeIsaMove(t)
    BY <1>17, Silent DEF ChangeIsaMove
<1>18. CASE LoadWeakRead(t)
    BY <1>18, Silent DEF LoadWeakRead
<1>19. CASE LoadWeakLock(t)
    BY <1>19, Silent DEF LoadWeakLock
<1>20. CASE StoreWeakRead(t)
    BY <1>20, Silent DEF StoreWeakRead
<1>21. CASE StoreWeakLock(t)
    BY <1>21, Silent DEF StoreWeakLock
<1>22. CASE StoreWeakLoad(t)
    BY <1>22, Silent DEF StoreWeakLoad
<1>23. CASE StoreWeakStore(t)
    BY <1>23, Silent DEF StoreWeakStore
<1>24. CASE RootDealloc(t)
    BY <1>24, Silent DEF RootDealloc
<1>25. CASE \E u \in Thread : Pass(t, u)
  <2>1. PICK u \in Thread : Pass(t, u)
    BY <1>25
  <2>2. /\ t # u /\ held[t] > 0 /\ held[u] < MaxHeld
        /\ held' = [held EXCEPT ![t] = @ - 1, ![u] = @ + 1]
        /\ deallocator' = deallocator /\ freed' = freed /\ location' = location
        /\ deallocator = NoThread /\ pc[t] = "idle"
    BY <2>1 DEF Pass
  <2>3. ~freed /\ (Dying => deallocator = t)
    BY <2>2, UserKeepsAlive DEF Good
  <2>4. Phase' = Phase /\ Phase = "alive"
    BY <2>2, <2>3, SamePhase, ThreadAssumption
  <2>5. Lifetime!Pass(t, u)
    BY <2>2, <2>4 DEF Lifetime!Pass, Phase
  <2> QED BY <2>5 DEF Lifetime!Next
<1>26. CASE RetainStore(t)
  <2>1. CASE held' = held
    BY <1>26, <2>1, Silent DEF RetainStore, Carried
  <2>2. CASE held' # held
    <3>1. /\ pc[t] = "rt_store" /\ Gain(t) /\ held[t] < MaxHeld /\ isa = old[t]
          /\ deallocator' = deallocator /\ freed' = freed /\ location' = location
      BY <1>26, <1>0, <2>2 DEF RetainStore, Carried, UseInv, RetainLabel
    <3>2. CASE try[t]
      <4>1. ~Dying /\ location = "obj"
        BY <1>0, <3>1, <3>2 DEF OldInv, DyingInv, WeakInv
      <4> QED BY <3>1, <4>1, IsLoadWeak
    <3>3. CASE ~try[t]
      <4>1. held[t] > 0 \/ deallocator = t
        BY <1>0, <3>1, <3>3 DEF UseInv, RetainLabel
      <4> QED BY <3>1, <4>1, IsRetain
    <3> QED BY <3>2, <3>3
  <2> QED BY <2>1, <2>2
<1>27. CASE SidetableRetain(t)
  <2>1. /\ pc[t] = "sd_retain" /\ Gain(t) /\ held[t] < MaxHeld
        /\ held[t] > 0 \/ deallocator = t
        /\ deallocator' = deallocator /\ freed' = freed /\ location' = location
    BY <1>27, <1>0 DEF SidetableRetain, UseInv, LockInv, RetainLabel
  <2> QED BY <2>1, IsRetain
<1>28. CASE SidetableTryRetain(t)
  <2>1. CASE held' = held
    BY <1>28, <2>1, Silent DEF SidetableTryRetain
  <2>2. CASE held' # held
    <3>1. /\ pc[t] = "sd_try" /\ Gain(t) /\ held[t] < MaxHeld /\ ~side.deallocating
          /\ deallocator' = deallocator /\ freed' = freed /\ location' = location
      BY <1>28, <1>0, <2>2 DEF SidetableTryRetain, UseInv, RetainLabel
    <3>2. /\ try[t] /\ lock = t /\ ~isa.nonpointer /\ ~Gone /\ location = "obj"
          /\ \A u \in Thread : pc[u] # "ci_move"
      BY <1>0, <3>1 DEF LockInv, LockedLabel, IsaInv, WeakInv
    <3>3. ~Dying
      BY <1>0, <3>1, <3>2 DEF DyingInv
    <3> QED BY <3>1, <3>2, <3>3, IsLoadWeak
  <2> QED BY <2>1, <2>2
<1>29. CASE ReleaseStore(t)
  <2>1. CASE held' = held
    BY <1>29, <2>1, Silent DEF ReleaseStore
  <2>2. CASE held' # held
    <3>1. /\ pc[t] = "rl_store" /\ Lose(t) /\ held[t] > 0
          /\ isa = old[t]
          /\ deallocator' = deallocator /\ freed' = freed /\ location' = location
      BY <1>29, <1>0, <2>2 DEF ReleaseStore, UseInv, ReleaseLabel
    <3>2. InFlight \in Nat /\ isa.extra_rc \in Nat /\ isa.extra_rc + InFlight > 0
      BY <1>0, <1>a, <3>1, Constants DEF OldInv, TypeOK, IsaWord, InFlight, Moving
    <3>3. ~Dying => Cardinality(Strong) # 1
      BY <1>0, <1>a, <3>2 DEF CountInv
    <3> QED BY <3>1, <3>3, IsRelease
  <2> QED BY <2>1, <2>2
<1>30. CASE ReleaseBorrowStore(t)
  <2>1. CASE held' = held
    BY <1>30, <2>1, Silent DEF ReleaseBorrowStore
  <2>2. CASE held' # held
    <3>1. /\ pc[t] = "rl_bstore" /\ Lose(t) /\ held[t] > 0
          /\ isa = old[t]
          /\ deallocator' = deallocator /\ freed' = freed /\ location' = location
      BY <1>30, <1>0, <2>2 DEF ReleaseBorrowStore, UseInv, ReleaseLabel
    <3>2. InFlight \in Nat /\ isa.extra_rc \in Nat /\ isa.extra_rc + InFlight > 0
      BY <1>0, <1>a, <3>1, Constants, ThreadAssumption DEF OldInv, TypeOK, IsaWord, InFlight, Moving, LockInv, LockedLabel
    <3>3. ~Dying => Cardinality(Strong) # 1
      BY <1>0, <1>a, <3>2 DEF CountInv
    <3> QED BY <3>1, <3>3, IsRelease
  <2> QED BY <2>1, <2>2
<1>31. CASE ReleaseBorrowStore2(t)
  <2>1. CASE held' = held
    BY <1>31, <2>1, Silent DEF ReleaseBorrowStore2
  <2>2. CASE held' # held
    <3>1. /\ pc[t] = "rl_bstore2" /\ Lose(t) /\ held[t] > 0
          /\ isa = old[t]
          /\ deallocator' = deallocator /\ freed' = freed /\ location' = location
      BY <1>31, <1>0, <2>2 DEF ReleaseBorrowStore2, UseInv, ReleaseLabel
    <3>2. InFlight \in Nat /\ isa.extra_rc \in Nat /\ isa.extra_rc + InFlight > 0
      BY <1>0, <1>a, <3>1, Constants, ThreadAssumption DEF OldInv, TypeOK, IsaWord, InFlight, Moving, LockInv, LockedLabel
    <3>3. ~Dying => Cardinality(Strong) # 1
      BY <1>0, <1>a, <3>2 DEF CountInv
    <3> QED BY <3>1, <3>3, IsRelease
  <2> QED BY <2>1, <2>2
<1>32. CASE ReleaseDealloc(t)
  <2>1. CASE pc'[t] = "rl_load"
    <3>1. held' = held /\ deallocator' = deallocator /\ freed' = freed /\ location' = location
      BY <1>32, <1>0, <2>1 DEF ReleaseDealloc, TypeOK, Label
    <3> QED BY <3>1, Silent
  <2>2. CASE pc'[t] # "rl_load"
    <3>1. /\ Lose(t) /\ deallocator' = t /\ freed' = freed /\ location' = location
      BY <1>32, <1>0, <2>2 DEF ReleaseDealloc, OldInv, TypeOK
    <3>2. ~Dying /\ held[t] = 1 /\ \A u \in Thread \ {t} : held[u] = 0
      BY <1>32, <2>2, LastReference DEF Good
    <3> QED BY <3>1, <3>2, IsLastRelease
  <2> QED BY <2>1, <2>2
<1>33. CASE SidetableRelease(t)
  <2>1. CASE side.rc = 0
    <3>1. ~Dying /\ ~side.deallocating /\ held[t] = 1
          /\ \A u \in Thread \ {t} : held[u] = 0
      BY <1>33, <2>1, LastReferenceRaw DEF Good
    <3>2. /\ Lose(t) /\ deallocator' = t /\ freed' = freed /\ location' = location
      BY <1>33, <2>1, <3>1 DEF SidetableRelease
    <3> QED BY <3>1, <3>2, IsLastRelease
  <2>2. CASE side.rc > 0
    <3>1. /\ pc[t] = "sd_release" /\ Lose(t) /\ held[t] > 0 /\ lock = NoThread
          /\ deallocator' = deallocator /\ freed' = freed /\ location' = location
      BY <1>33, <1>0, <2>2 DEF SidetableRelease, UseInv, ReleaseLabel
    <3>2. InFlight = 0 /\ isa.extra_rc \in Nat
      BY <1>0, <3>1 DEF InFlight, TypeOK, IsaWord
    <3>3. ~Dying => Cardinality(Strong) # 1
      BY <1>0, <1>a, <2>2, <3>2 DEF CountInv
    <3> QED BY <3>1, <3>3, IsRelease
  <2> QED BY <1>a, <2>1, <2>2
<1>34. CASE StoreWeakSet(t)
  <2>1. /\ pc[t] = "sw_set" /\ location' = arg[t].new /\ arg[t].new \in Value
        /\ held' = held /\ deallocator' = deallocator /\ freed' = freed
    BY <1>34, <1>0 DEF StoreWeakSet, TypeOK, Arg
  <2>2. location' = "obj" => ~Dying
    BY <1>0, <2>1 DEF DyingInv
  <2> QED BY <2>1, <2>2, IsStoreWeak
<1>35. CASE ClearDeallocating(t)
  <2>1. /\ location' \in {location, "nil"} /\ held' = held
        /\ deallocator' = deallocator /\ freed' = freed
    BY <1>35 DEF ClearDeallocating, WeakClear
  <2>2. CASE location' = location
    BY <2>1, <2>2, Silent
  <2>3. CASE location' = "nil"
    BY <2>1, <2>3, IsStoreWeak DEF Value
  <2> QED BY <2>1, <2>2, <2>3
<1>36. CASE Free(t)
  <2>1. /\ pc[t] = "dl_free" /\ freed' /\ deallocator' = NoThread
        /\ held' = held /\ location' = location
    BY <1>36 DEF Free
  <2>2. /\ deallocator = t /\ held[t] = 0 /\ Gone /\ ~freed /\ Dying
    BY <1>0, <2>1, ThreadAssumption DEF UseInv, DyingInv, Gone, Dying
  <2>3. /\ location = "nil" /\ \A u \in Thread : held[u] = 0
    BY <1>0, <2>2 DEF WeakInv, DyingInv
  <2>4. Phase = "deallocating" /\ Phase' = "freed"
    BY <2>1, <2>2 DEF Phase, Good
  <2>5. Lifetime!Strong = {}
    BY <1>0, <2>3 DEF Lifetime!Strong, TypeOK
  <2>6. Lifetime!Free
    BY <2>1, <2>3, <2>4, <2>5 DEF Lifetime!Free, Phase
  <2> QED BY <2>6 DEF Lifetime!Next
<1> QED
    BY <1>1, <1>2, <1>3, <1>4, <1>5, <1>6, <1>7, <1>8, <1>9, <1>10, <1>11,
         <1>12, <1>13, <1>14, <1>15, <1>16, <1>17, <1>18, <1>19,
         <1>20, <1>21, <1>22, <1>23, <1>24, <1>25, <1>26, <1>27,
         <1>28, <1>29, <1>30, <1>31, <1>32, <1>33, <1>34, <1>35, <1>36
       DEF Step, ClientStep, RuntimeStep

\* The initial states are those of the abstract object.
LEMMA InitImplements ==
    ASSUME Init
    PROVE  Lifetime!Init
<1>1. IInv
    BY InvInit
<1>2. ~Deallocating /\ ~freed
  <2>1. ~Dying
    BY DEF Init, Dying
  <2> QED BY <1>1, <2>1, DeallocatingIsDying DEF Dying
<1> HIDE DEF Deallocating
<1> QED BY <1>2 DEF Init, Lifetime!Init

\* Whatever the threads do, their clients see the object ObjectLifetime.tla
\* describes.
THEOREM Refinement == Spec => ImplementsLifetime
<1>1. Init => Lifetime!Init
    BY InitImplements
<1>2. Good /\ Good' /\ [Next]_vars => [Lifetime!Next]_(Lifetime!vars)
  <2>1. ASSUME Good, Good', Next PROVE Lifetime!Next \/ UNCHANGED Lifetime!vars
    BY <2>1, StepImplements DEF Next, Step
  <2>2. ASSUME Good, Good', UNCHANGED vars PROVE UNCHANGED Lifetime!vars
    BY <2>2, Silent DEF vars, client, weak
  <2> QED BY <2>1, <2>2
<1>3. Spec => []Good
    BY Invariance, GoodStates, PTL
<1> QED BY <1>1, <1>2, <1>3, PTL DEF Spec, ImplementsLifetime, Lifetime!Spec
=============================================================================
