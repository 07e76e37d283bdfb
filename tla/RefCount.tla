------------------------------ MODULE RefCount ------------------------------
(***************************************************************************)
(* Reference counting of one object: objc4-781, objc-object.h and          *)
(* NSObject.mm, the SUPPORT_NONPOINTER_ISA build.                          *)
(*                                                                         *)
(* The count lives in two places.  The isa word holds extra_rc, updated    *)
(* without a lock by a LoadExclusive / StoreExclusive pair; when extra_rc  *)
(* overflows, half of it moves to a side table guarded by a lock, and when *)
(* it underflows, half comes back.  changeIsa may turn the isa into a raw  *)
(* class pointer, after which the whole count is in the side table.  A     *)
(* __weak variable that refers to the object may be stored, loaded and     *)
(* cleared meanwhile, under the same lock.                                 *)
(*                                                                         *)
(* One step is one access to shared memory, or one critical section that   *)
(* touches nothing but data the side table lock guards.                    *)
(***************************************************************************)
EXTENDS Integers, FiniteSets

CONSTANTS
    Thread,          \* the threads that use the object
    NoThread,        \* nobody: the lock is free, -dealloc does not run
    Class,           \* the classes the object may have
    RawClass,        \* those whose instances require a raw isa
    RC_HALF,         \* half the range of extra_rc
    MaxHeld,         \* bound: references one thread owns at a time
    SpuriousFailure  \* StoreExclusive may fail although the word is unchanged

ASSUME ThreadAssumption == IsFiniteSet(Thread) /\ NoThread \notin Thread
ASSUME ClassAssumption == RawClass \subseteq Class /\ Class # {}
ASSUME CountAssumption == RC_HALF \in Nat \ {0} /\ MaxHeld \in Nat \ {0}
ASSUME FailureAssumption == SpuriousFailure \in BOOLEAN

VARIABLES
    isa,          \* the isa word
    side,         \* the object's entry of SideTable.refcnts
    lock,         \* the thread that holds the SideTable's lock
    entry,        \* the weak table has an entry for the object
    location,     \* the __weak variable: "nil" or "obj"
    held,         \* held[t]: strong references thread t owns
    deallocator,  \* the thread that runs -dealloc
    freed,        \* the object's memory has been freed
    pc,           \* pc[t]: where thread t is
    old,          \* old[t]: the isa word t loaded last (oldisa)
    handle,       \* handle[t]: handleOverflow or handleUnderflow
    try,          \* try[t]: tryRetain
    arg           \* arg[t]: the arguments of the call t makes

shared == <<isa, side, lock>>
weak   == <<entry, location>>
client == <<held, deallocator, freed>>
local  == <<pc, old, handle, try, arg>>
vars   == <<shared, weak, client, local>>

-----------------------------------------------------------------------------
(* Data *)

\* extra_rc is a bit field that RC_HALF splits in two halves.
RC_MAX == 2 * RC_HALF - 1

IsaWord == [cls : Class, nonpointer : BOOLEAN, weakly_referenced : BOOLEAN,
            deallocating : BOOLEAN, has_sidetable_rc : BOOLEAN,
            extra_rc : 0 .. RC_MAX]

\* isa_t(cls) as initIsa and changeIsa write it: no count and no flag.
NewIsa(c, nonpointer) ==
    [cls |-> c, nonpointer |-> nonpointer, weakly_referenced |-> FALSE,
     deallocating |-> FALSE, has_sidetable_rc |-> FALSE, extra_rc |-> 0]

FreshIsa(c) == NewIsa(c, c \notin RawClass)
RawIsa(c)   == NewIsa(c, FALSE)

\* The bits of a side table word.  An absent entry and a zero word are one
\* value: every reader outside debug builds treats them alike, and the map
\* purges zeros.
SideWord == [rc : Nat, deallocating : BOOLEAN, weakly_referenced : BOOLEAN]

NoEntry == [rc |-> 0, deallocating |-> FALSE, weakly_referenced |-> FALSE]

\* What a thread's locals hold between calls.
NoIsa == RawIsa(CHOOSE c \in Class : TRUE)
Value == {"nil", "obj"}
Arg   == [cls : Class, new : Value, seen : Value, crash : BOOLEAN]
NoArg == [cls |-> NoIsa.cls, new |-> "nil", seen |-> "nil", crash |-> FALSE]

\* The strong references that exist, one pair per reference.
Strong == {p \in Thread \X (1 .. MaxHeld) : p[2] <= held[p[1]]}

-----------------------------------------------------------------------------
(* Control *)

Goto(t, label) == pc' = [pc EXCEPT ![t] = label]

\* Between two calls a thread is "idle", or in the body of -dealloc.
Home(t) == IF deallocator = t THEN "dealloc" ELSE "idle"
AtHome(t) == pc[t] = Home(t)

\* The locals of the call die with it.
Forget(t) ==
    /\ old' = [old EXCEPT ![t] = NoIsa]
    /\ handle' = [handle EXCEPT ![t] = FALSE]
    /\ try' = [try EXCEPT ![t] = FALSE]
    /\ arg' = [arg EXCEPT ![t] = NoArg]

Return(t) == Goto(t, Home(t)) /\ Forget(t)

Lock(t)   == lock = NoThread /\ lock' = t
Unlock(t) == lock' = NoThread

\* Mutant: a return path that forgets the lock.
UnlockForgotten(t) == UNCHANGED lock

\* sideTableLocked of rootRetain, rootRelease and changeIsa is lock = t: the
\* flag and the lock always change together.
UnlockIfLocked(t) == lock' = IF lock = t THEN NoThread ELSE lock

LoadExclusive(t) == old' = [old EXCEPT ![t] = isa]

\* compare_exchange_weak on the isa word; the failure of a store-conditional
\* needs no change of the word when SpuriousFailure holds.
StoreExclusive(t, new) == isa = old[t] /\ isa' = new
StoreFails(t) == (isa # old[t] \/ SpuriousFailure) /\ UNCHANGED isa

\* References one thread may hand to the runtime: its own, or self in -dealloc.
CanUse(t) == AtHome(t) /\ (held[t] > 0 \/ deallocator = t)

Gain(t) == held' = [held EXCEPT ![t] = @ + 1]
Lose(t) == held' = [held EXCEPT ![t] = @ - 1]

-----------------------------------------------------------------------------
(* Calls the clients make *)

Init ==
    /\ \E c \in Class : isa = FreshIsa(c)
    /\ side = NoEntry
    /\ lock = NoThread
    /\ entry = FALSE
    /\ location = "nil"
    /\ \E t \in Thread : held = [u \in Thread |-> IF u = t THEN 1 ELSE 0]
    /\ deallocator = NoThread
    /\ freed = FALSE
    /\ pc = [t \in Thread |-> "idle"]
    /\ old = [t \in Thread |-> NoIsa]
    /\ handle = [t \in Thread |-> FALSE]
    /\ try = [t \in Thread |-> FALSE]
    /\ arg = [t \in Thread |-> NoArg]

Call(t, label) ==
    /\ Goto(t, label)
    /\ UNCHANGED <<shared, weak, client, old, handle, try, arg>>

CallWith(t, label, a) ==
    /\ Goto(t, label)
    /\ arg' = [arg EXCEPT ![t] = a]
    /\ UNCHANGED <<shared, weak, client, old, handle, try>>

CallRetain(t) == CanUse(t) /\ held[t] < MaxHeld /\ Call(t, "rt_load")

CallRelease(t) == AtHome(t) /\ held[t] > 0 /\ Call(t, "rl_load")

CallChangeIsa(t, c) ==
    CanUse(t) /\ CallWith(t, "ci_load", [NoArg EXCEPT !.cls = c])

\* Anybody who can name the variable may load it, or store nil in it.
CallLoadWeak(t) == AtHome(t) /\ held[t] < MaxHeld /\ Call(t, "lw_read")

\* objc_storeWeak (crash) or objc_storeWeakOrNil.  The documentation forbids
\* the first on self in -dealloc.
CallStoreWeak(t, v, crash) ==
    /\ AtHome(t)
    /\ v = "obj" => CanUse(t) /\ (crash => deallocator # t)
    /\ CallWith(t, "sw_read", [NoArg EXCEPT !.new = v, !.crash = crash])

\* One thread hands a reference over to another.
Pass(t, u) ==
    /\ t # u
    /\ deallocator = NoThread
    /\ pc[t] = "idle" /\ pc[u] = "idle"
    /\ held[t] > 0 /\ held[u] < MaxHeld
    /\ held' = [held EXCEPT ![t] = @ - 1, ![u] = @ + 1]
    /\ UNCHANGED <<shared, weak, deallocator, freed, local>>

-----------------------------------------------------------------------------
(* rootRetain(tryRetain, handleOverflow).  A try retain runs inside         *)
(* objc_loadWeakRetained, which holds the lock and releases it.             *)

\* The end of a successful retain, and the end of the weak load around it.
Retained(t) == Gain(t) /\ UnlockIfLocked(t) /\ Return(t)

RetainLoad(t) ==
    /\ pc[t] = "rt_load"
    /\ UNCHANGED <<isa, side, weak, client>>
    /\ \/ \* a raw isa: the whole count is in the side table
          /\ ~isa.nonpointer
          /\ LoadExclusive(t)
          /\ Goto(t, IF try[t] THEN "sd_try" ELSE "sd_retain")
          /\ IF try[t] THEN UNCHANGED lock ELSE UnlockIfLocked(t)
          /\ UNCHANGED <<handle, try, arg>>
       \/ \* too late: the weak load returns nil
          /\ isa.nonpointer /\ try[t] /\ isa.deallocating
          /\ Unlock(t)
          /\ Return(t)
       \/ \* extra_rc++ does not carry
          /\ isa.nonpointer /\ ~(try[t] /\ isa.deallocating)
          /\ isa.extra_rc < RC_MAX
          /\ LoadExclusive(t)
          /\ Goto(t, "rt_store")
          /\ UNCHANGED <<lock, handle, try, arg>>
       \/ \* it carries: rootRetain_overflow starts again, ready for it
          /\ isa.nonpointer /\ ~(try[t] /\ isa.deallocating)
          /\ isa.extra_rc = RC_MAX /\ ~handle[t]
          /\ handle' = [handle EXCEPT ![t] = TRUE]
          /\ UNCHANGED <<lock, pc, old, try, arg>>
       \/ \* it carries, and the other half will go to the side table
          /\ isa.nonpointer /\ ~(try[t] /\ isa.deallocating)
          /\ isa.extra_rc = RC_MAX /\ handle[t]
          /\ LoadExclusive(t)
          /\ Goto(t, IF try[t] \/ lock = t THEN "rt_store" ELSE "rt_lock")
          /\ UNCHANGED <<lock, handle, try, arg>>

\* The lock is taken after the load and kept when the store fails.
RetainLock(t) ==
    /\ pc[t] = "rt_lock"
    /\ Lock(t)
    /\ Goto(t, "rt_store")
    /\ UNCHANGED <<isa, side, weak, client, old, handle, try, arg>>

\* Mutant: the carry out of extra_rc is not looked at.
RetainStoreNoCarry(t) ==
    /\ pc[t] = "rt_store"
    /\ UNCHANGED <<side, weak, deallocator, freed>>
    /\ \/ StoreExclusive(t, [old[t] EXCEPT !.extra_rc = @ + 1]) /\ Retained(t)
       \/ /\ StoreFails(t)
          /\ Goto(t, "rt_load")
          /\ UNCHANGED <<lock, held, old, handle, try, arg>>

\* Mutant: the isa word does not tell of the side table.
CarriedUnflagged(w) == [w EXCEPT !.extra_rc = RC_HALF]

\* "Leave half of the retain counts inline": the other half goes to the side table.
Carried(w) == [w EXCEPT !.extra_rc = RC_HALF, !.has_sidetable_rc = TRUE]

RetainStore(t) ==
    /\ pc[t] = "rt_store"
    /\ UNCHANGED <<side, weak, deallocator, freed>>
    /\ \/ /\ old[t].extra_rc < RC_MAX
          /\ StoreExclusive(t, [old[t] EXCEPT !.extra_rc = @ + 1])
          /\ Retained(t)
       \/ /\ old[t].extra_rc = RC_MAX
          /\ StoreExclusive(t, Carried(old[t]))
          /\ Gain(t)
          /\ Goto(t, "rt_add")
          /\ UNCHANGED <<lock, old, handle, try, arg>>
       \/ /\ StoreFails(t)
          /\ Goto(t, "rt_load")
          /\ UNCHANGED <<lock, held, old, handle, try, arg>>

\* sidetable_addExtraRC_nolock(RC_HALF)
RetainAdd(t) ==
    /\ pc[t] = "rt_add"
    /\ side' = [side EXCEPT !.rc = @ + RC_HALF]
    /\ UnlockIfLocked(t)
    /\ Return(t)
    /\ UNCHANGED <<isa, weak, client>>

\* sidetable_retain
SidetableRetain(t) ==
    /\ pc[t] = "sd_retain"
    /\ lock = NoThread
    /\ side' = [side EXCEPT !.rc = @ + 1]
    /\ Gain(t)
    /\ Return(t)
    /\ UNCHANGED <<isa, lock, weak, deallocator, freed>>

\* Mutant: the deallocating bit is not looked at.
SidetableTryRetainUnchecked(t) ==
    /\ pc[t] = "sd_try"
    /\ side' = [side EXCEPT !.rc = @ + 1]
    /\ Gain(t) /\ Unlock(t) /\ Return(t)
    /\ UNCHANGED <<isa, weak, deallocator, freed>>

\* sidetable_tryRetain, under the lock of the weak load
SidetableTryRetain(t) ==
    /\ pc[t] = "sd_try"
    /\ \/ side.deallocating /\ UNCHANGED <<side, held>>
       \/ ~side.deallocating /\ side' = [side EXCEPT !.rc = @ + 1] /\ Gain(t)
    /\ Unlock(t)
    /\ Return(t)
    /\ UNCHANGED <<isa, weak, deallocator, freed>>

-----------------------------------------------------------------------------
(* rootRelease(performDealloc = true, handleUnderflow) *)

Released(t) == Lose(t) /\ UnlockIfLocked(t) /\ Return(t)

\* Mutant: -dealloc is not called.
StartDeallocForgotten(t) == Lose(t) /\ Return(t) /\ UNCHANGED deallocator

\* The last release: -dealloc starts, on this thread.
StartDealloc(t) ==
    /\ Lose(t)
    /\ deallocator' = t
    /\ Goto(t, "dealloc")
    /\ Forget(t)

ReleaseLoad(t) ==
    /\ pc[t] = "rl_load"
    /\ UNCHANGED <<isa, side, weak, client, try, arg>>
    /\ \/ /\ ~isa.nonpointer
          /\ LoadExclusive(t)
          /\ Goto(t, "sd_release")
          /\ UnlockIfLocked(t)
          /\ UNCHANGED handle
       \/ \* extra_rc-- does not borrow
          /\ isa.nonpointer /\ isa.extra_rc > 0
          /\ LoadExclusive(t)
          /\ Goto(t, "rl_store")
          /\ UNCHANGED <<lock, handle>>
       \/ \* it borrows: rootRelease_underflow starts again
          /\ isa.nonpointer /\ isa.extra_rc = 0
          /\ isa.has_sidetable_rc /\ ~handle[t]
          /\ handle' = [handle EXCEPT ![t] = TRUE]
          /\ UNCHANGED <<lock, pc, old>>
       \/ \* it borrows: with the lock from the side table, without it retry
          /\ isa.nonpointer /\ isa.extra_rc = 0
          /\ isa.has_sidetable_rc /\ handle[t]
          /\ LoadExclusive(t)
          /\ Goto(t, IF lock = t THEN "rl_borrow" ELSE "rl_lock")
          /\ UNCHANGED <<lock, handle>>
       \/ \* nothing to borrow
          /\ isa.nonpointer /\ isa.extra_rc = 0 /\ ~isa.has_sidetable_rc
          /\ LoadExclusive(t)
          /\ Goto(t, "rl_dealloc")
          /\ UNCHANGED <<lock, handle>>

ReleaseStore(t) ==
    /\ pc[t] = "rl_store"
    /\ UNCHANGED <<side, weak, deallocator, freed>>
    /\ \/ /\ StoreExclusive(t, [old[t] EXCEPT !.extra_rc = @ - 1])
          /\ Released(t)
       \/ /\ StoreFails(t)
          /\ Goto(t, "rl_load")
          /\ UNCHANGED <<lock, held, old, handle, try, arg>>

\* Start over with the lock, to avoid a race against changeIsa.
ReleaseLock(t) ==
    /\ pc[t] = "rl_lock"
    /\ Lock(t)
    /\ Goto(t, "rl_load")
    /\ UNCHANGED <<isa, side, weak, client, old, handle, try, arg>>

\* sidetable_subExtraRC_nolock(RC_HALF); the label says what was borrowed.
ReleaseBorrow(t) ==
    /\ pc[t] = "rl_borrow"
    /\ \/ side.rc = 0 /\ Goto(t, "rl_dealloc") /\ UNCHANGED side
       \/ /\ side.rc # 0
          /\ side' = [side EXCEPT !.rc = @ - RC_HALF]
          /\ Goto(t, "rl_bstore")
    /\ UNCHANGED <<isa, lock, weak, client, old, handle, try, arg>>

\* Inline what was borrowed, less the reference released.
ReleaseBorrowStore(t) ==
    /\ pc[t] = "rl_bstore"
    /\ UNCHANGED <<side, weak, deallocator, freed>>
    /\ \/ /\ StoreExclusive(t, [old[t] EXCEPT !.extra_rc = RC_HALF - 1])
          /\ Released(t)
       \/ /\ StoreFails(t)
          /\ Goto(t, "rl_bload")
          /\ UNCHANGED <<lock, held, old, handle, try, arg>>

\* oldisa2: try again right now, when there is room inline.
ReleaseBorrowLoad(t) ==
    /\ pc[t] = "rl_bload"
    /\ LoadExclusive(t)
    /\ Goto(t, IF isa.nonpointer /\ isa.extra_rc + RC_HALF - 1 <= RC_MAX
               THEN "rl_bstore2" ELSE "rl_putback")
    /\ UNCHANGED <<shared, weak, client, handle, try, arg>>

ReleaseBorrowStore2(t) ==
    /\ pc[t] = "rl_bstore2"
    /\ UNCHANGED <<side, weak, deallocator, freed>>
    /\ \/ /\ StoreExclusive(t, [old[t] EXCEPT !.extra_rc = @ + RC_HALF - 1])
          /\ Released(t)
       \/ /\ StoreFails(t)
          /\ Goto(t, "rl_putback")
          /\ UNCHANGED <<lock, held, old, handle, try, arg>>

\* Mutant: the borrowed retains are not put back.
ReleasePutBackForgotten(t) ==
    /\ pc[t] = "rl_putback"
    /\ Goto(t, "rl_load")
    /\ UNCHANGED <<shared, weak, client, old, handle, try, arg>>

\* Put the retains back in the side table and start over.
ReleasePutBack(t) ==
    /\ pc[t] = "rl_putback"
    /\ side' = [side EXCEPT !.rc = @ + RC_HALF]
    /\ Goto(t, "rl_load")
    /\ UNCHANGED <<isa, lock, weak, client, old, handle, try, arg>>

\* Really deallocate.
ReleaseDealloc(t) ==
    /\ pc[t] = "rl_dealloc"
    /\ UNCHANGED <<side, weak, freed>>
    /\ \/ \* overrelease_error
          /\ old[t].deallocating
          /\ Goto(t, "overreleased")
          /\ UnlockIfLocked(t)
          /\ UNCHANGED <<isa, held, deallocator, old, handle, try, arg>>
       \/ /\ ~old[t].deallocating
          /\ StoreExclusive(t, [old[t] EXCEPT !.deallocating = TRUE])
          /\ UnlockIfLocked(t)
          /\ StartDealloc(t)
       \/ /\ ~old[t].deallocating
          /\ StoreFails(t)
          /\ Goto(t, "rl_load")
          /\ UNCHANGED <<lock, held, deallocator, old, handle, try, arg>>

\* sidetable_release.  A count of zero below a set deallocating bit would wrap.
SidetableRelease(t) ==
    /\ pc[t] = "sd_release"
    /\ lock = NoThread
    /\ \/ /\ side.rc = 0 /\ ~side.deallocating
          /\ side' = [side EXCEPT !.deallocating = TRUE]
          /\ StartDealloc(t)
       \/ /\ side.rc > 0
          /\ side' = [side EXCEPT !.rc = @ - 1]
          /\ Lose(t)
          /\ Return(t)
          /\ UNCHANGED deallocator
       \/ /\ side.rc = 0 /\ side.deallocating
          /\ Goto(t, "overreleased")
          /\ UNCHANGED <<side, held, deallocator, old, handle, try, arg>>
    /\ UNCHANGED <<isa, lock, weak, freed>>

-----------------------------------------------------------------------------
(* changeIsa(newCls) *)

ToRaw(t) == arg[t].cls \in RawClass

\* Mutant: changeIsa does not take the lock.
ChangeIsaLoadUnlocked(t) ==
    /\ pc[t] = "ci_load"
    /\ LoadExclusive(t)
    /\ Goto(t, "ci_store")
    /\ UNCHANGED <<shared, weak, client, handle, try, arg>>

ChangeIsaLoad(t) ==
    /\ pc[t] = "ci_load"
    /\ LoadExclusive(t)
    /\ Goto(t, IF isa.nonpointer /\ ToRaw(t) /\ lock # t
               THEN "ci_lock" ELSE "ci_store")
    /\ UNCHANGED <<shared, weak, client, handle, try, arg>>

\* The lock comes before the store, to prevent races with -release.
ChangeIsaLock(t) ==
    /\ pc[t] = "ci_lock"
    /\ Lock(t)
    /\ Goto(t, "ci_store")
    /\ UNCHANGED <<isa, side, weak, client, old, handle, try, arg>>

ChangeIsaStore(t) ==
    /\ pc[t] = "ci_store"
    /\ UNCHANGED <<side, weak, client>>
    /\ \/ \* nonpointer -> nonpointer
          /\ old[t].nonpointer /\ ~ToRaw(t)
          /\ StoreExclusive(t, [old[t] EXCEPT !.cls = arg[t].cls])
          /\ UnlockIfLocked(t)
          /\ Return(t)
       \/ \* nonpointer -> raw: the count is in neither place for a moment
          /\ old[t].nonpointer /\ ToRaw(t)
          /\ StoreExclusive(t, RawIsa(arg[t].cls))
          /\ Goto(t, "ci_move")
          /\ UNCHANGED <<lock, old, handle, try, arg>>
       \/ \* raw -> raw
          /\ ~old[t].nonpointer
          /\ StoreExclusive(t, RawIsa(arg[t].cls))
          /\ UnlockIfLocked(t)
          /\ Return(t)
       \/ /\ StoreFails(t)
          /\ Goto(t, "ci_load")
          /\ UNCHANGED <<lock, old, handle, try, arg>>

\* sidetable_moveExtraRC_nolock
ChangeIsaMove(t) ==
    /\ pc[t] = "ci_move"
    /\ side' = [rc |-> side.rc + old[t].extra_rc,
                deallocating |-> side.deallocating \/ old[t].deallocating,
                weakly_referenced |->
                    side.weakly_referenced \/ old[t].weakly_referenced]
    /\ UnlockIfLocked(t)
    /\ Return(t)
    /\ UNCHANGED <<isa, weak, client>>

-----------------------------------------------------------------------------
(* objc_loadWeakRetained and storeWeak.  nil and the object share a stripe  *)
(* of SideTables, so lockTwo takes one lock; WeakRefs.tla has two.          *)

LoadWeakRead(t) ==
    /\ pc[t] = "lw_read"
    /\ Goto(t, IF location = "nil" THEN Home(t) ELSE "lw_lock")
    /\ UNCHANGED <<shared, weak, client, old, handle, try, arg>>

\* Mutant: the variable is not read again under the lock.
LoadWeakLockUnchecked(t) ==
    /\ pc[t] = "lw_lock"
    /\ Lock(t)
    /\ Goto(t, "rt_load")
    /\ try' = [try EXCEPT ![t] = TRUE]
    /\ UNCHANGED <<isa, side, weak, client, old, handle, arg>>

\* Under the lock: retry if the variable has changed, else rootTryRetain.
LoadWeakLock(t) ==
    /\ pc[t] = "lw_lock"
    /\ lock = NoThread
    /\ \/ /\ location = "nil"
          /\ Goto(t, "lw_read")
          /\ UNCHANGED <<lock, try>>
       \/ /\ location = "obj"
          /\ Lock(t)
          /\ Goto(t, "rt_load")
          /\ try' = [try EXCEPT ![t] = TRUE]
    /\ UNCHANGED <<isa, side, weak, client, old, handle, arg>>

StoreWeakRead(t) ==
    /\ pc[t] = "sw_read"
    /\ arg' = [arg EXCEPT ![t].seen = location]
    /\ Goto(t, "sw_lock")
    /\ UNCHANGED <<shared, weak, client, old, handle, try>>

\* rootIsDeallocating, under the lock
IsDeallocating == IF isa.nonpointer THEN isa.deallocating ELSE side.deallocating

\* Under the lock: retry if the variable has changed, else unregister the old
\* value and register the new one, which weak_register_no_lock may refuse.
StoreWeakLock(t) ==
    /\ pc[t] = "sw_lock"
    /\ lock = NoThread
    /\ UNCHANGED <<isa, side, location, client, old, handle, try>>
    /\ \/ /\ location # arg[t].seen
          /\ Goto(t, "sw_read")
          /\ UNCHANGED <<lock, entry, arg>>
       \/ /\ location = arg[t].seen
          /\ Lock(t)
          /\ \/ /\ arg[t].new = "nil"
                /\ entry' = (entry /\ arg[t].seen = "nil")
                /\ Goto(t, "sw_set")
                /\ UNCHANGED arg
             \/ /\ arg[t].new = "obj" /\ ~IsDeallocating
                /\ entry' = TRUE
                /\ Goto(t, "sw_load")
                /\ UNCHANGED arg
             \/ /\ arg[t].new = "obj" /\ IsDeallocating
                /\ entry' = (entry /\ arg[t].seen = "nil")
                /\ Goto(t, IF arg[t].crash THEN "fatal" ELSE "sw_set")
                /\ arg' = [arg EXCEPT ![t].new = "nil"]

\* setWeaklyReferenced_nolock
StoreWeakLoad(t) ==
    /\ pc[t] = "sw_load"
    /\ \/ /\ ~isa.nonpointer
          /\ side' = [side EXCEPT !.weakly_referenced = TRUE]
          /\ Goto(t, "sw_set")
          /\ UNCHANGED old
       \/ /\ isa.nonpointer /\ isa.weakly_referenced
          /\ Goto(t, "sw_set")
          /\ UNCHANGED <<side, old>>
       \/ /\ isa.nonpointer /\ ~isa.weakly_referenced
          /\ LoadExclusive(t)
          /\ Goto(t, "sw_store")
          /\ UNCHANGED side
    /\ UNCHANGED <<isa, lock, weak, client, handle, try, arg>>

\* Mutant: setWeaklyReferenced_nolock does not retry.
StoreWeakStoreOnce(t) ==
    /\ pc[t] = "sw_store"
    /\ StoreExclusive(t, [old[t] EXCEPT !.weakly_referenced = TRUE]) \/ StoreFails(t)
    /\ Goto(t, "sw_set")
    /\ UNCHANGED <<side, lock, weak, client, old, handle, try, arg>>

StoreWeakStore(t) ==
    /\ pc[t] = "sw_store"
    /\ \/ /\ StoreExclusive(t, [old[t] EXCEPT !.weakly_referenced = TRUE])
          /\ Goto(t, "sw_set")
       \/ StoreFails(t) /\ Goto(t, "sw_load")
    /\ UNCHANGED <<side, lock, weak, client, old, handle, try, arg>>

StoreWeakSet(t) ==
    /\ pc[t] = "sw_set"
    /\ location' = arg[t].new
    /\ Unlock(t)
    /\ Return(t)
    /\ UNCHANGED <<isa, side, entry, client>>

-----------------------------------------------------------------------------
(* [super dealloc]: rootDealloc, and clearDeallocating in object_dispose *)

\* Mutant: the fast path does not look at weakly_referenced.
RootDeallocFast(t) ==
    /\ pc[t] = "dealloc" /\ deallocator = t
    /\ held[t] = 0
    /\ Goto(t, IF isa.nonpointer /\ ~isa.has_sidetable_rc THEN "dl_free" ELSE "dl_clear")
    /\ UNCHANGED <<shared, weak, client, old, handle, try, arg>>

\* -dealloc has balanced its own retains.
RootDealloc(t) ==
    /\ pc[t] = "dealloc" /\ deallocator = t
    /\ held[t] = 0
    /\ Goto(t, IF isa.nonpointer /\ ~isa.weakly_referenced /\ ~isa.has_sidetable_rc
               THEN "dl_free" ELSE "dl_clear")
    /\ UNCHANGED <<shared, weak, client, old, handle, try, arg>>

\* Mutant: the variable is not zeroed.
WeakClearEntryOnly == entry' = FALSE /\ UNCHANGED location

\* weak_clear_no_lock zeroes the variable and removes the entry.
WeakClear == entry' = FALSE /\ location' = IF entry THEN "nil" ELSE location

\* sidetable_clearDeallocating, or clearDeallocating_slow
ClearDeallocating(t) ==
    /\ pc[t] = "dl_clear"
    /\ lock = NoThread
    /\ IF isa.nonpointer
       THEN /\ IF isa.weakly_referenced THEN WeakClear ELSE UNCHANGED weak
            /\ side' = IF isa.has_sidetable_rc THEN NoEntry ELSE side
       ELSE /\ IF side.weakly_referenced THEN WeakClear ELSE UNCHANGED weak
            /\ side' = NoEntry
    /\ Goto(t, "dl_free")
    /\ UNCHANGED <<isa, lock, client, old, handle, try, arg>>

Free(t) ==
    /\ pc[t] = "dl_free"
    /\ freed' = TRUE
    /\ deallocator' = NoThread
    /\ Goto(t, "idle")
    /\ UNCHANGED <<shared, weak, held, old, handle, try, arg>>

-----------------------------------------------------------------------------
(* Specification *)

\* What a client decides to call, and what the runtime does about it.
ClientStep(t) ==
    \/ CallRetain(t) \/ CallRelease(t) \/ CallLoadWeak(t)
    \/ \E c \in Class : CallChangeIsa(t, c)
    \/ \E v \in Value, crash \in BOOLEAN : CallStoreWeak(t, v, crash)
    \/ \E u \in Thread : Pass(t, u)

RuntimeStep(t) ==
    \/ RetainLoad(t) \/ RetainLock(t) \/ RetainStore(t) \/ RetainAdd(t)
    \/ SidetableRetain(t) \/ SidetableTryRetain(t)
    \/ ReleaseLoad(t) \/ ReleaseStore(t) \/ ReleaseLock(t) \/ ReleaseBorrow(t)
    \/ ReleaseBorrowStore(t) \/ ReleaseBorrowLoad(t) \/ ReleaseBorrowStore2(t)
    \/ ReleasePutBack(t) \/ ReleaseDealloc(t) \/ SidetableRelease(t)
    \/ ChangeIsaLoad(t) \/ ChangeIsaLock(t) \/ ChangeIsaStore(t) \/ ChangeIsaMove(t)
    \/ LoadWeakRead(t) \/ LoadWeakLock(t)
    \/ StoreWeakRead(t) \/ StoreWeakLock(t) \/ StoreWeakLoad(t)
    \/ StoreWeakStore(t) \/ StoreWeakSet(t)
    \/ ClearDeallocating(t) \/ Free(t)

Next == \E t \in Thread : ClientStep(t) \/ RuntimeStep(t) \/ RootDealloc(t)

Spec == Init /\ [][Next]_vars

\* A thread inside the runtime is never stopped for ever, and -dealloc ends.
FairSpec ==
    /\ Spec
    /\ \A t \in Thread : WF_vars(RuntimeStep(t))
    /\ \A t \in Thread : WF_vars(RootDealloc(t))
-----------------------------------------------------------------------------
(* Properties *)

Label ==
    {"idle", "dealloc", "rt_load", "rt_lock", "rt_store", "rt_add",
     "sd_retain", "sd_try", "rl_load", "rl_store", "rl_lock", "rl_borrow",
     "rl_bstore", "rl_bload", "rl_bstore2", "rl_putback", "rl_dealloc",
     "sd_release", "overreleased", "ci_load", "ci_lock", "ci_store", "ci_move",
     "lw_read", "lw_lock", "sw_read", "sw_lock", "sw_load", "sw_store",
     "sw_set", "fatal", "dl_clear", "dl_free"}

\* The type of every variable.
TypeOK ==
    /\ isa \in IsaWord
    /\ side \in SideWord
    /\ lock \in Thread \union {NoThread}
    /\ entry \in BOOLEAN
    /\ location \in Value
    /\ held \in [Thread -> 0 .. MaxHeld]
    /\ deallocator \in Thread \union {NoThread}
    /\ freed \in BOOLEAN
    /\ pc \in [Thread -> Label]
    /\ old \in [Thread -> IsaWord]
    /\ handle \in [Thread -> BOOLEAN]
    /\ try \in [Thread -> BOOLEAN]
    /\ arg \in [Thread -> Arg]

\* Retain counts on their way between the isa word and the side table: only
\* the holder of the lock moves any.
Moving(t) ==
    IF pc[t] \in {"rt_add", "rl_bstore", "rl_bload", "rl_bstore2", "rl_putback"}
    THEN RC_HALF
    ELSE IF pc[t] = "ci_move" THEN old[t].extra_rc ELSE 0

InFlight == IF lock = NoThread THEN 0 ELSE Moving(lock)

\* The object is being deallocated, wherever the bit is kept at the moment; the
\* bit of a raw isa goes with its side table entry, just before the memory.
Deallocating ==
    \/ isa.deallocating
    \/ side.deallocating
    \/ lock # NoThread /\ pc[lock] = "ci_move" /\ old[lock].deallocating
    \/ \E t \in Thread : pc[t] = "dl_free"
    \/ freed

\* rootRetainCount and sidetable_retainCount, as the lock lets them read it: the
\* side table of a nonpointer isa is asked only if the isa word says so.
rootRetainCount ==
    LET inline == IF isa.nonpointer THEN isa.extra_rc ELSE 0
        extra == IF isa.nonpointer /\ ~isa.has_sidetable_rc THEN 0 ELSE side.rc
    IN  1 + inline + extra

\* No retain and no release is ever lost or counted twice: the isa word, the
\* side table and what is on its way between them add up to the references
\* that exist, whatever the interleaving of overflow, underflow, failed
\* stores, try retains and changeIsa.
CountConserved ==
    (IF Deallocating THEN 0 ELSE 1) + isa.extra_rc + side.rc + InFlight
        = Cardinality(Strong)

\* What rootRetainCount returns under the lock is exact (the deallocating
\* object counts one more): whenever the lock is free, has_sidetable_rc is set if
\* any of the count of a nonpointer isa is in the side table.
RetainCountExact ==
    lock = NoThread /\ ~freed =>
        rootRetainCount = Cardinality(Strong) + IF Deallocating THEN 1 ELSE 0

\* The ASSERTs of the side table functions hold whenever a thread gets there
\* (sidetable_{add,sub,move}ExtraRC_nolock and the raw isa paths), and clients
\* that own what they release never see overrelease_error, nor the fatal error
\* of a weak store to a deallocating object.
RuntimeAsserts ==
    \A t \in Thread :
        /\ pc[t] \notin {"overreleased", "fatal"}
        /\ pc[t] \in {"rt_add", "rl_borrow", "rl_putback"} =>
               /\ isa.nonpointer
               /\ ~side.deallocating /\ ~side.weakly_referenced
        /\ pc[t] = "rl_borrow" /\ side.rc # 0 => side.rc >= RC_HALF
        /\ pc[t] = "ci_move" =>
               /\ ~isa.nonpointer
               /\ ~side.deallocating /\ ~side.weakly_referenced
        /\ pc[t] \in {"sd_retain", "sd_try", "sd_release"} => ~isa.nonpointer

\* Once -dealloc starts nobody but the thread that runs it holds a reference,
\* or is inside a retain, release or changeIsa (a try retain may still find
\* out): the last release really was the last, and a weak load brings nothing
\* back.
OnlyDeallocatorHolds ==
    Deallocating =>
        \A t \in Thread \ {deallocator} :
            /\ held[t] = 0
            /\ \/ pc[t] \in {"idle", "lw_read", "lw_lock",
                             "sw_read", "sw_lock", "sw_set"}
               \/ pc[t] \in {"rt_load", "rt_store", "sd_try"} /\ try[t]

\* No thread reads the object's isa or writes its side table entry once the
\* memory is freed, a thread in the middle of a weak load included.
NoUseAfterFree ==
    freed => \A t \in Thread :
        pc[t] \in {"idle", "lw_read", "lw_lock", "sw_read", "sw_lock", "sw_set"}

\* What assert(!sidetable_present()) of rootDealloc and clearDeallocating is
\* for: no count or flag of the object outlives it in the side table, the weak
\* table has no entry for it, and the weak variable has been zeroed.
NothingLeftBehind ==
    freed \/ (\E t \in Thread : pc[t] = "dl_free") =>
        side = NoEntry /\ ~entry /\ location = "nil"

\* Between critical sections the weak table has an entry exactly when the
\* variable refers to the object, and the object is marked weakly referenced.
WeakConsistent ==
    lock = NoThread =>
        /\ entry <=> location = "obj"
        /\ entry => isa.weakly_referenced \/ side.weakly_referenced

Lifetime == INSTANCE ObjectLifetime WITH
    phase <- IF freed THEN "freed"
             ELSE IF Deallocating THEN "deallocating" ELSE "alive"

\* The promise of ObjectLifetime.tla, kept by every interleaving.
ImplementsLifetime == Lifetime!Spec

\* The clients make no more calls from some moment on.  The liveness
\* properties assume it: the lock is not fair, and a client that goes on
\* storing to the weak variable may starve another.
ClientsStop == <>[][\A t \in Thread : ~ClientStep(t)]_vars

\* Every call returns: no lock is left held, no two threads wait for each
\* other, no compare-and-swap loop runs for ever.
CallsReturn ==
    ClientsStop => <>[](\A t \in Thread : AtHome(t))

\* An object nobody refers to any more is freed.
DroppedIsFreed ==
    ClientsStop => <>[](Strong = {} => freed)
=============================================================================
