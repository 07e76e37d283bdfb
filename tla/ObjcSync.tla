------------------------------- MODULE ObjcSync -------------------------------
(***************************************************************************)
(* @synchronized: objc_sync_enter, objc_sync_try_enter and objc_sync_exit  *)
(* of objc-sync.mm, objc4-818.2.                                           *)
(*                                                                         *)
(* A SyncData is a recursive mutex lent to one object after another.  It   *)
(* is taken from a list under a spinlock, and found again in caches of the *)
(* thread without any lock; the count of its users, threadCount, is        *)
(* decremented outside the spinlock, before the mutex is unlocked.         *)
(*                                                                         *)
(* One of the parallel lists: all objects are in the same stripe.  A step  *)
(* is one access to a SyncData that other threads can see.                 *)
(***************************************************************************)
EXTENDS Integers, Sequences, FiniteSets

CONSTANTS
    Thread, Obj,
    NoThread,    \* the owner of an unlocked mutex
    Clients,     \* the manners of clients that are considered
    Nest,        \* <<o, p>>: a client that is in o may enter p
    MaxCount,    \* bound: lockCount, with each manner
    MaxUsers     \* bound: threadCount

ASSUME SyncAssumption ==
    /\ IsFiniteSet(Thread) /\ NoThread \notin Thread /\ Obj # {}
    /\ Clients \subseteq {"careful", "careless"} /\ Nest \subseteq Obj \X Obj
    /\ \A c \in Clients : MaxCount[c] \in Nat
    /\ MaxUsers \in Nat

VARIABLES
    client,  \* careless clients exit what they have not entered, and threads
             \* of theirs end with SyncData in their caches
    list,    \* the SyncData, the head of the list last
    spin,    \* the owner of the spinlock
    items,   \* items[t]: the fast cache and the SyncCache of t
    held,    \* held[t][o]: what t has entered and not yet begun to exit
    local    \* local[t]: where t is in a call, and the locals of id2data

vars == <<client, list, spin, items, held, local>>

SyncData == [object : Obj, threadCount : Nat, owner : Thread \union {NoThread}, depth : Nat]
SyncCacheItem == [data : Nat \ {0}, lockCount : Nat \ {0}, fast : BOOLEAN]

Local == [pc : {"idle", "id2data", "walk", "enter", "try_enter", "unlock", "fatal"},
          op : {"enter", "try_enter", "exit"}, object : Obj,
          p : Nat, firstUnused : Nat, data : Nat]

Idle == [pc |-> "idle", op |-> "exit", object |-> CHOOSE o \in Obj : TRUE,
         p |-> 0, firstUnused |-> 0, data |-> 0]

Init ==
    /\ client \in Clients
    /\ list = <<>>
    /\ spin = NoThread
    /\ items = [t \in Thread |-> {}]
    /\ held = [t \in Thread |-> [o \in Obj |-> 0]]
    /\ local = [t \in Thread |-> Idle]

At(t, label) == local[t].pc = label
Goto(t, label) == local' = [local EXCEPT ![t].pc = label]
Return(t) == local' = [local EXCEPT ![t] = Idle]

-----------------------------------------------------------------------------
(* Calls *)

Begin(t, op, o) ==
    /\ At(t, "idle")
    /\ local' = [local EXCEPT ![t].pc = "id2data", ![t].op = op, ![t].object = o]
    /\ UNCHANGED <<client, list, spin, items>>

CallEnter(t, o) ==
    /\ \E op \in {"enter", "try_enter"} : Begin(t, op, o)
    /\ \A i \in items[t] : list[i.data].object = o => i.lockCount < MaxCount[client]
    /\ \A p \in Obj \ {o} : held[t][p] > 0 => <<p, o>> \in Nest
    /\ UNCHANGED held

CallExit(t, o) ==
    /\ Begin(t, "exit", o)
    /\ held[t][o] > 0
    /\ held' = [held EXCEPT ![t][o] = @ - 1]

\* The error that id2data and tryUnlock are made to find.
CallExitUnowned(t, o) ==
    /\ Begin(t, "exit", o)
    /\ client = "careless" /\ held[t][o] = 0
    /\ \A n \in 1 .. Len(list) : list[n].threadCount < MaxUsers
    /\ UNCHANGED held

\* _destroySyncCache: the thread of an earlier failed try_enter ends.
ThreadExit(t) ==
    /\ At(t, "idle") /\ client = "careless"
    /\ \A o \in Obj : held[t][o] = 0
    /\ items[t] # {}
    /\ \A n \in 1 .. Len(list) : list[n].threadCount < MaxUsers
    /\ items' = [items EXCEPT ![t] = {}]
    /\ UNCHANGED <<client, list, spin, held, local>>

-----------------------------------------------------------------------------
(* id2data *)

Acquire(t) == local[t].op # "exit"
Matches(t) == {i \in items[t] : list[i.data].object = local[t].object}

\* id2data returns n, and the mutex comes next.
Found(t, n) ==
    local' = [local EXCEPT ![t] = [Idle EXCEPT !.pc = IF Acquire(t) THEN local[t].op ELSE "unlock",
                                               !.op = local[t].op, !.object = local[t].object,
                                               !.data = n]]

\* Mutant: the use of the SyncData is not given up.
ReleaseNoDecrement(t, i) ==
    /\ items' = [items EXCEPT ![t] = @ \ {i}]
    /\ UNCHANGED list

\* RELEASE of a cached SyncData.
Release(t, i) ==
    IF i.lockCount > 1
    THEN /\ items' = [items EXCEPT ![t] = (@ \ {i}) \union {[i EXCEPT !.lockCount = @ - 1]}]
         /\ UNCHANGED list
    ELSE \* remove from the cache
         /\ items' = [items EXCEPT ![t] = @ \ {i}]
         /\ list' = [list EXCEPT ![i.data].threadCount = @ - 1]

Hit(t) ==
    /\ At(t, "id2data")
    /\ \E i \in Matches(t) :
           \/ /\ list[i.data].threadCount <= 0
              /\ Goto(t, "fatal")
              /\ UNCHANGED <<items, list>>
           \/ /\ list[i.data].threadCount > 0 /\ ~Acquire(t)
              /\ Release(t, i)
              /\ Found(t, i.data)
           \/ /\ list[i.data].threadCount > 0 /\ Acquire(t)
              /\ items' = [items EXCEPT ![t] =
                              (@ \ {i}) \union {[i EXCEPT !.lockCount = @ + 1]}]
              /\ Found(t, i.data)
              /\ UNCHANGED list
    /\ UNCHANGED <<client, spin, held>>

\* Mutant: the list is walked without the spinlock.
MissUnlocked(t) ==
    /\ At(t, "id2data") /\ Matches(t) = {}
    /\ local' = [local EXCEPT ![t].pc = "walk", ![t].p = Len(list)]
    /\ UNCHANGED <<client, list, spin, items, held>>

Miss(t) ==
    /\ At(t, "id2data") /\ Matches(t) = {}
    /\ spin = NoThread
    /\ spin' = t
    /\ local' = [local EXCEPT ![t].pc = "walk", ![t].p = Len(list)]
    /\ UNCHANGED <<client, list, items, held>>

\* Unlock the list; only a new ACQUIRE keeps the SyncData, in the fast cache
\* when that is free.
Done(t, n) ==
    /\ spin' = NoThread
    /\ IF Acquire(t)
       THEN /\ items' = [items EXCEPT ![t] = @ \union
                   {[data |-> n, lockCount |-> 1, fast |-> \A i \in @ : ~i.fast]}]
            /\ Found(t, n)
       ELSE Return(t) /\ UNCHANGED items
    /\ UNCHANGED <<client, held>>

\* Mutant: a SyncData in use is taken for another object.
IsUnusedAlways(n) == TRUE

IsUnused(n) == list[n].threadCount = 0

WalkNext(t) ==
    /\ At(t, "walk") /\ local[t].p > 0
    /\ LET p == local[t].p
       IN  \/ /\ list[p].object = local[t].object
              /\ list' = [list EXCEPT ![p].threadCount = @ + 1]
              /\ Done(t, p)
           \/ /\ list[p].object # local[t].object
              /\ local' = [local EXCEPT ![t].p = p - 1, ![t].firstUnused =
                              IF @ = 0 /\ IsUnused(p) THEN p ELSE @]
              /\ UNCHANGED <<client, list, spin, items, held>>

\* No SyncData has the object.
WalkEnd(t) ==
    /\ At(t, "walk") /\ local[t].p = 0
    /\ LET n == local[t].firstUnused
       IN  \/ ~Acquire(t) /\ Done(t, 0) /\ UNCHANGED list
           \/ /\ Acquire(t) /\ n # 0
              /\ list' = [list EXCEPT ![n].object = local[t].object, ![n].threadCount = 1]
              /\ Done(t, n)
           \/ /\ Acquire(t) /\ n = 0
              /\ list' = Append(list, [object |-> local[t].object, threadCount |-> 1,
                                       owner |-> NoThread, depth |-> 0])
              /\ Done(t, Len(list) + 1)

-----------------------------------------------------------------------------
(* The mutex *)

Mutex(t) == list[local[t].data]
Free(t) == Mutex(t).owner \in {NoThread, t}

\* mutex.lock(), or tryLock() that succeeds.
Lock(t) ==
    /\ At(t, "enter") \/ At(t, "try_enter")
    /\ Free(t)
    /\ list' = [list EXCEPT ![local[t].data].owner = t, ![local[t].data].depth = @ + 1]
    /\ held' = [held EXCEPT ![t][local[t].object] = @ + 1]
    /\ Return(t)
    /\ UNCHANGED <<client, spin, items>>

TryLockFails(t) ==
    /\ At(t, "try_enter") /\ ~Free(t)
    /\ Return(t)
    /\ UNCHANGED <<client, list, spin, items, held>>

\* Mutants: any thread unlocks; only the exit that gives up the SyncData does.
TryUnlockAny(t) ==
    /\ At(t, "unlock")
    /\ list' = [list EXCEPT ![local[t].data].depth = @ - 1, ![local[t].data].owner = NoThread]
    /\ Return(t)
    /\ UNCHANGED <<client, spin, items, held>>
TryUnlockLast(t) ==
    /\ At(t, "unlock")
    /\ list' = IF Mutex(t).owner = t /\ Matches(t) = {}
               THEN [list EXCEPT ![local[t].data].owner = NoThread, ![local[t].data].depth = 0]
               ELSE list
    /\ Return(t)
    /\ UNCHANGED <<client, spin, items, held>>

\* tryUnlock fails for a thread that does not own the mutex.
TryUnlock(t) ==
    /\ At(t, "unlock")
    /\ list' = IF Mutex(t).owner # t THEN list
               ELSE [list EXCEPT ![local[t].data].depth = @ - 1,
                                 ![local[t].data].owner = IF Mutex(t).depth = 1 THEN NoThread ELSE t]
    /\ Return(t)
    /\ UNCHANGED <<client, spin, items, held>>

-----------------------------------------------------------------------------
(* Specification *)

Call(t) ==
    \/ \E o \in Obj : CallEnter(t, o) \/ CallExit(t, o) \/ CallExitUnowned(t, o)
    \/ ThreadExit(t)

Step(t) ==
    Hit(t) \/ Miss(t) \/ WalkNext(t) \/ WalkEnd(t) \/ Lock(t) \/ TryLockFails(t) \/ TryUnlock(t)

Next == \E t \in Thread : Call(t) \/ Step(t)

Spec == Init /\ [][Next]_vars

\* Threads run, and an @synchronized statement ends.  The mutex is unfair.
FairSpec ==
    /\ Spec
    /\ \A t \in Thread : WF_vars(Step(t)) /\ WF_vars(\E o \in Obj : CallExit(t, o))

-----------------------------------------------------------------------------
(* Properties *)

\* The type of every variable; threadCount is never negative.
TypeOK ==
    /\ client \in Clients
    /\ list \in Seq(SyncData)
    /\ spin \in Thread \union {NoThread}
    /\ items \in [Thread -> SUBSET SyncCacheItem]
    /\ held \in [Thread -> [Obj -> Nat]]
    /\ local \in [Thread -> Local]
    /\ \A t \in Thread : {local[t].p, local[t].firstUnused, local[t].data} \subseteq 0 .. Len(list)

Users(n) == {t \in Thread : \E i \in items[t] : i.data = n}

\* "Spinlock prevents multiple threads from creating multiple locks for the
\* same new object": two SyncData never have one object, nor does a thread
\* cache one SyncData twice; and a SyncData that a thread waits for, or that it
\* has entered, keeps its object, so id2data never finds its caches "buggy".
OneLockPerObject ==
    /\ \A m, n \in 1 .. Len(list) : list[m].object = list[n].object => m = n
    /\ \A t \in Thread : \A i, j \in items[t] : i.data = j.data => i = j
    /\ \A t \in Thread :
           /\ ~At(t, "fatal")
           /\ At(t, "enter") \/ At(t, "try_enter") => Mutex(t).object = local[t].object
           /\ \A o \in Obj : held[t][o] > 0 =>
                  \E i \in items[t] : list[i.data].object = o

\* threadCount is "number of THREADS using this block", of careful clients;
\* the others can only leave it too high.
UsersCounted ==
    \A n \in 1 .. Len(list) :
        /\ list[n].threadCount >= Cardinality(Users(n))
        /\ client = "careful" => list[n].threadCount = Cardinality(Users(n))

\* A thread waits in enter only for one that is in the object, or that exits it,
\* or that is about to unlock the SyncData, which had another object before.
BlockedByHolder ==
    \A t \in Thread :
        At(t, "enter") /\ ~Free(t) =>
            LET owner == Mutex(t).owner
            IN  \/ held[owner][local[t].object] > 0
                \/ At(owner, "id2data") /\ local[owner].object = local[t].object
                \/ At(owner, "unlock") /\ local[owner].data = local[t].data

Locks == INSTANCE RecursiveLocks WITH depth <- held

\* The lists, caches and shared mutexes implement one recursive lock an object.
ImplementsLocks == Locks!Spec

\* Once clients only leave what they have entered, every enter that waits gets
\* its lock and everything is unlocked; objects are nested in an order without
\* cycles.
EnterReturns ==
    <>[][\A t \in Thread, o \in Obj : ~(CallEnter(t, o) \/ CallExitUnowned(t, o))]_vars =>
        <>[](\A t \in Thread : At(t, "idle") /\ \A n \in 1 .. Len(list) : list[n].depth = 0)
=============================================================================
