---------------------------- MODULE ObjcSyncProofs ----------------------------
(***************************************************************************)
(* Safety of ObjcSync.tla for any finite set of threads, any objects and   *)
(* either manner of clients: the inductive invariant IInv, a lemma for     *)
(* every action that says it preserves IInv, the theorems that follow, and *)
(* the refinement of RecursiveLocks.                                       *)
(* A SyncData in a cache is in use, so it is not lent to another object    *)
(* (UsersCounted, ObjectInv); what is entered is cached, at least as often *)
(* (HeldInv); and a mutex is as deep as its owner's entries, and the one   *)
(* it is about to unlock (OwnerInv): the exit that gives up the SyncData   *)
(* first may find it lent again, but finds it still locked, by itself.     *)
(***************************************************************************)
EXTENDS ObjcSync, SequenceTheorems, FiniteSetTheorems, TLAPS

-----------------------------------------------------------------------------
(* The inductive invariant *)

\* The SyncData, as indices of the list.
Node == 1 .. Len(list)

\* Of a call that has come to a mutex, which; no call finds the caches buggy; and
\* a mutex that is owned is entered.
NodeInv ==
    /\ \A t \in Thread : \A i \in items[t] : i.data \in Node
    /\ \A t \in Thread :
           /\ At(t, "enter") \/ At(t, "try_enter") \/ At(t, "unlock") => local[t].data # 0
           /\ ~At(t, "fatal")
           /\ ~At(t, "walk") => local[t].firstUnused = 0
    /\ \A n \in Node : list[n].owner = NoThread <=> list[n].depth = 0

\* A walk goes on under the spinlock; nothing it passed has its object, and what
\* it will reuse is unused.  Careful clients always find what they exit.
WalkInv ==
    \A t \in Thread :
        /\ At(t, "walk") =>
               /\ spin = t
               /\ Matches(t) = {}
               /\ \A n \in Node : n > local[t].p => list[n].object # local[t].object
               /\ local[t].firstUnused # 0 => list[local[t].firstUnused].threadCount = 0
               /\ client = "careful" => Acquire(t)
        /\ At(t, "id2data") /\ client = "careful" /\ ~Acquire(t) => Matches(t) # {}

\* One SyncData for an object, cached once.
ObjectInv ==
    /\ \A m, n \in Node : list[m].object = list[n].object => m = n
    /\ \A t \in Thread : \A i, j \in items[t] : i.data = j.data => i = j

\* What is entered, or about to be, is cached, and counted often enough.
HeldInv ==
    \A t \in Thread :
        /\ \A o \in Obj : held[t][o] > 0 =>
               \E i \in items[t] : /\ list[i.data].object = o /\ i.lockCount >= held[t][o]
                                   /\ list[i.data].owner = t
        /\ At(t, "enter") \/ At(t, "try_enter") =>
               /\ Mutex(t).object = local[t].object
               /\ \E i \in items[t] : i.data = local[t].data
                                      /\ i.lockCount > held[t][local[t].object]

\* u unlocks n, or is about to look for n in its caches.
Unlocks(u, n) == At(u, "unlock") /\ local[u].data = n
Exits(u, n) == At(u, "id2data") /\ ~Acquire(u) /\ local[u].object = list[n].object

\* The depth of a mutex: what its owner has entered, and what it is unlocking.
OwnerInv ==
    \A n \in Node, u \in Thread : list[n].owner = u =>
        /\ Unlocks(u, n) => list[n].depth = held[u][list[n].object] + 1
        /\ Exits(u, n) => /\ list[n].depth = held[u][list[n].object] + 1
                          /\ \E i \in items[u] : i.data = n /\ i.lockCount > held[u][list[n].object]
        /\ ~Unlocks(u, n) /\ ~Exits(u, n) => list[n].depth = held[u][list[n].object]

\* All of it.
IInv ==
    /\ TypeOK /\ NodeInv /\ WalkInv /\ ObjectInv /\ UsersCounted /\ HeldInv /\ OwnerInv

-----------------------------------------------------------------------------
(* What steps do *)

\* A SyncData is replaced.
LEMMA ExceptList ==
    ASSUME list \in Seq(SyncData), NEW n \in Node, NEW d \in SyncData, list' = [list EXCEPT ![n] = d]
    PROVE  /\ list' \in Seq(SyncData) /\ Node' = Node
           /\ list'[n] = d /\ \A m \in Node \ {n} : list'[m] = list[m]
BY ExceptSeq DEF Node

\* The SyncData of the list.
LEMMA NodeType ==
    ASSUME TypeOK
    PROVE  /\ \A n \in Node : list[n] \in SyncData
           /\ Len(list) \in Nat /\ Node \subseteq Nat
BY DEF TypeOK, Node


\* A call begins.
LEMMA BeginEffect ==
    ASSUME TypeOK, NEW t \in Thread, NEW op \in {"enter", "try_enter", "exit"}, NEW o \in Obj, Begin(t, op, o)
    PROVE  /\ local[t].pc = "idle"
           /\ local' \in [Thread -> Local]
           /\ \A u \in Thread \ {t} : local'[u] = local[u]
           /\ local'[t].pc = "id2data" /\ local'[t].op = op /\ local'[t].object = o
           /\ local'[t].p = local[t].p /\ local'[t].firstUnused = local[t].firstUnused
           /\ local'[t].data = local[t].data
           /\ client' = client /\ list' = list /\ spin' = spin /\ items' = items
           /\ \A u \in Thread : {local'[u].p, local'[u].firstUnused, local'[u].data} \subseteq 0 .. Len(list')
<1>1. local[t] \in Local /\ local \in [Thread -> Local]
  BY DEF TypeOK
<1>2. local' = [local EXCEPT ![t] = [[[local[t] EXCEPT !.pc = "id2data"] EXCEPT !.op = op] EXCEPT !.object = o]]
  BY <1>1 DEF Begin, Local
<1> DEFINE new == [[[local[t] EXCEPT !.pc = "id2data"] EXCEPT !.op = op] EXCEPT !.object = o]
<1>3. /\ new \in Local
      /\ new.pc = "id2data" /\ new.op = op /\ new.object = o
      /\ new.p = local[t].p /\ new.firstUnused = local[t].firstUnused /\ new.data = local[t].data
  BY <1>1 DEF Local
<1>4. /\ local' = [local EXCEPT ![t] = new]
      /\ local[t].pc = "idle" /\ client' = client /\ list' = list /\ spin' = spin /\ items' = items
  BY <1>2 DEF Begin, new, At
<1> HIDE DEF new
<1>5. local' \in [Thread -> Local] /\ local'[t] = new /\ \A u \in Thread \ {t} : local'[u] = local[u]
  BY <1>1, <1>3, <1>4
<1>6. {local'[t].p, local'[t].firstUnused, local'[t].data} \subseteq 0 .. Len(list')
  BY <1>3, <1>4, <1>5 DEF TypeOK
<1>7. \A u \in Thread : {local'[u].p, local'[u].firstUnused, local'[u].data} \subseteq 0 .. Len(list')
  BY <1>4, <1>5, <1>6 DEF TypeOK
<1> QED BY <1>3, <1>4, <1>5, <1>7

\* Where id2data leaves the thread when it has found n.
LEMMA FoundType ==
    ASSUME TypeOK, NEW t \in Thread, NEW n \in Nat \ {0}, Found(t, n)
    PROVE  /\ local' \in [Thread -> Local]
           /\ \A u \in Thread \ {t} : local'[u] = local[u]
           /\ local'[t].pc = (IF Acquire(t) THEN local[t].op ELSE "unlock")
           /\ local'[t].op = local[t].op /\ local'[t].object = local[t].object
           /\ local'[t].p = 0 /\ local'[t].firstUnused = 0 /\ local'[t].data = n
BY DEF Found, TypeOK, Local, Idle, Acquire

\* The items of a cache are of SyncData of the list.
LEMMA ItemType ==
    ASSUME TypeOK, NodeInv, NEW t \in Thread, NEW i \in items[t]
    PROVE  /\ i \in SyncCacheItem /\ i.data \in Node /\ i.lockCount \in Nat \ {0}
           /\ list[i.data] \in SyncData
<1>1. i \in SyncCacheItem
  BY DEF TypeOK
<1>2. i.data \in Node
  BY DEF NodeInv
<1> QED BY <1>1, <1>2, NodeType DEF SyncCacheItem

\* Where a call leaves the thread when it returns.
LEMMA ReturnEffect ==
    ASSUME TypeOK, NEW t \in Thread, Return(t)
    PROVE  /\ local' \in [Thread -> Local]
           /\ \A u \in Thread \ {t} : local'[u] = local[u]
           /\ local'[t].pc = "idle" /\ local'[t].p = 0 /\ local'[t].firstUnused = 0 /\ local'[t].data = 0
BY SyncAssumption DEF Return, TypeOK, Local, Idle

-----------------------------------------------------------------------------
(* Calls *)

\* Of objc_sync_enter and objc_sync_try_enter, the call.
LEMMA CallEnterStep ==
    ASSUME IInv, NEW t \in Thread, NEW o \in Obj, CallEnter(t, o)
    PROVE  IInv'
<1>1. PICK op \in {"enter", "try_enter"} : Begin(t, op, o)
  BY DEF CallEnter
<1>2. /\ local[t].pc = "idle" /\ local' \in [Thread -> Local]
      /\ \A u \in Thread \ {t} : local'[u] = local[u]
      /\ local'[t].pc = "id2data" /\ local'[t].op # "exit"
      /\ local'[t].p = local[t].p /\ local'[t].firstUnused = local[t].firstUnused
      /\ local'[t].data = local[t].data
      /\ UNCHANGED <<client, list, spin, items, held>>
  BY <1>1, BeginEffect DEF IInv, CallEnter
<1>3. TypeOK'
  BY <1>2 DEF IInv, TypeOK
<1>8. NodeInv'
  BY <1>2 DEF IInv, NodeInv, Node, At
<1>4. WalkInv'
  BY <1>2 DEF IInv, WalkInv, Node, At, Matches, Acquire
<1>5. ObjectInv' /\ UsersCounted'
  BY <1>2 DEF IInv, ObjectInv, UsersCounted, Users, Node
<1>6. HeldInv'
  BY <1>2 DEF IInv, HeldInv, At, Mutex
<1>7. OwnerInv'
  BY <1>2 DEF IInv, OwnerInv, Node, Unlocks, Exits, At, Acquire
<1> QED BY <1>3, <1>4, <1>5, <1>6, <1>7, <1>8 DEF IInv

\* Of objc_sync_exit, the call, by a thread that has entered: its item is counted
\* once more than it is held from now on.
LEMMA CallExitStep ==
    ASSUME IInv, NEW t \in Thread, NEW o \in Obj, CallExit(t, o)
    PROVE  IInv'
<1>1. /\ local[t].pc = "idle" /\ local' \in [Thread -> Local]
      /\ \A u \in Thread \ {t} : local'[u] = local[u]
      /\ local'[t].pc = "id2data" /\ local'[t].op = "exit" /\ local'[t].object = o
      /\ local'[t].p = local[t].p /\ local'[t].firstUnused = local[t].firstUnused
      /\ local'[t].data = local[t].data
      /\ UNCHANGED <<client, list, spin, items>>
  BY BeginEffect DEF IInv, CallExit
<1>2. /\ held[t][o] \in Nat /\ held[t][o] > 0
      /\ held' \in [Thread -> [Obj -> Nat]] /\ held'[t][o] = held[t][o] - 1
      /\ \A u \in Thread, p \in Obj : u # t \/ p # o => held'[u][p] = held[u][p]
  BY DEF IInv, TypeOK, CallExit
<1>3. PICK i \in items[t] : /\ list[i.data].object = o /\ i.lockCount >= held[t][o]
                            /\ list[i.data].owner = t
  BY <1>2 DEF IInv, HeldInv
<1>4. TypeOK'
  BY <1>1, <1>2, BeginEffect DEF IInv, TypeOK, CallExit
<1>9. NodeInv'
  BY <1>1 DEF IInv, NodeInv, Node, At
<1>5. WalkInv'
  BY <1>1, <1>3 DEF IInv, WalkInv, Node, At, Matches, Acquire
<1>6. ObjectInv' /\ UsersCounted'
  BY <1>1 DEF IInv, ObjectInv, UsersCounted, Users, Node
<1>7. HeldInv'
  <2>1. ASSUME NEW u \in Thread, NEW p \in Obj, held'[u][p] > 0
        PROVE  \E j \in items[u] : /\ list[j.data].object = p /\ j.lockCount >= held'[u][p]
                                    /\ list[j.data].owner = u
    <3>1. CASE u = t /\ p = o
      BY <1>2, <1>3, <3>1, ItemType DEF IInv
    <3>2. CASE u # t \/ p # o
      BY <1>2, <2>1, <3>2 DEF IInv, HeldInv
    <3> QED BY <3>1, <3>2
  <2>2. \A u \in Thread : At(u, "enter")' \/ At(u, "try_enter")' =>
            u # t /\ (At(u, "enter") \/ At(u, "try_enter")) /\ local[u].object \in Obj
    BY <1>1 DEF At, IInv, TypeOK, Local
  <2> QED BY <1>1, <1>2, <2>1, <2>2 DEF IInv, HeldInv, Mutex
<1>8. OwnerInv'
  <2> SUFFICES ASSUME NEW n \in Node, NEW u \in Thread, list[n].owner = u
               PROVE  /\ Unlocks(u, n)' => list[n].depth = held'[u][list[n].object] + 1
                      /\ Exits(u, n)' =>
                             /\ list[n].depth = held'[u][list[n].object] + 1
                             /\ \E j \in items[u] : j.data = n /\ j.lockCount > held'[u][list[n].object]
                      /\ ~Unlocks(u, n)' /\ ~Exits(u, n)' => list[n].depth = held'[u][list[n].object]
    BY <1>1 DEF OwnerInv, Node
  <2>0. list[n].object \in Obj /\ i.data \in Node /\ i.lockCount \in Nat
    BY NodeType, ItemType DEF IInv, SyncData
  <2>1. CASE u # t
    BY <1>1, <1>2, <2>0, <2>1 DEF IInv, OwnerInv, Unlocks, Exits, At, Acquire
  <2>2. CASE u = t /\ list[n].object # o
    BY <1>1, <1>2, <2>0, <2>2 DEF IInv, OwnerInv, Unlocks, Exits, At, Acquire
  <2>3. CASE u = t /\ list[n].object = o
    <3>1. i.data = n
      BY <1>3, <2>0, <2>3 DEF IInv, ObjectInv
    <3>2. list[n].depth = held[t][o]
      BY <1>1, <2>3 DEF IInv, OwnerInv, Unlocks, Exits, At
    <3> QED BY <1>1, <1>2, <1>3, <2>0, <2>3, <3>1, <3>2 DEF Unlocks, Exits, At, Acquire
  <2> QED BY <2>1, <2>2, <2>3
<1> QED BY <1>4, <1>5, <1>6, <1>7, <1>8, <1>9 DEF IInv

\* The same by one that has not: it owns no mutex of the object.
LEMMA CallExitUnownedStep ==
    ASSUME IInv, NEW t \in Thread, NEW o \in Obj, CallExitUnowned(t, o)
    PROVE  IInv'
<1>1. /\ local[t].pc = "idle" /\ local' \in [Thread -> Local]
      /\ \A u \in Thread \ {t} : local'[u] = local[u]
      /\ local'[t].pc = "id2data" /\ local'[t].op = "exit" /\ local'[t].object = o
      /\ local'[t].p = local[t].p /\ local'[t].firstUnused = local[t].firstUnused
      /\ local'[t].data = local[t].data
      /\ UNCHANGED <<client, list, spin, items, held>> /\ client = "careless" /\ held[t][o] = 0
  BY BeginEffect DEF IInv, CallExitUnowned
<1>2. TypeOK'
  BY <1>1, BeginEffect DEF IInv, TypeOK, CallExitUnowned
<1>8. NodeInv'
  BY <1>1 DEF IInv, NodeInv, Node, At
<1>3. WalkInv'
  BY <1>1 DEF IInv, WalkInv, Node, At, Matches, Acquire
<1>4. ObjectInv' /\ UsersCounted'
  BY <1>1 DEF IInv, ObjectInv, UsersCounted, Users, Node
<1>5. HeldInv'
  BY <1>1 DEF IInv, HeldInv, At, Mutex
<1>6. \A n \in Node : list[n].owner = t => list[n].object # o
  \* Its depth would be zero.
  <2> SUFFICES ASSUME NEW n \in Node, list[n].owner = t, list[n].object = o PROVE FALSE
    OBVIOUS
  <2>1. list[n].depth = held[t][o]
    BY <1>1 DEF IInv, OwnerInv, Unlocks, Exits, At
  <2> QED BY <1>1, <2>1, SyncAssumption DEF IInv, NodeInv
<1>7. OwnerInv'
  BY <1>1, <1>6 DEF IInv, OwnerInv, Node, Unlocks, Exits, At, Acquire
<1> QED BY <1>2, <1>3, <1>4, <1>5, <1>7, <1>8 DEF IInv

\* Users are counted.
LEMMA UsersFinite ==
    \A n \in Nat : IsFiniteSet(Users(n)) /\ Cardinality(Users(n)) \in Nat
BY FS_Subset, FS_CardinalityType, SyncAssumption DEF Users

\* The end of a thread only leaves counts too high.
LEMMA ThreadExitStep ==
    ASSUME IInv, NEW t \in Thread, ThreadExit(t)
    PROVE  IInv'
<1>1. /\ local[t].pc = "idle" /\ client = "careless" /\ \A o \in Obj : held[t][o] = 0
      /\ UNCHANGED <<client, list, spin, held, local>>
      /\ items' \in [Thread -> SUBSET SyncCacheItem] /\ items'[t] = {}
      /\ \A u \in Thread \ {t} : items'[u] = items[u]
  BY DEF IInv, TypeOK, ThreadExit, At
<1>2. TypeOK'
  BY <1>1 DEF IInv, TypeOK
<1>3. NodeInv'
  BY <1>1 DEF IInv, NodeInv, Node, At
<1>4. WalkInv'
  BY <1>1 DEF IInv, WalkInv, Node, At, Matches, Acquire
<1>5. ObjectInv'
  BY <1>1 DEF IInv, ObjectInv, Node
<1>6. UsersCounted'
  <2> SUFFICES ASSUME NEW n \in Node PROVE list[n].threadCount >= Cardinality(Users(n)')
    BY <1>1 DEF UsersCounted, Node
  <2>1. Users(n)' \subseteq Users(n)
    BY <1>1 DEF Users
  <2>2. /\ Cardinality(Users(n)) \in Nat /\ Cardinality(Users(n)') \in Nat
        /\ Cardinality(Users(n)') <= Cardinality(Users(n))
    BY <2>1, UsersFinite, FS_Subset, FS_CardinalityType, NodeType DEF IInv
  <2>3. list[n].threadCount >= Cardinality(Users(n))
    BY DEF IInv, UsersCounted, Node
  <2>4. list[n].threadCount \in Nat
    BY NodeType DEF IInv, SyncData
  <2> QED BY <2>2, <2>3, <2>4
<1>7. HeldInv'
  BY <1>1 DEF IInv, HeldInv, At, Mutex
<1>8. OwnerInv'
  BY <1>1 DEF IInv, OwnerInv, Node, Unlocks, Exits, At, Acquire
<1> QED BY <1>2, <1>3, <1>4, <1>5, <1>6, <1>7, <1>8 DEF IInv

\* The item of a thread for the object of its call is one, and its SyncData is in use.
LEMMA Match ==
    ASSUME IInv, NEW t \in Thread, NEW i \in Matches(t)
    PROVE  /\ i \in items[t] /\ i.data \in Node /\ i.lockCount \in Nat \ {0}
           /\ list[i.data].object = local[t].object /\ list[i.data].threadCount > 0
           /\ i.data \in Nat \ {0}
           /\ \A j \in items[t] : list[j.data].object = local[t].object => j = i
           /\ \A n \in Node : list[n].object = local[t].object => n = i.data
<1>1. i \in items[t] /\ list[i.data].object = local[t].object
  BY DEF Matches
<1>2. i.data \in Node /\ i.lockCount \in Nat \ {0} /\ list[i.data] \in SyncData
  BY <1>1, ItemType DEF IInv
<1>3. list[i.data].threadCount > 0
  <2>1. t \in Users(i.data)
    BY <1>1 DEF Users
  <2>2. Cardinality(Users(i.data)) # 0
    BY <1>2, <2>1, UsersFinite, FS_EmptySet, NodeType DEF IInv
  <2>3. list[i.data].threadCount >= Cardinality(Users(i.data))
    BY <1>2 DEF IInv, UsersCounted, Node
  <2>4. list[i.data].threadCount \in Nat /\ Cardinality(Users(i.data)) \in Nat
    BY <1>2, UsersFinite, NodeType DEF IInv, SyncData
  <2> QED BY <2>2, <2>3, <2>4
<1>4. \A n \in Node : list[n].object = local[t].object => n = i.data
  BY <1>1, <1>2 DEF IInv, ObjectInv
<1>5. \A j \in items[t] : list[j.data].object = local[t].object => j = i
  BY <1>1, <1>4, ItemType DEF IInv, ObjectInv
<1> QED BY <1>1, <1>2, <1>3, <1>4, <1>5, NodeType DEF IInv, Node

\* A thread that finds nothing in its caches takes the spinlock.
LEMMA MissStep ==
    ASSUME IInv, NEW t \in Thread, Miss(t)
    PROVE  IInv'
<1> DEFINE new == [[local[t] EXCEPT !.pc = "walk"] EXCEPT !.p = Len(list)]
<1>1. /\ new \in Local /\ new.pc = "walk" /\ new.p = Len(list) /\ new.op = local[t].op
      /\ new.object = local[t].object /\ new.firstUnused = local[t].firstUnused
      /\ new.data = local[t].data
  BY NodeType DEF IInv, TypeOK, Local
<1>2. /\ local' = [local EXCEPT ![t] = new] /\ local[t].pc = "id2data" /\ Matches(t) = {}
      /\ spin = NoThread /\ spin' = t /\ UNCHANGED <<client, list, items, held>>
  BY DEF Miss, At, IInv, TypeOK, Local
<1> HIDE DEF new
<1>3. local' \in [Thread -> Local] /\ local'[t] = new /\ \A u \in Thread \ {t} : local'[u] = local[u]
  BY <1>1, <1>2 DEF IInv, TypeOK
<1>4. TypeOK'
  <2>1. {local'[t].p, local'[t].firstUnused, local'[t].data} \subseteq 0 .. Len(list')
    BY <1>1, <1>2, <1>3, NodeType DEF IInv, TypeOK
  <2> QED BY <1>2, <1>3, <2>1 DEF IInv, TypeOK
<1>5. NodeInv'
  BY <1>1, <1>2, <1>3 DEF IInv, NodeInv, Node, At
<1>6. WalkInv'
  <2>1. ASSUME NEW u \in Thread, u # t PROVE ~At(u, "walk")
    BY <1>2, <2>1, SyncAssumption DEF IInv, WalkInv
  <2>2. local[t].firstUnused = 0 /\ (client = "careful" => Acquire(t))
    BY <1>2 DEF IInv, NodeInv, WalkInv, At
  <2>3. \A n \in Node : ~(n > Len(list))
    BY NodeType DEF Node, IInv
  <2> QED BY <1>1, <1>2, <1>3, <2>1, <2>2, <2>3 DEF IInv, WalkInv, Node, At, Matches, Acquire
<1>7. ObjectInv' /\ UsersCounted'
  BY <1>2 DEF IInv, ObjectInv, UsersCounted, Users, Node
<1>8. HeldInv'
  BY <1>1, <1>2, <1>3 DEF IInv, HeldInv, At, Mutex
<1>9. OwnerInv'
  <2>1. ASSUME NEW n \in Node, list[n].owner = t PROVE ~Exits(t, n)
    BY <1>2, <2>1 DEF IInv, OwnerInv, Exits, Matches
  <2> QED BY <1>1, <1>2, <1>3, <2>1 DEF IInv, OwnerInv, Node, Unlocks, Exits, At, Acquire
<1> QED BY <1>4, <1>5, <1>6, <1>7, <1>8, <1>9 DEF IInv

\* A cached SyncData is found again, and its item i becomes j.
LEMMA RecountStep ==
    ASSUME IInv, NEW t \in Thread, At(t, "id2data"), NEW i \in Matches(t),
           NEW j \in SyncCacheItem, j.data = i.data,
           Acquire(t) => j.lockCount > held[t][local[t].object],
           list[i.data].owner = t /\ held[t][local[t].object] > 0 =>
               j.lockCount >= held[t][local[t].object],
           items' = [items EXCEPT ![t] = (@ \ {i}) \union {j}],
           Found(t, i.data), UNCHANGED <<client, list, spin, held>>
    PROVE  IInv'
<1>1. /\ i \in items[t] /\ i.data \in Node /\ list[i.data].object = local[t].object
      /\ \A k \in items[t] : list[k.data].object = local[t].object => k = i
      /\ \A n \in Node : list[n].object = local[t].object => n = i.data
      /\ i.data \in Nat \ {0}
  BY Match
<1>2. /\ local' \in [Thread -> Local] /\ \A u \in Thread \ {t} : local'[u] = local[u]
      /\ local'[t].pc = (IF Acquire(t) THEN local[t].op ELSE "unlock")
      /\ local'[t].op = local[t].op /\ local'[t].object = local[t].object
      /\ local'[t].p = 0 /\ local'[t].firstUnused = 0 /\ local'[t].data = i.data
  BY <1>1, FoundType DEF IInv
<1>3. /\ items' \in [Thread -> SUBSET SyncCacheItem]
      /\ items'[t] = (items[t] \ {i}) \union {j}
      /\ \A u \in Thread \ {t} : items'[u] = items[u]
  BY DEF IInv, TypeOK
<1>4. local[t].pc = "id2data" /\ (Acquire(t) => local[t].op \in {"enter", "try_enter"})
  BY DEF At, Acquire, IInv, TypeOK, Local
<1>5. TypeOK'
  <2>1. {local'[t].p, local'[t].firstUnused, local'[t].data} \subseteq 0 .. Len(list')
    BY <1>1, <1>2, NodeType DEF IInv, Node
  <2>2. \A u \in Thread : {local'[u].p, local'[u].firstUnused, local'[u].data} \subseteq 0 .. Len(list')
    BY <1>2, <2>1 DEF IInv, TypeOK
  <2> QED BY <1>2, <1>3, <2>2 DEF IInv, TypeOK
<1>6. NodeInv'
  <2>1. \A u \in Thread : \A k \in items'[u] : k.data \in Node
    BY <1>1, <1>3 DEF IInv, NodeInv
  <2>2. i.data # 0
    BY <1>1
  <2> QED BY <1>2, <1>4, <2>1, <2>2 DEF IInv, NodeInv, Node, At
<1>7. WalkInv'
  <2>1. local'[t].pc \notin {"walk", "id2data"}
    BY <1>2, <1>4
  <2> QED BY <1>2, <1>3, <2>1 DEF IInv, WalkInv, Node, At, Matches, Acquire
<1>8. ObjectInv'
  <2>1. \A k \in items[t] : k.data = i.data => k = i
    BY <1>1
  <2>2. \A k, l \in items'[t] : k.data = l.data => k = l
    BY <1>3, <2>1 DEF IInv, ObjectInv
  <2> QED BY <1>3, <2>2 DEF IInv, ObjectInv, Node
<1>9. UsersCounted'
  <2>1. \A n : Users(n)' = Users(n)
    BY <1>1, <1>3 DEF Users
  <2> QED BY <2>1 DEF IInv, UsersCounted
<1>10. HeldInv'
  <2>1. ASSUME NEW u \in Thread, NEW o \in Obj, held[u][o] > 0
        PROVE  \E k \in items'[u] : /\ list[k.data].object = o /\ k.lockCount >= held[u][o]
                                    /\ list[k.data].owner = u
    <3>1. PICK k \in items[u] : /\ list[k.data].object = o /\ k.lockCount >= held[u][o]
                                /\ list[k.data].owner = u
      BY <2>1 DEF IInv, HeldInv
    <3>2. CASE u = t /\ k = i
      BY <1>1, <1>3, <2>1, <3>1, <3>2
    <3>3. CASE ~(u = t /\ k = i)
      BY <1>3, <3>1, <3>3
    <3> QED BY <3>2, <3>3
  <2>2. ASSUME At(t, "enter")' \/ At(t, "try_enter")'
        PROVE  /\ list[local'[t].data].object = local'[t].object
               /\ \E k \in items'[t] : k.data = local'[t].data
                                       /\ k.lockCount > held[t][local'[t].object]
    <3>1. Acquire(t)
      BY <1>2, <2>2 DEF At
    <3> QED BY <1>1, <1>2, <1>3, <3>1
  <2>3. \A u \in Thread \ {t} : At(u, "enter")' \/ At(u, "try_enter")' =>
            /\ list[local'[u].data].object = local'[u].object
            /\ \E k \in items'[u] : k.data = local'[u].data
                                    /\ k.lockCount > held[u][local'[u].object]
    BY <1>2, <1>3 DEF IInv, HeldInv, At, Mutex
  <2> QED BY <2>1, <2>2, <2>3 DEF HeldInv, Mutex
<1>11. OwnerInv'
  <2>1. ASSUME NEW n \in Node, NEW u \in Thread \ {t}, list[n].owner = u
        PROVE  /\ Unlocks(u, n)' => list[n].depth = held[u][list[n].object] + 1
               /\ Exits(u, n)' => /\ list[n].depth = held[u][list[n].object] + 1
                                  /\ \E k \in items'[u] : k.data = n /\ k.lockCount > held[u][list[n].object]
               /\ ~Unlocks(u, n)' /\ ~Exits(u, n)' => list[n].depth = held[u][list[n].object]
    BY <1>2, <1>3, <2>1 DEF IInv, OwnerInv, Unlocks, Exits, At, Acquire
  <2>2. ASSUME NEW n \in Node, list[n].owner = t
        PROVE  /\ Unlocks(t, n)' => list[n].depth = held[t][list[n].object] + 1
               /\ ~Exits(t, n)'
               /\ ~Unlocks(t, n)' => list[n].depth = held[t][list[n].object]
    <3>1. ~Exits(t, n)' /\ ~Unlocks(t, n)
      BY <1>2, <1>4 DEF Exits, Unlocks, At
    <3>2. Unlocks(t, n)' <=> Exits(t, n)
      BY <1>1, <1>2, <1>4 DEF Exits, Unlocks, At
    <3> QED BY <2>2, <3>1, <3>2 DEF IInv, OwnerInv
  <2> QED BY <2>1, <2>2 DEF OwnerInv, Node
<1> QED BY <1>5, <1>6, <1>7, <1>8, <1>9, <1>10, <1>11 DEF IInv

\* The last use of a SyncData by its thread is given up.
LEMMA LastReleaseStep ==
    ASSUME IInv, NEW t \in Thread, At(t, "id2data"), NEW i \in Matches(t),
           ~Acquire(t), i.lockCount = 1,
           items' = [items EXCEPT ![t] = @ \ {i}],
           list' = [list EXCEPT ![i.data].threadCount = @ - 1],
           Found(t, i.data), UNCHANGED <<client, spin, held>>
    PROVE  IInv'
<1> DEFINE n == i.data
           new == [list[n] EXCEPT !.threadCount = @ - 1]
<1>1. /\ i \in items[t] /\ n \in Node /\ list[n].object = local[t].object
      /\ \A k \in items[t] : list[k.data].object = local[t].object => k = i
      /\ \A m \in Node : list[m].object = local[t].object => m = n
      /\ n \in Nat \ {0} /\ list[n].threadCount > 0 /\ list[n] \in SyncData
  BY Match, NodeType DEF IInv
<1>2. /\ local' \in [Thread -> Local] /\ \A u \in Thread \ {t} : local'[u] = local[u]
      /\ local'[t].pc = "unlock" /\ local'[t].object = local[t].object
      /\ local'[t].p = 0 /\ local'[t].firstUnused = 0 /\ local'[t].data = n
      /\ local[t].pc = "id2data"
  BY <1>1, FoundType DEF IInv, At
<1>3. /\ items' \in [Thread -> SUBSET SyncCacheItem]
      /\ items'[t] = items[t] \ {i}
      /\ \A u \in Thread \ {t} : items'[u] = items[u]
      /\ \A u \in Thread : items'[u] \subseteq items[u]
  BY DEF IInv, TypeOK
<1>4. /\ new \in SyncData /\ new.threadCount = list[n].threadCount - 1
      /\ new.object = list[n].object /\ new.owner = list[n].owner /\ new.depth = list[n].depth
  BY <1>1 DEF SyncData
<1>5. list' = [list EXCEPT ![n] = new]
  OBVIOUS
<1> HIDE DEF new
<1>6. /\ list' \in Seq(SyncData) /\ Node' = Node /\ list'[n] = new
      /\ \A m \in Node \ {n} : list'[m] = list[m]
  <2>1. list \in Seq(SyncData)
    BY DEF IInv, TypeOK
  <2> QED BY ONLY ExceptList, <1>1, <1>4, <1>5, <2>1
<1>7. \A m \in Node : /\ list'[m].object = list[m].object /\ list'[m].owner = list[m].owner
                      /\ list'[m].depth = list[m].depth
                      /\ (list[m].threadCount = 0 => list'[m].threadCount = 0)
  BY <1>1, <1>4, <1>6
<1>8. \A u \in Thread : \A k \in items[u] : k.data \in Node /\ list'[k.data].object = list[k.data].object
                                            /\ list'[k.data].owner = list[k.data].owner
  BY <1>7 DEF IInv, NodeInv
<1> HIDE DEF n
<1>9. TypeOK'
  <2>1. {local'[t].p, local'[t].firstUnused, local'[t].data} \subseteq 0 .. Len(list')
    BY <1>1, <1>2, <1>5, <1>6, NodeType DEF IInv, Node
  <2>2. Len(list') = Len(list)
    BY <1>1, <1>5, NodeType DEF IInv, TypeOK, Node
  <2>3. \A u \in Thread : {local'[u].p, local'[u].firstUnused, local'[u].data} \subseteq 0 .. Len(list')
    BY <1>2, <2>1, <2>2 DEF IInv, TypeOK
  <2> QED BY <1>2, <1>3, <1>6, <2>3 DEF IInv, TypeOK
<1>10. NodeInv'
  <2>1. \A u \in Thread : \A k \in items'[u] : k.data \in Node'
    BY <1>3, <1>6 DEF IInv, NodeInv
  <2>2. \A m \in Node' : list'[m].owner = NoThread <=> list'[m].depth = 0
    BY <1>6, <1>7 DEF IInv, NodeInv
  <2>3. n # 0
    BY <1>1
  <2>4. \A u \in Thread :
           /\ At(u, "enter")' \/ At(u, "try_enter")' \/ At(u, "unlock")' => local'[u].data # 0
           /\ ~At(u, "fatal")'
           /\ ~At(u, "walk")' => local'[u].firstUnused = 0
    BY <1>2, <2>3 DEF IInv, NodeInv, At
  <2> QED BY <2>1, <2>2, <2>4 DEF NodeInv
<1>11. \A u \in Thread \ {t} : Matches(u)' = Matches(u)
  BY <1>2, <1>3, <1>8 DEF Matches
<1>12. WalkInv'
  <2>1. ASSUME NEW u \in Thread \ {t}, local[u].pc = "walk", local[u].firstUnused # 0
        PROVE  list'[local[u].firstUnused].threadCount = 0
    <3>1. list[local[u].firstUnused].threadCount = 0
      BY <2>1 DEF IInv, WalkInv, At
    <3>2. local[u].firstUnused \in Node
      BY <2>1, NodeType DEF IInv, TypeOK, Local, Node
    <3> QED BY <1>7, <3>1, <3>2
  <2> QED BY <1>2, <1>6, <1>7, <1>11, <2>1 DEF IInv, WalkInv, At, Acquire
<1>13. ObjectInv'
  BY <1>3, <1>6, <1>7 DEF IInv, ObjectInv
<1>14. UsersCounted'
  <2>1. \A m \in Node \ {n} : Users(m)' = Users(m)
    BY <1>1, <1>3 DEF Users, n
  <2>2. Users(n)' = Users(n) \ {t} /\ t \in Users(n)
    <3>1. \A k \in items[t] : k.data = n => k = i
      BY <1>1 DEF n
    <3>2. i.data = n
      BY DEF n
    <3> QED BY <1>1, <1>3, <3>1, <3>2 DEF Users
  <2>3. /\ Cardinality(Users(n)') = Cardinality(Users(n)) - 1
        /\ Cardinality(Users(n)) \in Nat /\ Cardinality(Users(n)') \in Nat
    BY <1>1, <2>2, UsersFinite, FS_RemoveElement, FS_CardinalityType
  <2>4. /\ list[n].threadCount >= Cardinality(Users(n))
        /\ client = "careful" => list[n].threadCount = Cardinality(Users(n))
    BY <1>1 DEF IInv, UsersCounted, Node
  <2>5. list[n].threadCount \in Nat
    BY <1>1 DEF SyncData
  <2>6. /\ list'[n].threadCount >= Cardinality(Users(n)')
        /\ client' = "careful" => list'[n].threadCount = Cardinality(Users(n)')
    BY <1>4, <1>6, <2>3, <2>4, <2>5
  <2>7. \A m \in Node' :
           /\ list'[m].threadCount >= Cardinality(Users(m)')
           /\ client' = "careful" => list'[m].threadCount = Cardinality(Users(m)')
    BY <1>6, <2>1, <2>6 DEF IInv, UsersCounted, Node
  <2> QED BY <2>7 DEF UsersCounted, Node
<1>15. HeldInv'
  <2>1. ASSUME NEW u \in Thread, NEW o \in Obj, held[u][o] > 0
        PROVE  \E k \in items'[u] : /\ list'[k.data].object = o /\ k.lockCount >= held[u][o]
                                    /\ list'[k.data].owner = u
    <3>1. PICK k \in items[u] : /\ list[k.data].object = o /\ k.lockCount >= held[u][o]
                                /\ list[k.data].owner = u
      BY <2>1 DEF IInv, HeldInv
    <3>2. ASSUME u = t, k = i PROVE FALSE
      \* It would be counted once more than it is held.
      <4>1. Exits(t, n)
        BY <1>1, <1>2 DEF Exits, At
      <4>2. PICK l \in items[t] : l.data = n /\ l.lockCount > held[t][o]
        BY <1>1, <3>1, <3>2, <4>1 DEF IInv, OwnerInv, n
      <4>3. l = i
        BY <1>1, <4>2
      <4>4. held[t][o] \in Nat
        BY DEF IInv, TypeOK
      <4> QED BY <2>1, <3>2, <4>2, <4>3, <4>4
    <3> QED BY <1>3, <1>8, <3>1, <3>2
  <2>2. \A u \in Thread : At(u, "enter")' \/ At(u, "try_enter")' =>
            /\ list'[local'[u].data].object = local'[u].object
            /\ \E k \in items'[u] : k.data = local'[u].data
                                    /\ k.lockCount > held[u][local'[u].object]
    BY <1>2, <1>3, <1>8 DEF IInv, HeldInv, At, Mutex
  <2> QED BY <2>1, <2>2 DEF HeldInv, Mutex
<1>16. OwnerInv'
  <2>1. ASSUME NEW m \in Node, NEW u \in Thread \ {t}, list[m].owner = u
        PROVE  /\ Unlocks(u, m)' => list'[m].depth = held[u][list'[m].object] + 1
               /\ Exits(u, m)' => /\ list'[m].depth = held[u][list'[m].object] + 1
                                  /\ \E k \in items'[u] : k.data = m /\ k.lockCount > held[u][list'[m].object]
               /\ ~Unlocks(u, m)' /\ ~Exits(u, m)' => list'[m].depth = held[u][list'[m].object]
    BY <1>2, <1>3, <1>7, <2>1 DEF IInv, OwnerInv, Unlocks, Exits, At, Acquire
  <2>2. ASSUME NEW m \in Node, list[m].owner = t
        PROVE  /\ Unlocks(t, m)' => list'[m].depth = held[t][list'[m].object] + 1
               /\ ~Exits(t, m)'
               /\ ~Unlocks(t, m)' => list'[m].depth = held[t][list'[m].object]
    <3>1. ~Exits(t, m)' /\ ~Unlocks(t, m)
      BY <1>2 DEF Exits, Unlocks, At
    <3>2. Unlocks(t, m)' <=> Exits(t, m)
      BY <1>1, <1>2 DEF Exits, Unlocks, At
    <3> QED BY <1>7, <2>2, <3>1, <3>2 DEF IInv, OwnerInv
  <2> QED BY <1>6, <1>7, <2>1, <2>2 DEF OwnerInv
<1> QED BY <1>9, <1>10, <1>12, <1>13, <1>14, <1>15, <1>16 DEF IInv

\* A cached SyncData is acquired or released; id2data never finds it buggy.
LEMMA HitStep ==
    ASSUME IInv, NEW t \in Thread, Hit(t)
    PROVE  IInv'
<1>1. PICK i \in Matches(t) :
          \/ ~Acquire(t) /\ Release(t, i) /\ Found(t, i.data)
          \/ /\ Acquire(t) /\ Found(t, i.data) /\ UNCHANGED list
             /\ items' = [items EXCEPT ![t] = (@ \ {i}) \union {[i EXCEPT !.lockCount = @ + 1]}]
  <2>1. \A i \in Matches(t) : list[i.data].threadCount \in Nat /\ list[i.data].threadCount > 0
    BY Match, NodeType DEF IInv, SyncData
  <2> QED BY <2>1 DEF Hit
<1>2. /\ i \in SyncCacheItem /\ i.lockCount \in Nat \ {0} /\ i \in items[t]
      /\ At(t, "id2data") /\ UNCHANGED <<client, spin, held>>
      /\ list[i.data].object = local[t].object
      /\ \A k \in items[t] : list[k.data].object = local[t].object => k = i
      /\ i.data \in Node
  BY Match, ItemType DEF IInv, Hit
<1>3. local[t].object \in Obj /\ held[t][local[t].object] \in Nat
  BY DEF IInv, TypeOK, Local
<1>4. CASE Acquire(t)
  <2> DEFINE j == [i EXCEPT !.lockCount = @ + 1]
  <2>1. j \in SyncCacheItem /\ j.data = i.data /\ j.lockCount = i.lockCount + 1
    BY <1>2 DEF SyncCacheItem
  <2>2. j.lockCount > held[t][local[t].object]
    <3>1. CASE held[t][local[t].object] > 0
      BY <1>2, <1>3, <2>1, <3>1 DEF IInv, HeldInv
    <3> QED BY <1>2, <1>3, <2>1, <3>1
  <2>3. items' = [items EXCEPT ![t] = (@ \ {i}) \union {j}] /\ Found(t, i.data) /\ UNCHANGED list
    BY <1>1, <1>4
  <2> HIDE DEF j
  <2>4. j.lockCount >= held[t][local[t].object]
    BY <1>3, <2>2, <1>2, <2>1
  <2> QED BY <1>2, <2>1, <2>2, <2>3, <2>4, RecountStep
<1>5. CASE ~Acquire(t) /\ i.lockCount > 1
  <2> DEFINE j == [i EXCEPT !.lockCount = @ - 1]
  <2>1. j \in SyncCacheItem /\ j.data = i.data /\ j.lockCount = i.lockCount - 1
    BY <1>2, <1>5 DEF SyncCacheItem
  <2>2. list[i.data].owner = t => j.lockCount >= held[t][local[t].object]
    <3> SUFFICES ASSUME list[i.data].owner = t PROVE j.lockCount >= held[t][local[t].object]
      OBVIOUS
    <3>1. Exits(t, i.data)
      BY <1>2, <1>5 DEF Exits
    <3>2. PICK l \in items[t] : l.data = i.data /\ l.lockCount > held[t][local[t].object]
      BY <1>2, <3>1 DEF IInv, OwnerInv
    <3>3. l = i
      BY <1>2, <3>2
    <3> QED BY <1>2, <1>3, <2>1, <3>2, <3>3
  <2>3. items' = [items EXCEPT ![t] = (@ \ {i}) \union {j}] /\ Found(t, i.data) /\ UNCHANGED list
    BY <1>1, <1>5 DEF Release
  <2> HIDE DEF j
  <2> QED BY <1>2, <1>5, <2>1, <2>2, <2>3, RecountStep
<1>6. CASE ~Acquire(t) /\ ~(i.lockCount > 1)
  <2>1. i.lockCount = 1
    BY <1>2, <1>6
  <2>2. /\ items' = [items EXCEPT ![t] = @ \ {i}] /\ Found(t, i.data)
        /\ list' = [list EXCEPT ![i.data].threadCount = @ - 1]
    BY <1>1, <1>6 DEF Release
  <2> QED BY <1>2, <1>6, <2>1, <2>2, LastReleaseStep
<1> QED BY <1>4, <1>5, <1>6

\* A walk ends with n as a new item of t: a SyncData that has the object of the
\* call, an unused one that is given it, or a new one.
LEMMA KeepStep ==
    ASSUME IInv, NEW t \in Thread, At(t, "walk"), Acquire(t), NEW n \in Nat \ {0},
           list' \in Seq(SyncData), Node' = Node \union {n}, Len(list') >= Len(list),
           \A m \in Node \ {n} : list'[m] = list[m],
           list'[n].object = local[t].object,
           list'[n].owner = NoThread <=> list'[n].depth = 0,
           \A m \in Node : list[m].object = local[t].object => m = n,
           \A u \in Thread : \A k \in items[u] :
               k.data = n => u # t /\ list[n].object = local[t].object,
           list'[n].threadCount >= Cardinality(Users(n)) + 1,
           client = "careful" => list'[n].threadCount = Cardinality(Users(n)) + 1,
           n \in Node => list'[n].owner = list[n].owner /\ list'[n].depth = list[n].depth,
           n \notin Node => list'[n].owner = NoThread,
           Done(t, n)
    PROVE  IInv'
<1> DEFINE new == [data |-> n, lockCount |-> 1, fast |-> \A k \in items[t] : ~k.fast]
<1>1. /\ local' \in [Thread -> Local] /\ \A u \in Thread \ {t} : local'[u] = local[u]
      /\ local'[t].pc = local[t].op /\ local'[t].object = local[t].object
      /\ local'[t].p = 0 /\ local'[t].firstUnused = 0 /\ local'[t].data = n
  BY FoundType DEF IInv, Done
<1>2. local[t].pc = "walk" /\ local[t].op \in {"enter", "try_enter"} /\ local[t].object \in Obj
  BY DEF At, Acquire, IInv, TypeOK, Local
<1>3. /\ new \in SyncCacheItem /\ new.data = n /\ new.lockCount = 1
      /\ items' = [items EXCEPT ![t] = @ \union {new}]
      /\ spin' = NoThread /\ UNCHANGED <<client, held>>
  BY DEF Done, SyncCacheItem
<1> HIDE DEF new
<1>4. /\ items' \in [Thread -> SUBSET SyncCacheItem] /\ items'[t] = items[t] \union {new}
      /\ \A u \in Thread \ {t} : items'[u] = items[u]
      /\ \A u \in Thread : items[u] \subseteq items'[u]
  BY <1>3 DEF IInv, TypeOK
<1>5. \A u \in Thread : \A k \in items[u] :
          k.data \in Node /\ list'[k.data].object = list[k.data].object
                          /\ list'[k.data].owner = list[k.data].owner
  BY DEF IInv, NodeInv
<1>6. spin = t /\ Matches(t) = {}
  BY DEF IInv, WalkInv
<1>7. \A u \in Thread \ {t} : local[u].pc # "walk"
  BY <1>6 DEF IInv, WalkInv, At
<1>8. held[t][local[t].object] = 0
  <2>1. held[t][local[t].object] \in Nat
    BY <1>2 DEF IInv, TypeOK
  <2>2. ~(held[t][local[t].object] > 0)
    BY <1>2, <1>6 DEF IInv, HeldInv, Matches
  <2> QED BY <2>1, <2>2
<1>9. TypeOK'
  <2>1. /\ Len(list') \in Nat /\ n <= Len(list')
        /\ {local'[t].p, local'[t].firstUnused, local'[t].data} \subseteq 0 .. Len(list')
    BY <1>1 DEF Node
  <2>2. \A u \in Thread : {local'[u].p, local'[u].firstUnused, local'[u].data} \subseteq 0 .. Len(list')
    <3>1. 0 .. Len(list) \subseteq 0 .. Len(list')
      BY <2>1, NodeType DEF IInv
    <3>2. \A u \in Thread : {local[u].p, local[u].firstUnused, local[u].data} \subseteq 0 .. Len(list)
      BY DEF IInv, TypeOK
    <3> QED BY <1>1, <2>1, <3>1, <3>2
  <2> QED BY <1>1, <1>3, <1>4, <2>2 DEF IInv, TypeOK
<1>10. NodeInv'
  <2>1. \A u \in Thread : \A k \in items'[u] : k.data \in Node'
    BY <1>3, <1>4, <1>5
  <2>2. \A m \in Node' : list'[m].owner = NoThread <=> list'[m].depth = 0
    BY DEF IInv, NodeInv
  <2>3. \A u \in Thread :
           /\ At(u, "enter")' \/ At(u, "try_enter")' \/ At(u, "unlock")' => local'[u].data # 0
           /\ ~At(u, "fatal")'
           /\ ~At(u, "walk")' => local'[u].firstUnused = 0
    BY <1>1, <1>2 DEF IInv, NodeInv, At
  <2> QED BY <2>1, <2>2, <2>3 DEF NodeInv
<1>11. WalkInv'
  <2>1. \A u \in Thread : local'[u].pc # "walk"
    BY <1>1, <1>2, <1>7
  <2>2. ASSUME NEW u \in Thread \ {t}, At(u, "id2data"), client = "careful", ~Acquire(u)
        PROVE  Matches(u)' # {}
    BY <1>1, <1>4, <1>5, <2>2 DEF IInv, WalkInv, Matches
  <2> QED BY <1>1, <1>2, <1>3, <2>1, <2>2 DEF WalkInv, At, Acquire
<1>12. ObjectInv'
  <2>1. \A k, m \in Node' : list'[k].object = list'[m].object => k = m
    BY DEF IInv, ObjectInv
  <2>2. \A k, l \in items'[t] : k.data = l.data => k = l
    BY <1>3, <1>4 DEF IInv, ObjectInv
  <2> QED BY <1>4, <2>1, <2>2 DEF IInv, ObjectInv
<1>13. UsersCounted'
  <2>1. \A m \in Node' \ {n} : Users(m)' = Users(m) /\ m \in Node
    BY <1>3, <1>4 DEF Users
  <2>2. Users(n)' = Users(n) \union {t} /\ t \notin Users(n)
    BY <1>3, <1>4 DEF Users
  <2>3. Cardinality(Users(n)') = Cardinality(Users(n)) + 1
    BY <2>2, UsersFinite, FS_AddElement
  <2>4. \A m \in Node' :
           /\ list'[m].threadCount >= Cardinality(Users(m)')
           /\ client' = "careful" => list'[m].threadCount = Cardinality(Users(m)')
    BY <1>3, <2>1, <2>3 DEF IInv, UsersCounted, Node
  <2> QED BY <2>4 DEF UsersCounted, Node
<1>14. HeldInv'
  <2>1. ASSUME NEW u \in Thread, NEW o \in Obj, held[u][o] > 0
        PROVE  \E k \in items'[u] : /\ list'[k.data].object = o /\ k.lockCount >= held[u][o]
                                    /\ list'[k.data].owner = u
    <3>1. PICK k \in items[u] : /\ list[k.data].object = o /\ k.lockCount >= held[u][o]
                                /\ list[k.data].owner = u
      BY <2>1 DEF IInv, HeldInv
    <3> QED BY <1>4, <1>5, <3>1
  <2>2. /\ list'[local'[t].data].object = local'[t].object
        /\ \E k \in items'[t] : k.data = local'[t].data /\ k.lockCount > held[t][local'[t].object]
    BY <1>1, <1>3, <1>4, <1>8
  <2>3. \A u \in Thread \ {t} : At(u, "enter")' \/ At(u, "try_enter")' =>
            /\ list'[local'[u].data].object = local'[u].object
            /\ \E k \in items'[u] : k.data = local'[u].data
                                    /\ k.lockCount > held[u][local'[u].object]
    BY <1>1, <1>4, <1>5 DEF IInv, HeldInv, At, Mutex
  <2> QED BY <1>3, <2>1, <2>2, <2>3 DEF HeldInv, Mutex
<1>15. OwnerInv'
  <2>1. ASSUME NEW m \in Node, NEW u \in Thread \ {t}, list[m].owner = u,
               list'[m].object = list[m].object, list'[m].depth = list[m].depth
        PROVE  /\ Unlocks(u, m)' => list'[m].depth = held[u][list'[m].object] + 1
               /\ Exits(u, m)' => /\ list'[m].depth = held[u][list'[m].object] + 1
                                  /\ \E k \in items'[u] : k.data = m /\ k.lockCount > held[u][list'[m].object]
               /\ ~Unlocks(u, m)' /\ ~Exits(u, m)' => list'[m].depth = held[u][list'[m].object]
    BY <1>1, <1>4, <2>1 DEF IInv, OwnerInv, Unlocks, Exits, At, Acquire
  <2>2. ASSUME NEW m \in Node, list[m].owner = t, list'[m].object = list[m].object
        PROVE  /\ ~Unlocks(t, m)' /\ ~Exits(t, m)'
               /\ list[m].depth = held[t][list'[m].object]
    BY <1>1, <1>2, <2>2 DEF IInv, OwnerInv, Unlocks, Exits, At
  <2>3. ASSUME NEW u \in Thread, n \in Node, list[n].owner = u, list[n].object # local[t].object
        PROVE  /\ Unlocks(u, n)' /\ ~Exits(u, n)'
               /\ list'[n].depth = held[u][list'[n].object] + 1
    \* An unused SyncData is still locked: only until its last user unlocks it.
    <3>1. \A v \in Thread : \A k \in items[v] : k.data # n
      BY <2>3
    <3>2. list[n].object \in Obj /\ held[u][list[n].object] \in Nat /\ held[u][local[t].object] \in Nat
      BY <1>2, <2>3, NodeType DEF IInv, SyncData, TypeOK
    <3>3. held[u][list[n].object] = 0
      <4>1. \A k \in items[u] : list[k.data].object # list[n].object
        BY <1>5, <2>3, <3>1 DEF IInv, ObjectInv
      <4>2. ~(held[u][list[n].object] > 0)
        BY <3>2, <4>1 DEF IInv, HeldInv
      <4> QED BY <3>2, <4>2
    <3>4. held[u][local[t].object] = 0
      <4>1. \A k \in items[u] : list[k.data].object # local[t].object
        BY <1>5, <2>3
      <4>2. ~(held[u][local[t].object] > 0)
        BY <1>2, <4>1 DEF IInv, HeldInv
      <4> QED BY <3>2, <4>2
    <3>5. list[n].depth # 0
      BY <2>3, SyncAssumption DEF IInv, NodeInv
    <3>6. Unlocks(u, n) /\ list[n].depth = 1
      BY <2>3, <3>1, <3>3, <3>5 DEF IInv, OwnerInv
    <3>7. u # t
      BY <1>2, <3>6 DEF Unlocks, At
    <3> QED BY <1>1, <2>3, <3>4, <3>6, <3>7 DEF Unlocks, Exits, At
  <2> SUFFICES ASSUME NEW m \in Node', NEW u \in Thread, list'[m].owner = u
               PROVE  /\ Unlocks(u, m)' => list'[m].depth = held[u][list'[m].object] + 1
                      /\ Exits(u, m)' =>
                             /\ list'[m].depth = held[u][list'[m].object] + 1
                             /\ \E k \in items'[u] : k.data = m /\ k.lockCount > held[u][list'[m].object]
                      /\ ~Unlocks(u, m)' /\ ~Exits(u, m)' => list'[m].depth = held[u][list'[m].object]
    BY <1>3 DEF OwnerInv
  <2>4. m \in Node /\ list[m].owner = u /\ list'[m].depth = list[m].depth
    BY SyncAssumption
  <2>5. CASE list'[m].object = list[m].object
    BY <2>1, <2>2, <2>4, <2>5
  <2>6. CASE list'[m].object # list[m].object
    <3>1. m = n
      BY <2>4, <2>6
    <3> QED BY <2>3, <2>4, <2>6, <3>1
  <2> QED BY <2>5, <2>6
<1> QED BY <1>9, <1>10, <1>11, <1>12, <1>13, <1>14, <1>15 DEF IInv

\* A call ends with nothing: in the caches, at the end of the list, at the mutex.
LEMMA ReturnStep ==
    ASSUME IInv, NEW t \in Thread, At(t, "walk") \/ At(t, "try_enter"), Return(t),
           spin' = IF At(t, "walk") THEN NoThread ELSE spin,
           list' \in Seq(SyncData), Len(list') = Len(list),
           \A m \in Node : /\ list'[m].object = list[m].object /\ list'[m].owner = list[m].owner
                           /\ list'[m].depth = list[m].depth
                           /\ list'[m].threadCount >= list[m].threadCount,
           At(t, "try_enter") \/ client = "careful" => list' = list,
           UNCHANGED <<client, items, held>>
    PROVE  IInv'
<1>1. /\ local' \in [Thread -> Local] /\ \A u \in Thread \ {t} : local'[u] = local[u]
      /\ local'[t].pc = "idle" /\ local'[t].p = 0 /\ local'[t].firstUnused = 0 /\ local'[t].data = 0
      /\ Node' = Node
  BY ReturnEffect DEF IInv, Node
<1>2. \A u \in Thread : \A k \in items[u] : k.data \in Node
  BY DEF IInv, NodeInv
<1>3. TypeOK'
  <2>1. {local'[t].p, local'[t].firstUnused, local'[t].data} \subseteq 0 .. Len(list')
    BY <1>1, NodeType DEF IInv
  <2>2. \A u \in Thread : {local'[u].p, local'[u].firstUnused, local'[u].data} \subseteq 0 .. Len(list')
    BY <1>1, <2>1 DEF IInv, TypeOK
  <2> QED BY <1>1, <2>2 DEF IInv, TypeOK
<1>4. NodeInv'
  BY <1>1 DEF IInv, NodeInv, At
<1>5. \A u \in Thread \ {t} : Matches(u)' = Matches(u)
  BY <1>1, <1>2 DEF Matches
<1>6. WalkInv'
  <2>1. CASE At(t, "walk")
    <3>1. \A u \in Thread \ {t} : local[u].pc # "walk"
      BY <2>1 DEF IInv, WalkInv, At
    <3> QED BY <1>1, <1>5, <3>1 DEF IInv, WalkInv, At, Acquire
  <2>2. CASE ~At(t, "walk")
    BY <1>1, <1>5, <2>2 DEF IInv, WalkInv, At, Acquire
  <2> QED BY <2>1, <2>2
<1>7. ObjectInv'
  BY <1>1 DEF IInv, ObjectInv
<1>8. UsersCounted'
  <2>1. \A n : Users(n)' = Users(n)
    BY DEF Users
  <2>2. ASSUME NEW n \in Node, client = "careless"
        PROVE  list'[n].threadCount >= Cardinality(Users(n))
    <3>1. /\ list[n].threadCount \in Nat /\ Cardinality(Users(n)) \in Nat
          /\ list[n].threadCount >= Cardinality(Users(n))
      BY NodeType, UsersFinite DEF IInv, SyncData, UsersCounted, Node
    <3>2. list'[n].threadCount \in Nat
      <4>1. n \in 1 .. Len(list')
        BY DEF Node
      <4>2. list'[n] \in SyncData
        BY <4>1
      <4> QED BY <4>2 DEF SyncData
    <3>3. list'[n].threadCount >= list[n].threadCount
      OBVIOUS
    <3> QED BY <3>1, <3>2, <3>3
  <2>3. client \in {"careful", "careless"}
    BY SyncAssumption DEF IInv, TypeOK
  <2> QED BY <1>1, <2>1, <2>2, <2>3 DEF IInv, UsersCounted, Node
<1>9. HeldInv'
  <2>1. ASSUME NEW u \in Thread, NEW o \in Obj, held[u][o] > 0
        PROVE  \E k \in items[u] : /\ list'[k.data].object = o /\ k.lockCount >= held[u][o]
                                    /\ list'[k.data].owner = u
    BY <1>2, <2>1 DEF IInv, HeldInv
  <2>2. \A u \in Thread : At(u, "enter")' \/ At(u, "try_enter")' =>
            /\ list'[local'[u].data].object = local'[u].object
            /\ \E k \in items[u] : k.data = local'[u].data
                                    /\ k.lockCount > held[u][local'[u].object]
    BY <1>1, <1>2 DEF IInv, HeldInv, At, Mutex
  <2> QED BY <2>1, <2>2 DEF HeldInv, Mutex
<1>10. OwnerInv'
  <2>1. \A m \in Node : ~Unlocks(t, m) /\ ~Exits(t, m) /\ ~Unlocks(t, m)' /\ ~Exits(t, m)'
    BY <1>1 DEF Unlocks, Exits, At
  <2>2. ASSUME NEW m \in Node, NEW u \in Thread \ {t}
        PROVE  (Unlocks(u, m)' <=> Unlocks(u, m)) /\ (Exits(u, m)' <=> Exits(u, m))
    BY <1>1, list'[m].object = list[m].object DEF Unlocks, Exits, At, Acquire
  <2> SUFFICES ASSUME NEW m \in Node, NEW u \in Thread, list[m].owner = u
               PROVE  /\ Unlocks(u, m)' => list[m].depth = held[u][list[m].object] + 1
                      /\ Exits(u, m)' =>
                             /\ list[m].depth = held[u][list[m].object] + 1
                             /\ \E k \in items[u] : k.data = m /\ k.lockCount > held[u][list[m].object]
                      /\ ~Unlocks(u, m)' /\ ~Exits(u, m)' => list[m].depth = held[u][list[m].object]
    BY <1>1 DEF OwnerInv
  <2>3. CASE u = t
    BY <2>1, <2>3 DEF IInv, OwnerInv
  <2>4. CASE u # t
    BY <2>2, <2>4 DEF IInv, OwnerInv
  <2> QED BY <2>3, <2>4
<1> QED BY <1>3, <1>4, <1>6, <1>7, <1>8, <1>9, <1>10 DEF IInv

\* The next SyncData of the list has another object.
LEMMA WalkOnStep ==
    ASSUME IInv, NEW t \in Thread, At(t, "walk"), local[t].p > 0,
           list[local[t].p].object # local[t].object,
           local' = [local EXCEPT ![t].p = local[t].p - 1, ![t].firstUnused =
                         IF @ = 0 /\ IsUnused(local[t].p) THEN local[t].p ELSE @],
           UNCHANGED <<client, list, spin, items, held>>
    PROVE  IInv'
<1> DEFINE p == local[t].p
           f == IF local[t].firstUnused = 0 /\ IsUnused(p) THEN p ELSE local[t].firstUnused
           new == [[local[t] EXCEPT !.p = p - 1] EXCEPT !.firstUnused = f]
<1>1. /\ local[t] \in Local /\ p \in Node /\ p \in Nat /\ p - 1 \in 0 .. Len(list)
      /\ f \in 0 .. Len(list) /\ local[t].data \in 0 .. Len(list)
  BY NodeType DEF IInv, TypeOK, Local, Node
<1>2. local' = [local EXCEPT ![t] = new]
  BY DEF IInv, TypeOK, Local
<1>3. /\ new \in Local /\ new.p = p - 1 /\ new.firstUnused = f /\ new.pc = local[t].pc
      /\ new.op = local[t].op /\ new.object = local[t].object /\ new.data = local[t].data
  <2>1. /\ local[t] \in Local /\ p - 1 \in Nat /\ f \in Nat
    BY <1>1, NodeType DEF IInv
  <2> HIDE DEF f, p
  <2> QED BY <2>1 DEF Local
<1>4. f # 0 => list[f].threadCount = 0
  BY DEF IsUnused, IInv, WalkInv
<1> HIDE DEF new, f
<1>5. local' \in [Thread -> Local] /\ local'[t] = new /\ \A u \in Thread \ {t} : local'[u] = local[u]
  BY <1>2, <1>3 DEF IInv, TypeOK
<1>6. TypeOK'
  <2>1. {local'[t].p, local'[t].firstUnused, local'[t].data} \subseteq 0 .. Len(list')
    BY <1>1, <1>3, <1>5
  <2>2. \A u \in Thread : {local'[u].p, local'[u].firstUnused, local'[u].data} \subseteq 0 .. Len(list')
    BY <1>5, <2>1 DEF IInv, TypeOK
  <2> QED BY <1>5, <2>2 DEF IInv, TypeOK
<1>7. NodeInv'
  BY <1>3, <1>5 DEF IInv, NodeInv, Node, At
<1>8. WalkInv'
  <2>1. ASSUME NEW n \in Node, n > p - 1 PROVE list[n].object # local[t].object
    BY <1>1, <2>1, NodeType DEF IInv, WalkInv
  <2>2. \A u \in Thread : Matches(u)' = Matches(u) /\ (Acquire(u)' <=> Acquire(u))
    BY <1>3, <1>5 DEF Matches, Acquire
  <2>3. \A u \in Thread \ {t} : local'[u] = local[u] /\ (At(u, "walk")' <=> At(u, "walk"))
    BY <1>5 DEF At
  <2>4. /\ spin = t /\ Matches(t) = {} /\ (client = "careful" => Acquire(t))
        /\ \A n \in Node : n > local'[t].p => list[n].object # local'[t].object
        /\ local'[t].firstUnused # 0 => list[local'[t].firstUnused].threadCount = 0
    BY <1>3, <1>4, <1>5, <2>1 DEF IInv, WalkInv
  <2>5. ~At(t, "id2data")'
    BY <1>3, <1>5 DEF At
  <2>6. \A u \in Thread \ {t} : At(u, "id2data")' => At(u, "id2data")
    BY <1>5 DEF At
  <2> SUFFICES ASSUME NEW u \in Thread
        PROVE  /\ At(u, "walk")' =>
                      /\ spin = u
                      /\ Matches(u)' = {}
                      /\ \A n \in Node : n > local'[u].p => list[n].object # local'[u].object
                      /\ local'[u].firstUnused # 0 => list[local'[u].firstUnused].threadCount = 0
                      /\ client = "careful" => Acquire(u)'
               /\ At(u, "id2data")' /\ client = "careful" /\ ~Acquire(u)' => Matches(u)' # {}
    BY DEF WalkInv, Node
  <2>7. CASE u = t
    BY <2>2, <2>4, <2>5, <2>7
  <2>8. CASE u # t
    BY <2>2, <2>3, <2>6, <2>8 DEF IInv, WalkInv
  <2> QED BY <2>7, <2>8
<1>9. ObjectInv' /\ UsersCounted'
  BY DEF IInv, ObjectInv, UsersCounted, Users, Node
<1>10. HeldInv'
  BY <1>3, <1>5 DEF IInv, HeldInv, At, Mutex
<1>11. OwnerInv'
  BY <1>3, <1>5 DEF IInv, OwnerInv, Node, Unlocks, Exits, At, Acquire
<1> QED BY <1>6, <1>7, <1>8, <1>9, <1>10, <1>11 DEF IInv

\* A SyncData that is not in use is in no cache.
LEMMA UnusedHasNoUsers ==
    ASSUME IInv, NEW n \in Node, list[n].threadCount = 0
    PROVE  Users(n) = {} /\ Cardinality(Users(n)) = 0
<1>1. Cardinality(Users(n)) \in Nat /\ IsFiniteSet(Users(n))
  BY UsersFinite, NodeType DEF IInv
<1>2. list[n].threadCount >= Cardinality(Users(n))
  BY DEF IInv, UsersCounted, Node
<1>3. Cardinality(Users(n)) = 0
  BY <1>1, <1>2
<1> QED BY <1>1, <1>3, FS_EmptySet

\* The next SyncData of the list has the object, or not.
LEMMA WalkNextStep ==
    ASSUME IInv, NEW t \in Thread, WalkNext(t)
    PROVE  IInv'
<1> DEFINE p == local[t].p
           new == [list[p] EXCEPT !.threadCount = @ + 1]
<1>1. At(t, "walk") /\ p \in Node /\ p \in Nat \ {0} /\ list[p] \in SyncData
  <2>1. At(t, "walk") /\ p \in Nat \ {0} /\ p \in 0 .. Len(list)
    BY DEF WalkNext, IInv, TypeOK, Local
  <2> QED BY <2>1, NodeType DEF IInv, Node
<1>2. CASE list[p].object # local[t].object
  BY <1>1, <1>2, WalkOnStep DEF WalkNext
<1>3. CASE list[p].object = local[t].object
  <2>1. list' = [list EXCEPT ![p] = new] /\ Done(t, p)
    BY <1>3 DEF WalkNext
  <2>2. /\ new \in SyncData /\ new.threadCount = list[p].threadCount + 1 /\ new.threadCount \in Nat
        /\ new.object = list[p].object /\ new.owner = list[p].owner /\ new.depth = list[p].depth
        /\ list[p].threadCount \in Nat
    BY <1>1 DEF SyncData
  <2> HIDE DEF new
  <2>3. /\ list' \in Seq(SyncData) /\ Node' = Node /\ list'[p] = new
        /\ \A m \in Node \ {p} : list'[m] = list[m]
    <3>1. list \in Seq(SyncData)
      BY DEF IInv, TypeOK
    <3> QED BY ONLY ExceptList, <1>1, <2>1, <2>2, <3>1
  <2>4. Len(list') = Len(list)
    BY <1>1, <2>1 DEF IInv, TypeOK, Node
  <2>5. CASE Acquire(t)
    <3>1. \A m \in Node : list[m].object = local[t].object => m = p
      BY <1>1, <1>3 DEF IInv, ObjectInv
    <3>2. \A u \in Thread : \A k \in items[u] : k.data = p => u # t /\ list[p].object = local[t].object
      BY <1>1, <1>3 DEF IInv, WalkInv, Matches
    <3>3. /\ list[p].threadCount >= Cardinality(Users(p)) /\ Cardinality(Users(p)) \in Nat
          /\ client = "careful" => list[p].threadCount = Cardinality(Users(p))
      BY <1>1, UsersFinite DEF IInv, UsersCounted, Node
    <3>4. /\ list'[p].threadCount >= Cardinality(Users(p)) + 1
          /\ client = "careful" => list'[p].threadCount = Cardinality(Users(p)) + 1
      BY <2>2, <2>3, <3>3
    <3>5. list'[p].owner = NoThread <=> list'[p].depth = 0
      BY <1>1, <2>2, <2>3 DEF IInv, NodeInv
    <3>6. Node' = Node \union {p} /\ Len(list') >= Len(list)
      BY <1>1, <2>3, <2>4, NodeType DEF IInv
    <3>7. list'[p].object = local[t].object /\ list'[p].owner = list[p].owner /\ list'[p].depth = list[p].depth
      BY <1>3, <2>2, <2>3
    <3> HIDE DEF p
    <3> QED BY <1>1, <2>1, <2>3, <2>5, <3>1, <3>2, <3>4, <3>5, <3>6, <3>7, KeepStep
  <2>6. CASE ~Acquire(t)
    <3>1. Return(t) /\ spin' = NoThread /\ UNCHANGED <<client, items, held>>
      BY <2>1, <2>6 DEF Done
    <3>2. ~At(t, "try_enter") /\ client # "careful"
      BY <1>1, <2>6 DEF At, IInv, WalkInv
    <3>3. \A m \in Node : /\ list'[m].object = list[m].object /\ list'[m].owner = list[m].owner
                          /\ list'[m].depth = list[m].depth
                          /\ list'[m].threadCount >= list[m].threadCount
      <4>1. \A m \in Node : list[m].threadCount \in Nat
        BY NodeType DEF IInv, SyncData
      <4> QED BY <2>2, <2>3, <4>1
    <3> QED BY <1>1, <2>3, <2>4, <3>1, <3>2, <3>3, ReturnStep
  <2> QED BY <2>5, <2>6
<1> QED BY <1>2, <1>3

\* No SyncData has it: nothing, an unused one or a new one.
LEMMA WalkEndStep ==
    ASSUME IInv, NEW t \in Thread, WalkEnd(t)
    PROVE  IInv'
<1> DEFINE n == local[t].firstUnused
           o == local[t].object
<1>1. /\ At(t, "walk") /\ o \in Obj /\ n \in 0 .. Len(list) /\ Matches(t) = {}
      /\ list \in Seq(SyncData) /\ Len(list) \in Nat /\ Node \subseteq Nat
      /\ n # 0 => list[n].threadCount = 0
  BY NodeType DEF WalkEnd, IInv, TypeOK, Local, WalkInv
<1>2. \A m \in Node : list[m].object # o
  BY <1>1, NodeType DEF WalkEnd, IInv, WalkInv, Node
<1>3. CASE ~Acquire(t)
  <2>1. /\ Return(t) /\ spin' = NoThread /\ UNCHANGED <<client, items, held, list>>
    BY <1>3 DEF WalkEnd, Done
  <2>2. \A m \in Node : list[m].threadCount >= list[m].threadCount
    BY NodeType DEF IInv, SyncData
  <2> QED BY <1>1, <2>1, <2>2, ReturnStep
<1>4. CASE Acquire(t) /\ n # 0
  <2> DEFINE new == [[list[n] EXCEPT !.object = o] EXCEPT !.threadCount = 1]
  <2>1. n \in Node /\ n \in Nat \ {0} /\ list[n] \in SyncData
    BY <1>1, <1>4, NodeType DEF IInv, Node
  <2>2. list' = [list EXCEPT ![n] = new] /\ Done(t, n)
    BY <1>1, <1>4, <2>1 DEF WalkEnd, SyncData, Node
  <2>3. /\ new \in SyncData /\ new.threadCount = 1 /\ new.object = o
        /\ new.owner = list[n].owner /\ new.depth = list[n].depth
    BY <1>1, <2>1 DEF SyncData
  <2> HIDE DEF new
  <2>4. /\ list' \in Seq(SyncData) /\ Node' = Node /\ list'[n] = new
        /\ \A m \in Node \ {n} : list'[m] = list[m]
    BY ONLY ExceptList, <1>1, <2>1, <2>2, <2>3
  <2>5. Len(list') >= Len(list) /\ Node' = Node \union {n}
    BY <1>1, <2>1, <2>2, <2>4 DEF Node
  <2>6. \A u \in Thread : \A k \in items[u] : k.data # n
    BY <1>1, <1>4, <2>1, UnusedHasNoUsers DEF Users
  <2>7. /\ list'[n].threadCount >= Cardinality(Users(n)) + 1
        /\ client = "careful" => list'[n].threadCount = Cardinality(Users(n)) + 1
    BY <1>1, <1>4, <2>1, <2>3, <2>4, UnusedHasNoUsers
  <2>8. list'[n].owner = NoThread <=> list'[n].depth = 0
    BY <2>1, <2>3, <2>4 DEF IInv, NodeInv
  <2>9. list'[n].object = o /\ list'[n].owner = list[n].owner /\ list'[n].depth = list[n].depth
    BY <2>3, <2>4
  <2> HIDE DEF n
  <2> QED BY <1>1, <1>2, <1>4, <2>1, <2>2, <2>4, <2>5, <2>6, <2>7, <2>8, <2>9, KeepStep
<1>5. CASE Acquire(t) /\ n = 0
  <2> DEFINE new == [object |-> o, threadCount |-> 1, owner |-> NoThread, depth |-> 0]
             l == Len(list) + 1
  <2>1. list' = Append(list, new) /\ Done(t, l)
    BY <1>5 DEF WalkEnd
  <2>2. /\ new \in SyncData /\ new.threadCount = 1 /\ new.object = o
        /\ new.owner = NoThread /\ new.depth = 0
    BY <1>1 DEF SyncData
  <2> HIDE DEF new
  <2>3. /\ list' \in Seq(SyncData) /\ Len(list') = l /\ list'[l] = new
        /\ \A m \in Node : list'[m] = list[m]
    BY <1>1, <2>1, <2>2, AppendProperties DEF Node
  <2>4. l \in Nat \ {0} /\ Node' = Node \union {l} /\ l \notin Node /\ Len(list') >= Len(list)
    BY <1>1, <2>3 DEF Node
  <2>5. \A u \in Thread : \A k \in items[u] : k.data # l
    BY <2>4 DEF IInv, NodeInv
  <2>6. Users(l) = {} /\ Cardinality(Users(l)) = 0
    BY <2>5, FS_EmptySet DEF Users
  <2>7. /\ list'[l].threadCount >= Cardinality(Users(l)) + 1
        /\ client = "careful" => list'[l].threadCount = Cardinality(Users(l)) + 1
    BY <2>2, <2>3, <2>6
  <2>8. list'[l].owner = NoThread /\ list'[l].depth = 0 /\ list'[l].object = o
    BY <2>2, <2>3
  <2> HIDE DEF l
  <2> QED BY <1>1, <1>2, <1>5, <2>1, <2>3, <2>4, <2>5, <2>7, <2>8, KeepStep
<1> QED BY <1>3, <1>4, <1>5

-----------------------------------------------------------------------------
(* The mutex *)

\* The mutex n of its call becomes new for t, which has been the only one to own
\* it, as often as it has entered the object; and the call ends.
MutexEffect(t, n, new) ==
    /\ n \in Node /\ new \in SyncData /\ list' = [list EXCEPT ![n] = new]
    /\ new.object = list[n].object /\ new.threadCount = list[n].threadCount
    /\ list[n].owner \in {t, NoThread} /\ new.owner \in {t, NoThread}
    /\ new.owner = NoThread <=> new.depth = 0
    /\ new.owner = t => new.depth = held'[t][list[n].object]
    /\ held'[t][list[n].object] > 0 =>
           /\ new.owner = t
           /\ \E i \in items[t] : i.data = n /\ i.lockCount >= held'[t][list[n].object]
    /\ held' \in [Thread -> [Obj -> Nat]]
    /\ \A u \in Thread, o \in Obj : u # t \/ o # list[n].object => held'[u][o] = held[u][o]
    /\ local[t].pc \in {"enter", "try_enter", "unlock"}
    /\ \A m \in Node : Unlocks(t, m) => m = n
    /\ Return(t) /\ UNCHANGED <<client, spin, items>>

\* Such a step preserves the invariant.
LEMMA MutexStep ==
    ASSUME IInv, NEW t \in Thread, NEW n, NEW new, MutexEffect(t, n, new)
    PROVE  IInv'
<1> USE DEF MutexEffect
<1>1. /\ local' \in [Thread -> Local] /\ \A u \in Thread \ {t} : local'[u] = local[u]
      /\ local'[t].pc = "idle" /\ local'[t].p = 0 /\ local'[t].firstUnused = 0 /\ local'[t].data = 0
  BY ReturnEffect DEF IInv
<1>2. /\ list' \in Seq(SyncData) /\ Node' = Node /\ Len(list') = Len(list) /\ Len(list) \in Nat
      /\ list'[n] = new /\ \A m \in Node \ {n} : list'[m] = list[m]
  <2>1. list \in Seq(SyncData)
    BY DEF IInv, TypeOK
  <2>2. list' \in Seq(SyncData) /\ Node' = Node /\ list'[n] = new /\ \A m \in Node \ {n} : list'[m] = list[m]
    BY ONLY ExceptList, n \in Node, new \in SyncData, list' = [list EXCEPT ![n] = new], <2>1
  <2>3. Len(list') = Len(list) /\ Len(list) \in Nat
    BY <2>1 DEF Node
  <2> QED BY <2>2, <2>3
<1>6. \A m \in Node : list'[m].object = list[m].object /\ list'[m].threadCount = list[m].threadCount
  BY <1>2
<1>7. \A u \in Thread : \A k \in items[u] : k.data \in Node /\ list'[k.data].object = list[k.data].object
  BY <1>6 DEF IInv, NodeInv
<1>8. \A u \in Thread \ {t} : Matches(u)' = Matches(u)
  BY <1>1, <1>7 DEF Matches
<1>9. TypeOK'
  <2>1. \A u \in Thread \ {t} :
            {local'[u].p, local'[u].firstUnused, local'[u].data} \subseteq 0 .. Len(list')
    BY <1>1, <1>2 DEF IInv, TypeOK
  <2>2. {local'[t].p, local'[t].firstUnused, local'[t].data} \subseteq 0 .. Len(list')
    BY <1>1, <1>2
  <2> QED BY <1>1, <1>2, <2>1, <2>2 DEF IInv, TypeOK
<1>10. NodeInv'
  <2>1. \A m \in Node' : list'[m].owner = NoThread <=> list'[m].depth = 0
    BY <1>2 DEF IInv, NodeInv
  <2>2. \A u \in Thread :
           /\ At(u, "enter")' \/ At(u, "try_enter")' \/ At(u, "unlock")' => local'[u].data # 0
           /\ ~At(u, "fatal")'
           /\ ~At(u, "walk")' => local'[u].firstUnused = 0
    <3>1. ASSUME NEW u \in Thread, u = t
          PROVE  local'[u].pc = "idle" /\ local'[u].firstUnused = 0
      BY <1>1, <3>1
    <3>2. ASSUME NEW u \in Thread, u # t PROVE local'[u] = local[u]
      BY <1>1, <3>2
    <3> SUFFICES ASSUME NEW u \in Thread
                 PROVE  /\ At(u, "enter")' \/ At(u, "try_enter")' \/ At(u, "unlock")' => local'[u].data # 0
                        /\ ~At(u, "fatal")'
                        /\ ~At(u, "walk")' => local'[u].firstUnused = 0
      OBVIOUS
    <3>3. CASE u = t
      BY <3>1, <3>3 DEF At
    <3>4. CASE u # t
      BY <3>2, <3>4 DEF IInv, NodeInv, At
    <3> QED BY <3>3, <3>4
  <2> QED BY <1>2, <2>1, <2>2 DEF IInv, NodeInv
<1>11. WalkInv'
  <2> SUFFICES ASSUME NEW u \in Thread
        PROVE  /\ At(u, "walk")' =>
                      /\ spin = u
                      /\ Matches(u)' = {}
                      /\ \A m \in Node : m > local'[u].p => list'[m].object # local'[u].object
                      /\ local'[u].firstUnused # 0 => list'[local'[u].firstUnused].threadCount = 0
                      /\ client = "careful" => Acquire(u)'
               /\ At(u, "id2data")' /\ client = "careful" /\ ~Acquire(u)' => Matches(u)' # {}
    BY <1>2 DEF WalkInv
  <2>1. CASE u = t
    BY <1>1, <2>1 DEF At
  <2>2. CASE u # t
    <3>1. local'[u] = local[u] /\ (Acquire(u)' <=> Acquire(u)) /\ Matches(u)' = Matches(u)
      BY <1>1, <1>8, <2>2 DEF Acquire
    <3>2. local[u].firstUnused # 0 => local[u].firstUnused \in Node
      BY NodeType DEF IInv, TypeOK, Local, Node
    <3> QED BY <1>6, <3>1, <3>2 DEF IInv, WalkInv, At
  <2> QED BY <2>1, <2>2
<1>12. ObjectInv'
  BY <1>2, <1>6 DEF IInv, ObjectInv
<1>13. UsersCounted'
  <2>1. \A m : Users(m)' = Users(m)
    BY DEF Users
  <2> QED BY <1>2, <1>6, <2>1 DEF IInv, UsersCounted, Node
<1>14. HeldInv'
  <2>1. ASSUME NEW u \in Thread, NEW o \in Obj, held'[u][o] > 0
        PROVE  \E k \in items[u] : /\ list'[k.data].object = o /\ k.lockCount >= held'[u][o]
                                    /\ list'[k.data].owner = u
    <3>1. CASE u = t /\ o = list[n].object
      BY <1>2, <1>6, <1>7, <2>1, <3>1
    <3>2. CASE u # t \/ o # list[n].object
      <4>1. PICK k \in items[u] : /\ list[k.data].object = o /\ k.lockCount >= held[u][o]
                                  /\ list[k.data].owner = u
        BY <2>1, <3>2 DEF IInv, HeldInv
      <4>2. k.data # n
        BY <3>2, <4>1, SyncAssumption
      <4> QED BY <1>2, <1>7, <3>2, <4>1, <4>2
    <3> QED BY <3>1, <3>2
  <2>2. ASSUME NEW u \in Thread, At(u, "enter")' \/ At(u, "try_enter")'
        PROVE  /\ list'[local'[u].data].object = local'[u].object
               /\ \E k \in items[u] : k.data = local'[u].data
                                       /\ k.lockCount > held'[u][local'[u].object]
    <3>1. u # t /\ local'[u] = local[u] /\ local[u].object \in Obj
      BY <1>1, <2>2 DEF At, IInv, TypeOK, Local
    <3>2. At(u, "enter") \/ At(u, "try_enter")
      BY <2>2, <3>1 DEF At
    <3>3. held'[u][local[u].object] = held[u][local[u].object]
      BY <3>1
    <3>4. PICK k \in items[u] : k.data = local[u].data /\ k.lockCount > held[u][local[u].object]
      BY <3>2 DEF IInv, HeldInv
    <3>5. list[local[u].data].object = local[u].object
      BY <3>2 DEF IInv, HeldInv, Mutex
    <3> QED BY <1>7, <3>1, <3>3, <3>4, <3>5
  <2> QED BY <2>1, <2>2 DEF HeldInv, Mutex
<1>15. OwnerInv'
  <2> SUFFICES ASSUME NEW m \in Node, NEW u \in Thread, list'[m].owner = u
               PROVE  /\ Unlocks(u, m)' => list'[m].depth = held'[u][list'[m].object] + 1
                      /\ Exits(u, m)' =>
                             /\ list'[m].depth = held'[u][list'[m].object] + 1
                             /\ \E k \in items'[u] : k.data = m /\ k.lockCount > held'[u][list'[m].object]
                      /\ ~Unlocks(u, m)' /\ ~Exits(u, m)' => list'[m].depth = held'[u][list'[m].object]
    BY <1>2 DEF OwnerInv
  <2>1. list[m].object \in Obj /\ list'[m].object = list[m].object /\ items' = items
    BY <1>6, NodeType DEF IInv, SyncData
  <2>2. CASE u # t
    <3>1. m # n
      BY <1>2, <2>2, SyncAssumption
    <3>2. (Unlocks(u, m)' <=> Unlocks(u, m)) /\ (Exits(u, m)' <=> Exits(u, m))
      BY <1>1, <1>6, <2>2 DEF Unlocks, Exits, At, Acquire
    <3>3. list'[m] = list[m] /\ list[m].owner = u /\ held'[u][list[m].object] = held[u][list[m].object]
      BY <1>2, <2>1, <2>2, <3>1
    <3> QED BY <2>1, <3>2, <3>3 DEF IInv, OwnerInv
  <2>3. CASE u = t
    <3>1. ~Unlocks(t, m)' /\ ~Exits(t, m)' /\ ~Exits(t, m)
      BY <1>1 DEF Unlocks, Exits, At
    <3>2. CASE m = n
      BY <1>2, <2>1, <2>3, <3>1, <3>2
    <3>3. CASE m # n
      <4>1. list'[m] = list[m] /\ list[m].object # list[n].object
        BY <1>2, <3>3 DEF IInv, ObjectInv
      <4>2. list[m].owner = t /\ ~Unlocks(t, m)
        BY <2>3, <3>3, <4>1
      <4>3. list[m].depth = held[t][list[m].object]
        BY <3>1, <4>2 DEF IInv, OwnerInv
      <4>4. held'[t][list[m].object] = held[t][list[m].object]
        BY <2>1, <4>1
      <4> QED BY <2>1, <2>3, <3>1, <4>1, <4>3, <4>4
    <3> QED BY <3>2, <3>3
  <2> QED BY <2>2, <2>3
<1> QED BY <1>9, <1>10, <1>11, <1>12, <1>13, <1>14, <1>15 DEF IInv

\* What holds of the mutex of a call.
LEMMA MutexOfCall ==
    ASSUME IInv, NEW t \in Thread, At(t, "enter") \/ At(t, "try_enter") \/ At(t, "unlock")
    PROVE  /\ local[t].data \in Node /\ Mutex(t) \in SyncData /\ Mutex(t).object \in Obj
           /\ held[t] \in [Obj -> Nat] /\ local[t].object \in Obj
<1>1. local[t].data \in 0 .. Len(list) /\ local[t].data # 0
  BY DEF IInv, TypeOK, NodeInv
<1>2. local[t].data \in Node
  BY <1>1, NodeType DEF Node, IInv
<1> QED BY <1>2, NodeType DEF IInv, Mutex, SyncData, TypeOK, Local

\* A mutex is locked, once more or for the first time.
LEMMA LockStep ==
    ASSUME IInv, NEW t \in Thread, Lock(t)
    PROVE  IInv'
<1> DEFINE n == local[t].data
           o == local[t].object
<1>1. /\ local[t].pc \in {"enter", "try_enter"} /\ (At(t, "enter") \/ At(t, "try_enter"))
      /\ Mutex(t) = list[n] /\ list[n].owner \in {NoThread, t}
      /\ Return(t) /\ UNCHANGED <<client, spin, items>>
  BY DEF Lock, At, Free, Mutex
<1>2. n \in Node /\ list[n] \in SyncData /\ o \in Obj /\ held[t][o] \in Nat /\ list[n].depth \in Nat
  BY <1>1, MutexOfCall DEF SyncData
<1>3. list[n].object = o
  BY <1>1 DEF IInv, HeldInv
<1>4. PICK i \in items[t] : i.data = n /\ i.lockCount > held[t][o]
  BY <1>1 DEF IInv, HeldInv
<1>5. /\ held' \in [Thread -> [Obj -> Nat]] /\ held'[t][o] = held[t][o] + 1
      /\ \A u \in Thread, p \in Obj : u # t \/ p # o => held'[u][p] = held[u][p]
  BY <1>2 DEF Lock, IInv, TypeOK
<1>6. list[n].depth = held[t][o]
  <2>1. CASE list[n].owner = t
    BY <1>1, <1>2, <1>3, <2>1 DEF IInv, OwnerInv, Unlocks, Exits, At
  <2>2. CASE list[n].owner = NoThread
    <3>1. ~(held[t][o] > 0)
      <4> SUFFICES ASSUME held[t][o] > 0 PROVE FALSE
        OBVIOUS
      <4>1. PICK k \in items[t] : list[k.data].object = o /\ list[k.data].owner = t
        BY <1>2 DEF IInv, HeldInv
      <4>2. k.data = n
        BY <1>2, <1>3, <4>1 DEF IInv, NodeInv, ObjectInv
      <4> QED BY <2>2, <4>1, <4>2, SyncAssumption
    <3> QED BY <1>2, <2>2, <3>1 DEF IInv, NodeInv
  <2> QED BY <1>1, <2>1, <2>2
<1> DEFINE new == [[list[n] EXCEPT !.owner = t] EXCEPT !.depth = list[n].depth + 1]
<1>7. list' = [list EXCEPT ![n] = new]
  BY <1>2 DEF Lock, SyncData, Node
<1>8. \A m \in Node : ~Unlocks(t, m)
  BY <1>1 DEF Unlocks, At
<1>9. i.lockCount >= held'[t][o]
  BY <1>2, <1>4, <1>5, ItemType DEF IInv
<1>10. /\ new \in SyncData /\ new.threadCount = list[n].threadCount
       /\ new.object = list[n].object /\ new.owner = t /\ new.depth = list[n].depth + 1
  <2> DEFINE depth == list[n].depth + 1
  <2>1. depth \in Nat
    BY <1>2
  <2> HIDE DEF depth, n
  <2>2. new = [[list[n] EXCEPT !.owner = t] EXCEPT !.depth = depth]
    BY DEF depth
  <2>3. new \in SyncData /\ new.threadCount = list[n].threadCount
        /\ new.object = list[n].object /\ new.owner = t /\ new.depth = depth
    <3> HIDE DEF new
    <3> QED BY <1>2, <2>1, <2>2 DEF SyncData
  <2> QED BY <2>3 DEF depth
<1> HIDE DEF n, o, new
<1>11. /\ new.owner = NoThread <=> new.depth = 0
       /\ new.depth = held'[t][list[n].object]
  BY <1>2, <1>3, <1>5, <1>6, <1>10, SyncAssumption
<1>12. \A u \in Thread, p \in Obj : u # t \/ p # list[n].object => held'[u][p] = held[u][p]
  BY <1>3, <1>5
<1>13. held'[t][list[n].object] > 0 =>
           new.owner = t /\ \E j \in items[t] : j.data = n /\ j.lockCount >= held'[t][list[n].object]
  BY <1>3, <1>4, <1>9, <1>10
<1>14. local[t].pc \in {"enter", "try_enter", "unlock"} /\ list[n].owner \in {t, NoThread}
  BY <1>1
<1>15. MutexEffect(t, n, new)
  BY <1>1, <1>2, <1>5, <1>7, <1>8, <1>10, <1>11, <1>12, <1>13, <1>14 DEF MutexEffect
<1> QED BY <1>15, MutexStep

\* A mutex is not locked: the item stays.
LEMMA TryLockFailsStep ==
    ASSUME IInv, NEW t \in Thread, TryLockFails(t)
    PROVE  IInv'
<1>1. /\ At(t, "try_enter") /\ ~At(t, "walk") /\ Return(t)
      /\ UNCHANGED <<client, list, spin, items, held>>
  BY DEF TryLockFails, At
<1>2. list \in Seq(SyncData) /\ \A m \in Node : list[m].threadCount >= list[m].threadCount
  BY NodeType DEF IInv, TypeOK, SyncData
<1> QED BY <1>1, <1>2, ReturnStep

\* A thread unlocks what is not its own: tryUnlock fails.
LEMMA TryUnlockFailsStep ==
    ASSUME IInv, NEW t \in Thread, TryUnlock(t), Mutex(t).owner # t
    PROVE  IInv'
<1>1. /\ local' \in [Thread -> Local] /\ \A u \in Thread \ {t} : local'[u] = local[u]
      /\ local'[t].pc = "idle" /\ local'[t].p = 0 /\ local'[t].firstUnused = 0 /\ local'[t].data = 0
      /\ local[t].pc = "unlock" /\ UNCHANGED <<client, list, spin, items, held>>
  BY ReturnEffect DEF IInv, TryUnlock, At
<1>2. \A u \in Thread \ {t} : Matches(u)' = Matches(u) /\ (Acquire(u)' <=> Acquire(u))
  BY <1>1 DEF Matches, Acquire
<1>3. TypeOK'
  <2>1. {local'[t].p, local'[t].firstUnused, local'[t].data} \subseteq 0 .. Len(list)
    BY <1>1, NodeType DEF IInv
  <2>2. \A u \in Thread : {local'[u].p, local'[u].firstUnused, local'[u].data} \subseteq 0 .. Len(list)
    BY <1>1, <2>1 DEF IInv, TypeOK
  <2> QED BY <1>1, <2>2 DEF IInv, TypeOK
<1>4. NodeInv'
  BY <1>1 DEF IInv, NodeInv, Node, At
<1>5. WalkInv'
  BY <1>1, <1>2 DEF IInv, WalkInv, Node, At
<1>6. ObjectInv' /\ UsersCounted'
  BY <1>1 DEF IInv, ObjectInv, UsersCounted, Users, Node
<1>7. HeldInv'
  BY <1>1 DEF IInv, HeldInv, At, Mutex
<1>8. OwnerInv'
  <2>1. \A m \in Node : list[m].owner = t => ~Unlocks(t, m) /\ ~Exits(t, m)
    BY <1>1 DEF Unlocks, Exits, At, Mutex
  <2>2. \A m \in Node : ~Unlocks(t, m)' /\ ~Exits(t, m)'
    BY <1>1 DEF Unlocks, Exits, At
  <2>3. ASSUME NEW m \in Node, NEW u \in Thread \ {t}
        PROVE  (Unlocks(u, m)' <=> Unlocks(u, m)) /\ (Exits(u, m)' <=> Exits(u, m))
    BY <1>1 DEF Unlocks, Exits, At, Acquire
  <2> SUFFICES ASSUME NEW m \in Node, NEW u \in Thread, list[m].owner = u
               PROVE  /\ Unlocks(u, m)' => list[m].depth = held[u][list[m].object] + 1
                      /\ Exits(u, m)' =>
                             /\ list[m].depth = held[u][list[m].object] + 1
                             /\ \E k \in items[u] : k.data = m /\ k.lockCount > held[u][list[m].object]
                      /\ ~Unlocks(u, m)' /\ ~Exits(u, m)' => list[m].depth = held[u][list[m].object]
    BY <1>1 DEF OwnerInv, Node
  <2>4. CASE u = t
    BY <2>1, <2>2, <2>4 DEF IInv, OwnerInv
  <2>5. CASE u # t
    BY <2>3, <2>5 DEF IInv, OwnerInv
  <2> QED BY <2>4, <2>5
<1> QED BY <1>3, <1>4, <1>5, <1>6, <1>7, <1>8 DEF IInv

\* A mutex is unlocked: at the last exit it is not held any more.
LEMMA TryUnlockStep ==
    ASSUME IInv, NEW t \in Thread, TryUnlock(t)
    PROVE  IInv'
<1> DEFINE n == local[t].data
           o == list[n].object
           depth == list[n].depth - 1
           owner == IF list[n].depth = 1 THEN NoThread ELSE t
<1>1. CASE Mutex(t).owner # t
  BY <1>1, TryUnlockFailsStep
<1>2. CASE Mutex(t).owner = t
  <2>1. /\ At(t, "unlock") /\ local[t].pc = "unlock" /\ list[n].owner = t /\ Return(t)
        /\ UNCHANGED <<client, spin, items, held>> /\ Unlocks(t, n)
    BY <1>2 DEF TryUnlock, At, Mutex, Unlocks
  <2>2. n \in Node /\ list[n] \in SyncData /\ o \in Obj /\ held[t][o] \in Nat /\ list[n].depth \in Nat
    BY <2>1, MutexOfCall DEF Mutex, SyncData
  <2>3. list[n].depth = held[t][o] + 1
    BY <2>1, <2>2 DEF IInv, OwnerInv
  <2> DEFINE new == [[list[n] EXCEPT !.owner = owner] EXCEPT !.depth = depth]
  <2>4. list' = [list EXCEPT ![n] = new]
    BY <1>2, <2>2 DEF TryUnlock, SyncData, Mutex, Node
  <2>5. /\ depth \in Nat /\ owner \in {t, NoThread} /\ (owner = NoThread <=> depth = 0)
        /\ depth = held'[t][o]
    BY <2>1, <2>2, <2>3, SyncAssumption
  <2>6. held[t][o] > 0 => \E i \in items[t] : i.data = n /\ i.lockCount >= held[t][o]
    <3> SUFFICES ASSUME held[t][o] > 0
                 PROVE  \E i \in items[t] : i.data = n /\ i.lockCount >= held[t][o]
      OBVIOUS
    <3>1. PICK i \in items[t] : list[i.data].object = o /\ i.lockCount >= held[t][o]
      BY <2>2 DEF IInv, HeldInv
    <3>2. i.data = n
      BY <2>2, <3>1 DEF IInv, NodeInv, ObjectInv
    <3> QED BY <3>1, <3>2
  <2>7. \A m \in Node : Unlocks(t, m) => m = n
    BY DEF Unlocks
  <2>8. held[t][o] > 0 => owner = t
    BY <2>2, <2>3
  <2>9. held' \in [Thread -> [Obj -> Nat]]
    BY <2>1 DEF IInv, TypeOK
  <2>10. /\ new \in SyncData /\ new.threadCount = list[n].threadCount
         /\ new.object = list[n].object /\ new.owner = owner /\ new.depth = depth
    <3> HIDE DEF owner, depth
    <3> QED BY <2>2, <2>5 DEF SyncData
  <2> HIDE DEF n, owner, depth, new
  <2>11. /\ \A u \in Thread, p \in Obj : u # t \/ p # list[n].object => held'[u][p] = held[u][p]
         /\ held'[t][o] = held[t][o]
    BY <2>1
  <2>12. held'[t][o] > 0 =>
             new.owner = t /\ \E i \in items[t] : i.data = n /\ i.lockCount >= held'[t][o]
    BY <2>6, <2>8, <2>10, <2>11
  <2>13. /\ new.owner \in {t, NoThread} /\ (new.owner = NoThread <=> new.depth = 0)
         /\ new.depth = held'[t][o] /\ list[n].owner \in {t, NoThread}
         /\ local[t].pc \in {"enter", "try_enter", "unlock"}
    BY <2>1, <2>5, <2>10
  <2>14. MutexEffect(t, n, new)
    BY <2>1, <2>2, <2>4, <2>7, <2>9, <2>10, <2>11, <2>12, <2>13 DEF MutexEffect
  <2> QED BY <2>14, MutexStep
<1> QED BY <1>1, <1>2

-----------------------------------------------------------------------------
(* The specification *)

\* The invariant holds at first.
LEMMA InvInit ==
    ASSUME Init PROVE IInv
<1>1. list = <<>> /\ Len(list) = 0 /\ Node = {} /\ client \in Clients
  BY DEF Init, Node
<1>2. TypeOK
  <2>1. Idle \in Local /\ Idle.p = 0 /\ Idle.firstUnused = 0 /\ Idle.data = 0
    BY SyncAssumption DEF Idle, Local
  <2> QED BY <1>1, <2>1 DEF Init, TypeOK
<1>3. NodeInv /\ ObjectInv /\ UsersCounted /\ OwnerInv
  BY <1>1 DEF Init, NodeInv, At, Idle, ObjectInv, UsersCounted, OwnerInv, Node
<1>4. WalkInv /\ HeldInv
  BY DEF Init, WalkInv, HeldInv, At, Idle
<1> QED BY <1>2, <1>3, <1>4 DEF IInv

\* Every step preserves it.
LEMMA InvStep ==
    ASSUME IInv, [Next]_vars PROVE IInv'
<1>1. CASE UNCHANGED vars
  BY <1>1 DEF vars, IInv, TypeOK, NodeInv, WalkInv, ObjectInv, UsersCounted, HeldInv, OwnerInv,
              Node, At, Matches, Acquire, Users, Mutex, Unlocks, Exits
<1>2. ASSUME NEW t \in Thread, Call(t) PROVE IInv'
  BY <1>2, CallEnterStep, CallExitStep, CallExitUnownedStep, ThreadExitStep DEF Call
<1>3. ASSUME NEW t \in Thread, Step(t) PROVE IInv'
  BY <1>3, HitStep, MissStep, WalkNextStep, WalkEndStep, LockStep, TryLockFailsStep, TryUnlockStep
     DEF Step
<1> QED BY <1>1, <1>2, <1>3 DEF Next

\* The inductive invariant.
THEOREM Invariance == Spec => []IInv
<1>1. Init => IInv
  BY InvInit
<1>2. IInv /\ [Next]_vars => IInv'
  BY InvStep
<1> QED BY <1>1, <1>2, PTL DEF Spec

\* TypeOK: threadCount, which id2data decrements without the spinlock, never
\* becomes negative.
THEOREM TypeCorrect == Spec => []TypeOK
<1>1. IInv => TypeOK
  BY DEF IInv
<1> QED BY <1>1, Invariance, PTL

\* OneLockPerObject: the caches, read without a lock, and the list always agree.
THEOREM OneLock == Spec => []OneLockPerObject
<1>1. ASSUME IInv PROVE OneLockPerObject
  BY <1>1 DEF IInv, OneLockPerObject, ObjectInv, NodeInv, HeldInv, Node
<1> QED BY <1>1, Invariance, PTL

\* UsersCounted: threadCount counts the threads that cache a SyncData.
THEOREM CountsUsers == Spec => []UsersCounted
<1>1. IInv => UsersCounted
  BY DEF IInv
<1> QED BY <1>1, Invariance, PTL

\* BlockedByHolder: nobody waits for a mutex but for one that is in the object,
\* that leaves it, or that still has to unlock what another object left.
THEOREM Blocked == Spec => []BlockedByHolder
<1>1. ASSUME IInv PROVE BlockedByHolder
  <2> SUFFICES ASSUME NEW t \in Thread, At(t, "enter"), ~Free(t)
               PROVE  LET owner == Mutex(t).owner
                      IN  \/ held[owner][local[t].object] > 0
                          \/ At(owner, "id2data") /\ local[owner].object = local[t].object
                          \/ At(owner, "unlock") /\ local[owner].data = local[t].data
    BY DEF BlockedByHolder
  <2> DEFINE n == local[t].data
             u == list[n].owner
  <2>1. n \in Node /\ list[n] \in SyncData /\ list[n].object = local[t].object
    BY <1>1, MutexOfCall DEF Mutex, IInv, HeldInv
  <2>2. u \in Thread /\ list[n].depth # 0 /\ list[n].depth \in Nat
    BY <1>1, <2>1 DEF Free, Mutex, SyncData, IInv, NodeInv
  <2>3. CASE Unlocks(u, n)
    BY <2>3 DEF Unlocks, Mutex
  <2>4. CASE Exits(u, n)
    BY <2>1, <2>4 DEF Exits, Mutex
  <2>5. CASE ~Unlocks(u, n) /\ ~Exits(u, n)
    <3>1. list[n].depth = held[u][list[n].object]
      BY <1>1, <2>1, <2>2, <2>5 DEF IInv, OwnerInv
    <3> QED BY <2>1, <2>2, <3>1 DEF Mutex
  <2> QED BY <2>3, <2>4, <2>5
<1> QED BY <1>1, Invariance, PTL

\* A lock step enters a lock that nobody else is in.
LEMMA LockEnters ==
    ASSUME IInv, NEW t \in Thread, Lock(t)
    PROVE  Locks!Enter(t, local[t].object)
<1> DEFINE n == local[t].data
           o == local[t].object
<1>1. n \in Node /\ o \in Obj /\ list[n].object = o /\ list[n].owner \in {NoThread, t}
  BY MutexOfCall DEF Lock, Free, Mutex, IInv, HeldInv
<1>2. ASSUME NEW u \in Thread \ {t} PROVE held[u][o] = 0
  <2>1. ~(held[u][o] > 0)
    <3> SUFFICES ASSUME held[u][o] > 0 PROVE FALSE
      OBVIOUS
    <3>1. PICK k \in items[u] : list[k.data].object = o /\ list[k.data].owner = u
      BY <1>1 DEF IInv, HeldInv
    <3>2. k.data = n
      BY <1>1, <3>1 DEF IInv, NodeInv, ObjectInv
    <3> QED BY <1>1, <3>1, <3>2, SyncAssumption
  <2>2. held[u][o] \in Nat
    BY <1>1 DEF IInv, TypeOK
  <2> QED BY <2>1, <2>2
<1>3. held' = [held EXCEPT ![t][o] = @ + 1]
  BY DEF Lock
<1> QED BY <1>2, <1>3 DEF Locks!Enter

\* ImplementsLocks: with a SyncData lent to one object after another, found in
\* caches that no lock protects, and counted down before it is unlocked, the
\* calls are still those of one recursive lock for every object.
THEOREM Implementation == Spec => ImplementsLocks
<1>1. Init => Locks!Init
  BY DEF Init, Locks!Init
<1>2. IInv /\ [Next]_vars => [Locks!Next]_held
  <2> SUFFICES ASSUME IInv, [Next]_vars PROVE [Locks!Next]_held
    OBVIOUS
  <2>1. CASE UNCHANGED vars
    BY <2>1 DEF vars
  <2>2. ASSUME NEW t \in Thread, Call(t) PROVE [Locks!Next]_held
    <3>1. ASSUME NEW o \in Obj, CallExit(t, o) PROVE Locks!Next
      BY <3>1 DEF CallExit, Locks!Next, Locks!Exit
    <3> QED BY <2>2, <3>1 DEF Call, CallEnter, CallExitUnowned, ThreadExit
  <2>3. ASSUME NEW t \in Thread, Step(t) PROVE [Locks!Next]_held
    <3>1. CASE Lock(t)
      <4>1. local[t].object \in Obj
        BY DEF IInv, TypeOK, Local
      <4> QED BY <3>1, <4>1, LockEnters DEF Locks!Next
    <3>2. CASE ~Lock(t)
      BY <2>3, <3>2 DEF Step, Hit, Miss, WalkNext, WalkEnd, Done, TryLockFails, TryUnlock
    <3> QED BY <3>1, <3>2
  <2> QED BY <2>1, <2>2, <2>3 DEF Next
<1> QED BY <1>1, <1>2, Invariance, PTL DEF Spec, ImplementsLocks, Locks!Spec
=============================================================================
