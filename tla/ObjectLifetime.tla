--------------------------- MODULE ObjectLifetime ---------------------------
(***************************************************************************)
(* What the Objective-C runtime promises the clients of one object and of  *)
(* one __weak variable, with nothing said of isa bits, side tables or      *)
(* locks.  An object is alive until the last strong reference to it is     *)
(* released; the thread that released it runs -dealloc and alone may still *)
(* retain the object there; the weak variable is zeroed before the memory  *)
(* is freed, and reading it yields the object only while it is alive.      *)
(*                                                                         *)
(* RefCount.tla implements this specification.                             *)
(***************************************************************************)
EXTENDS Naturals

CONSTANTS Thread, NoThread, MaxHeld

VARIABLES
    held,         \* held[t]: strong references thread t owns
    phase,        \* "alive", "deallocating" or "freed"
    deallocator,  \* the thread that runs -dealloc, or NoThread
    location      \* the __weak variable: "nil" or "obj"

vars == <<held, phase, deallocator, location>>

\* The strong references that exist, one pair per reference.
Strong == {p \in Thread \X (1 .. MaxHeld) : p[2] <= held[p[1]]}

Init ==
    /\ \E t \in Thread : held = [u \in Thread |-> IF u = t THEN 1 ELSE 0]
    /\ phase = "alive"
    /\ deallocator = NoThread
    /\ location = "nil"

\* A retain by a thread that owns a reference, or by -dealloc itself.
Retain(t) ==
    /\ held[t] < MaxHeld
    /\ \/ phase = "alive" /\ held[t] > 0
       \/ phase = "deallocating" /\ deallocator = t
    /\ held' = [held EXCEPT ![t] = @ + 1]
    /\ UNCHANGED <<phase, deallocator, location>>

\* A strong read of the weak variable: only a living object comes back.
LoadWeak(t) ==
    /\ held[t] < MaxHeld
    /\ phase = "alive"
    /\ location = "obj"
    /\ held' = [held EXCEPT ![t] = @ + 1]
    /\ UNCHANGED <<phase, deallocator, location>>

\* A release that leaves the object as it is: it was not the last reference,
\* or -dealloc already runs.
Release(t) ==
    /\ held[t] > 0
    /\ phase # "freed"
    /\ phase = "alive" => Strong # {<<t, 1>>}
    /\ held' = [held EXCEPT ![t] = @ - 1]
    /\ UNCHANGED <<phase, deallocator, location>>

\* The release of the last reference starts deallocation, exactly then.
LastRelease(t) ==
    /\ phase = "alive"
    /\ Strong = {<<t, 1>>}
    /\ held' = [held EXCEPT ![t] = @ - 1]
    /\ phase' = "deallocating"
    /\ deallocator' = t
    /\ UNCHANGED location

\* A thread hands one of its references to another.
Pass(t, u) ==
    /\ t # u
    /\ phase = "alive"
    /\ held[t] > 0 /\ held[u] < MaxHeld
    /\ held' = [held EXCEPT ![t] = @ - 1, ![u] = @ + 1]
    /\ UNCHANGED <<phase, deallocator, location>>

\* Only a living object can become the value of the weak variable.
StoreWeak(v) ==
    /\ v = "obj" => phase = "alive"
    /\ location' = v
    /\ UNCHANGED <<held, phase, deallocator>>

\* The memory is freed once nobody, the weak variable included, refers to it.
Free ==
    /\ phase = "deallocating"
    /\ Strong = {}
    /\ location = "nil"
    /\ phase' = "freed"
    /\ deallocator' = NoThread
    /\ UNCHANGED <<held, location>>

Next ==
    \/ \E t \in Thread :
          \/ Retain(t) \/ LoadWeak(t) \/ Release(t) \/ LastRelease(t)
          \/ \E u \in Thread : Pass(t, u)
    \/ \E v \in {"nil", "obj"} : StoreWeak(v)
    \/ Free

Spec == Init /\ [][Next]_vars
=============================================================================
