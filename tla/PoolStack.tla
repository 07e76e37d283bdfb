------------------------------ MODULE PoolStack ------------------------------
(***************************************************************************)
(* What one thread's autorelease pools promise, from the comment above     *)
(* AutoreleasePoolPage: a stack of objects to release and of boundaries,   *)
(* one boundary per pool.  Popping a pool releases everything hotter than  *)
(* its boundary, last in first out, whatever the objects' -dealloc do to   *)
(* the stack meanwhile.  Nothing is said of pages.                         *)
(*                                                                         *)
(* AutoreleasePool.tla implements this specification.                      *)
(***************************************************************************)
EXTENDS Integers, Sequences

CONSTANTS Obj, POOL_BOUNDARY

VARIABLES
    stack,  \* the pending releases and the boundaries, the coldest first
    open,   \* open[k]: how many entries lie below the k-th pool the client may pop
    drains  \* the pops that run, the innermost last: how many entries each
            \* leaves, how many pools were open then, whether a -dealloc runs

vars == <<stack, open, drains>>

Top == drains[Len(drains)]

Init == stack = <<>> /\ open = <<>> /\ drains = <<>>

\* The client calls: a program between two pops, or a -dealloc during one.
Client == drains # <<>> => Top.callback

\* The pools a client has pushed itself.
Own == (IF drains = <<>> THEN 1 ELSE Top.base + 1) .. Len(open)

Autorelease(o) ==
    /\ Client
    /\ stack' = Append(stack, o)
    /\ UNCHANGED <<open, drains>>

Push ==
    /\ Client
    /\ open' = Append(open, Len(stack))
    /\ stack' = Append(stack, POOL_BOUNDARY)
    /\ UNCHANGED drains

Pop(k) ==
    /\ Client
    /\ k \in Own
    /\ drains' = Append(drains, [stop |-> open[k], base |-> k - 1, callback |-> FALSE])
    /\ open' = SubSeq(open, 1, k - 1)
    /\ UNCHANGED stack

\* A pool that was never used goes at once, with its boundary.
PopUnused(k) ==
    /\ Client
    /\ k \in Own
    /\ open[k] = Len(stack) - 1
    /\ stack' = SubSeq(stack, 1, open[k])
    /\ open' = SubSeq(open, 1, k - 1)
    /\ UNCHANGED drains

\* The hottest entry goes; the release of an object may run its -dealloc.
Release ==
    /\ drains # <<>> /\ ~Top.callback
    /\ Len(stack) > Top.stop
    /\ stack' = SubSeq(stack, 1, Len(stack) - 1)
    /\ drains' = [drains EXCEPT ![Len(drains)].callback =
                      stack[Len(stack)] # POOL_BOUNDARY]
    /\ UNCHANGED open

\* The -dealloc returns; the pools it left behind are the enclosing pool's.
Return ==
    /\ drains # <<>> /\ Top.callback
    /\ drains' = [drains EXCEPT ![Len(drains)].callback = FALSE]
    /\ open' = SubSeq(open, 1, Top.base)
    /\ UNCHANGED stack

\* The pop ends exactly where the pool began.
Popped ==
    /\ drains # <<>> /\ ~Top.callback
    /\ Len(stack) = Top.stop
    /\ drains' = SubSeq(drains, 1, Len(drains) - 1)
    /\ UNCHANGED <<stack, open>>

\* The end of the thread pops everything.
Exit ==
    /\ drains = <<>>
    /\ open' = <<>>
    /\ \/ drains' = <<[stop |-> 0, base |-> 0, callback |-> FALSE]>> /\ UNCHANGED stack
       \/ stack \in {<<>>, <<POOL_BOUNDARY>>} /\ stack' = <<>> /\ UNCHANGED drains

Next ==
    \/ \E o \in Obj : Autorelease(o)
    \/ Push
    \/ \E k \in 1 .. Len(open) : Pop(k) \/ PopUnused(k)
    \/ Release \/ Return \/ Popped \/ Exit

Spec == Init /\ [][Next]_vars
=============================================================================
