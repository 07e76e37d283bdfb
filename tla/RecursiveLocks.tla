---------------------------- MODULE RecursiveLocks ----------------------------
(***************************************************************************)
(* What @synchronized promises: a recursive lock for every object.         *)
(***************************************************************************)
EXTENDS Naturals

CONSTANTS Thread, Obj

VARIABLE depth  \* depth[t][o]: how many times t has entered o and not exited

Init == depth = [t \in Thread |-> [o \in Obj |-> 0]]

Enter(t, o) ==
    /\ \A u \in Thread \ {t} : depth[u][o] = 0
    /\ depth' = [depth EXCEPT ![t][o] = @ + 1]

Exit(t, o) ==
    /\ depth[t][o] > 0
    /\ depth' = [depth EXCEPT ![t][o] = @ - 1]

Next == \E t \in Thread, o \in Obj : Enter(t, o) \/ Exit(t, o)

Spec == Init /\ [][Next]_depth
=============================================================================
