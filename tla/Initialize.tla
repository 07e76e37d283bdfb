------------------------------ MODULE Initialize ------------------------------
(***************************************************************************)
(* +initialize: initializeNonMetaClass of objc-initialize.mm, objc4-818.2. *)
(*                                                                         *)
(* The first message to a class runs its +initialize, after that of its    *)
(* superclass.  The thread that runs it may message the class, the others  *)
(* wait.  +initialize methods message other classes; one that ends inside  *)
(* its superclass's is only marked as done after it.  A thread may fork    *)
(* the process while the others are in the middle of all that.             *)
(*                                                                         *)
(* A step is a critical section of classInitLock, an unlocked read of the  *)
(* flags of a class, or a call of client code.                             *)
(***************************************************************************)
EXTENDS Naturals, Sequences

CONSTANTS
    Thread, Class,
    Super,       \* Super[c]: the superclass, or None
    None,
    Messages,    \* Messages[c]: the classes +[c initialize] messages
    Trivial,     \* the classes whose +initialize is empty or missing
    Callback,    \* functions for _objc_addWillInitializeClassFunc
    MayFork      \* whether the process forks

ASSUME InitializeAssumption ==
    /\ None \notin Class /\ Super \in [Class -> Class \union {None}]
    /\ Messages \in [Class -> SUBSET Class] /\ MayFork \in BOOLEAN
    /\ \A c \in Trivial : c \in Class /\ Messages[c] = {}

VARIABLES
    flag,      \* flag[c]: CLS_INITIALIZING and CLS_INITIALIZED
    lists,     \* lists[t]: the _objc_initializing_classes of t
    pending,   \* the subclasses in pendingInitializeMap
    funcs,     \* willInitializeFuncs
    stack,     \* stack[t]: the calls that run on t, the innermost last
    forked,    \* MultithreadedForkChild
    fatal,     \* _objc_fatal was called
    calls      \* calls[f][c]: how often f was called for c

vars == <<flag, lists, pending, funcs, stack, forked, fatal, calls>>

\* A call of initializeNonMetaClass(cls), or of _objc_addWillInitializeClassFunc
\* once the lock is released: the callbacks and classes it has still to do.
Frame == [pc : {"super", "try", "callbacks", "initialize", "initializing", "initialized",
                "wait", "fork", "add"},
          cls : Class \union {None}, todo : SUBSET Class, funcs : SUBSET Callback]

Call(c) == [pc |-> "super", cls |-> c, todo |-> {}, funcs |-> {}]

Init ==
    /\ flag = [c \in Class |-> "none"]
    /\ lists = [t \in Thread |-> {}]
    /\ pending = {}
    /\ funcs = {}
    /\ stack = [t \in Thread |-> <<>>]
    /\ forked = FALSE
    /\ fatal = "no"
    /\ calls = [f \in Callback |-> [c \in Class |-> 0]]

Top(t) == stack[t][Len(stack[t])]
Caller(t) == SubSeq(stack[t], 1, Len(stack[t]) - 1)
Runs(t, label) == fatal = "no" /\ stack[t] # <<>> /\ Top(t).pc = label

Goto(t, label) == stack' = [stack EXCEPT ![t][Len(stack[t])].pc = label]
Return(t) == stack' = [stack EXCEPT ![t] = Caller(t)]

\* The superclasses of a class: what is in every set that has its superclass, and
\* that of each of its members.
Ancestors ==
    [c \in Class |-> {d \in Class : \A S \in SUBSET Class :
        (\A e \in {c} \union S : Super[e] \in S \union {None}) => d \in S}]

ASSUME HierarchyAssumption == \A c \in Class : c \notin Ancestors[c]

-----------------------------------------------------------------------------
(* Client code *)

\* A message to a class that is not initialized.
Message(t, c) ==
    /\ fatal = "no" /\ stack[t] = <<>>
    /\ flag[c] # "initialized"
    /\ stack' = [stack EXCEPT ![t] = <<Call(c)>>]
    /\ UNCHANGED <<flag, lists, pending, funcs, forked, fatal, calls>>

\* The same from inside +initialize.
Send(t) ==
    /\ Runs(t, "initialize")
    /\ \E c \in Top(t).todo :
           LET rest == Append(Caller(t), [Top(t) EXCEPT !.todo = @ \ {c}])
           IN  stack' = [stack EXCEPT ![t] =
                            IF flag[c] = "initialized" THEN rest ELSE Append(rest, Call(c))]
    /\ UNCHANGED <<flag, lists, pending, funcs, forked, fatal, calls>>

\* _objc_addWillInitializeClassFunc
AddWillInitializeClassFunc(t, f) ==
    /\ fatal = "no" /\ stack[t] = <<>> /\ f \notin funcs
    /\ funcs' = funcs \union {f}
    /\ stack' = [stack EXCEPT ![t] =
                    <<[pc |-> "add", cls |-> None, funcs |-> {f},
                       todo |-> {c \in Class : flag[c] # "none"}]>>]
    /\ UNCHANGED <<flag, lists, pending, forked, fatal, calls>>

\* _objc_atfork_child: the other threads are gone; the child may start new ones.
Fork(t) ==
    /\ MayFork /\ ~forked /\ fatal = "no"
    /\ stack[t] = <<>> \/ Runs(t, "initialize")
    /\ forked' = TRUE
    /\ stack' = [u \in Thread |-> IF u = t THEN stack[t] ELSE <<>>]
    /\ lists' = [u \in Thread |-> IF u = t THEN lists[t] ELSE {}]
    /\ UNCHANGED <<flag, pending, funcs, fatal, calls>>

-----------------------------------------------------------------------------
(* lockAndFinishInitializing *)

SuperUninitialized(c) == Super[c] # None /\ flag[Super[c]] # "initialized"

\* The subclasses of c that were merely waiting for it, and theirs.
Waiting(c) ==
    {d \in Class : c \in Ancestors[d]
                   /\ ({d} \union Ancestors[d]) \ ({c} \union Ancestors[c]) \subseteq pending}

\* Mutant: the superclass is not waited for.
LockAndFinishAtOnce(t, c) ==
    /\ flag' = [flag EXCEPT ![c] = "initialized"]
    /\ lists' = [lists EXCEPT ![t] = @ \ {c}]
    /\ UNCHANGED <<pending, fatal>>

LockAndFinishInitializing(t, c) ==
    \/ /\ SuperUninitialized(c)
       /\ pending' = pending \union {c}
       /\ UNCHANGED <<flag, lists, fatal>>
    \/ /\ ~SuperUninitialized(c)
       /\ LET done == {c} \union Waiting(c)
          IN  /\ flag' = [d \in Class |-> IF d \in done THEN "initialized" ELSE flag[d]]
              /\ pending' = pending \ done
              /\ lists' = [lists EXCEPT ![t] = @ \ done]
              /\ fatal' = IF done \subseteq lists[t] THEN "no" ELSE "buggy"

\* performForkChildInitialize
PerformForkChildInitialize(t, c) ==
    \/ c \in Trivial /\ LockAndFinishInitializing(t, c)
    \/ c \notin Trivial /\ fatal' = "fork" /\ UNCHANGED <<flag, lists, pending>>

-----------------------------------------------------------------------------
(* initializeNonMetaClass *)

InitializeSuper(t) ==
    /\ Runs(t, "super")
    /\ LET c == Top(t).cls
           rest == Append(Caller(t), [Top(t) EXCEPT !.pc = "try"])
       IN  stack' = [stack EXCEPT ![t] =
                        IF SuperUninitialized(c) THEN Append(rest, Call(Super[c])) ELSE rest]
    /\ UNCHANGED <<flag, lists, pending, funcs, forked, fatal, calls>>

SetInitializing(t) ==
    /\ Runs(t, "try")
    /\ LET c == Top(t).cls
       IN  \/ /\ flag[c] = "none"
              /\ flag' = [flag EXCEPT ![c] = "initializing"]
              /\ lists' = [lists EXCEPT ![t] = @ \union {c}]
              /\ fatal' = IF c \in lists[t] THEN "buggy" ELSE "no"
              /\ stack' = [stack EXCEPT ![t][Len(stack[t])] =
                              [@ EXCEPT !.pc = IF forked THEN "fork" ELSE "callbacks",
                                        !.funcs = funcs]]
           \/ /\ flag[c] # "none"
              /\ Goto(t, "initializing")
              /\ UNCHANGED <<flag, lists, fatal>>
    /\ UNCHANGED <<pending, funcs, forked, calls>>

CallFuncs(fs, cs) ==
    calls' = [f \in Callback |-> [c \in Class |->
                 calls[f][c] + IF f \in fs /\ c \in cs THEN 1 ELSE 0]]

\* callInitialize: +initialize is sent by a message, to a class that is not
\* initialized.
CallInitialize(t) ==
    LET c == Top(t).cls
        frame == [Top(t) EXCEPT !.pc = "initialize", !.funcs = {}, !.todo = Messages[c]]
    IN  stack' = [stack EXCEPT ![t] = Caller(t) \o <<frame, Call(c)>>]

\* Mutant: not the copy of the callbacks that was made under the lock.
CallBackAll(t) ==
    /\ Runs(t, "callbacks")
    /\ CallFuncs(funcs, {Top(t).cls})
    /\ CallInitialize(t)
    /\ UNCHANGED <<flag, lists, pending, funcs, forked, fatal>>

CallBack(t) ==
    /\ Runs(t, "callbacks")
    /\ CallFuncs(Top(t).funcs, {Top(t).cls})
    /\ CallInitialize(t)
    /\ UNCHANGED <<flag, lists, pending, funcs, forked, fatal>>

\* +initialize returns or throws.
EndInitialize(t) ==
    /\ Runs(t, "initialize")
    /\ LockAndFinishInitializing(t, Top(t).cls)
    /\ Return(t)
    /\ UNCHANGED <<funcs, forked, calls>>

EndInitializeInForkChild(t) ==
    /\ Runs(t, "fork")
    /\ PerformForkChildInitialize(t, Top(t).cls)
    /\ Return(t)
    /\ UNCHANGED <<funcs, forked, calls>>

\* Mutants: the order of the tests that the NOTE warns of; nobody waits; a forked
\* child waits.
IsInitializingLast(t) ==
    /\ Runs(t, "initializing")
    /\ IF flag[Top(t).cls] = "initialized" THEN Return(t) ELSE Goto(t, "initialized")
    /\ UNCHANGED <<flag, lists, pending, funcs, forked, fatal, calls>>
IsInitializingNobody(t) ==
    /\ Runs(t, "initializing")
    /\ IF flag[Top(t).cls] = "initializing" THEN Return(t) ELSE Goto(t, "initialized")
    /\ UNCHANGED <<flag, lists, pending, funcs, forked, fatal, calls>>
IsInitializingWaits(t) ==
    /\ Runs(t, "initializing")
    /\ LET c == Top(t).cls
       IN  \/ flag[c] = "initializing" /\ c \in lists[t] /\ Return(t)
           \/ flag[c] = "initializing" /\ c \notin lists[t] /\ Goto(t, "wait")
           \/ flag[c] # "initializing" /\ Goto(t, "initialized")
    /\ UNCHANGED <<flag, lists, pending, funcs, forked, fatal, calls>>

\* The flag could not be set: is the class initializing?
IsInitializing(t) ==
    /\ Runs(t, "initializing")
    /\ LET c == Top(t).cls
       IN  \/ /\ flag[c] = "initializing" /\ c \in lists[t]
              /\ Return(t)
              /\ UNCHANGED lists
           \/ /\ flag[c] = "initializing" /\ c \notin lists[t] /\ ~forked
              /\ Goto(t, "wait")
              /\ UNCHANGED lists
           \/ /\ flag[c] = "initializing" /\ c \notin lists[t] /\ forked
              /\ lists' = [lists EXCEPT ![t] = @ \union {c}]
              /\ Goto(t, "fork")
           \/ /\ flag[c] # "initializing"
              /\ Goto(t, "initialized")
              /\ UNCHANGED lists
    /\ UNCHANGED <<flag, pending, funcs, forked, fatal, calls>>

\* Is it initialized?
IsInitialized(t) ==
    /\ Runs(t, "initialized")
    /\ fatal' = IF flag[Top(t).cls] = "initialized" THEN "no" ELSE "buggy"
    /\ Return(t)
    /\ UNCHANGED <<flag, lists, pending, funcs, forked, calls>>

WaitForInitializeToComplete(t) ==
    /\ Runs(t, "wait")
    /\ flag[Top(t).cls] = "initialized"
    /\ Return(t)
    /\ UNCHANGED <<flag, lists, pending, funcs, forked, fatal, calls>>

\* The rest of _objc_addWillInitializeClassFunc.
CallAdded(t) ==
    /\ Runs(t, "add")
    /\ CallFuncs(Top(t).funcs, Top(t).todo)
    /\ Return(t)
    /\ UNCHANGED <<flag, lists, pending, funcs, forked, fatal>>

-----------------------------------------------------------------------------
(* Specification *)

Client(t) ==
    \/ \E c \in Class : Message(t, c)
    \/ \E f \in Callback : AddWillInitializeClassFunc(t, f)
    \/ Fork(t)

Step(t) ==
    \/ Send(t) \/ InitializeSuper(t) \/ SetInitializing(t) \/ CallBack(t)
    \/ EndInitialize(t) \/ EndInitializeInForkChild(t) \/ IsInitializing(t)
    \/ IsInitialized(t) \/ WaitForInitializeToComplete(t) \/ CallAdded(t)

Next == \E t \in Thread : Client(t) \/ Step(t)

Spec == Init /\ [][Next]_vars

\* Threads run, and a +initialize method returns.
FairSpec == Spec /\ \A t \in Thread : WF_vars(Step(t))

-----------------------------------------------------------------------------
(* Properties *)

\* The type of every variable.
TypeOK ==
    /\ flag \in [Class -> {"none", "initializing", "initialized"}]
    /\ lists \in [Thread -> SUBSET Class]
    /\ pending \subseteq Class
    /\ funcs \subseteq Callback
    /\ stack \in [Thread -> Seq(Frame)]
    /\ forked \in BOOLEAN
    /\ fatal \in {"no", "buggy", "fork"}
    /\ calls \in [Callback -> [Class -> 0 .. 1]]

\* "The initializing+initialized part of the class hierarchy will be a
\* contiguous subtree starting at the root, so other threads can't jump into
\* the middle between two initializing classes": a class that is initializing
\* belongs to one thread, and so does its superclass, if that is not done.
Contiguous ==
    \A c \in Class : flag[c] # "none" =>
        /\ Super[c] # None => flag[Super[c]] # "none"
        /\ Super[c] # None /\ flag[c] = "initialized" => flag[Super[c]] = "initialized"
        /\ flag[c] = "initializing" /\ ~forked =>
               \E t \in Thread : \A u \in Thread, d \in {c} \union Ancestors[c] :
                   flag[d] = "initializing" => (d \in lists[u] <=> u = t)

\* None of the fatal errors of the class initialization is reached: "already
\* initializing", "not initializing", "thread-safe class init is buggy".
NeverBuggy == fatal # "buggy"

\* A callback that was registered sees every class once, before +initialize, or
\* from the thread that registers it.
CallbackOnce ==
    \A t \in Thread : \A i \in 1 .. Len(stack[t]) : stack[t][i].pc = "initialize" =>
        \A f \in funcs :
            \/ calls[f][stack[t][i].cls] = 1
            \/ \E u \in Thread : stack[u] # <<>> /\ Top(u).pc = "add" /\ f \in Top(u).funcs
                                 /\ stack[t][i].cls \in Top(u).todo
            \/ forked

\* "This thread will be allowed to send messages to the class, but other threads
\* will have to wait": a call returns when the class is initialized, or is being
\* initialized by its thread.
OthersWait ==
    [][\A t \in Thread :
           Len(stack'[t]) < Len(stack[t]) /\ ~(forked' /\ ~forked) /\ fatal' = "no" =>
               \/ Top(t).pc = "add"
               \/ flag'[Top(t).cls] = "initialized"
               \/ Top(t).cls \in lists'[t]]_vars

\* Every message ends, or the forked child halts, when no +initialize waits, by
\* the messages of others, for itself.
MessagesReturn == \A t \in Thread : []<>(stack[t] = <<>> \/ fatal # "no")
=============================================================================
