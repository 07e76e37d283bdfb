--------------------------- MODULE InitializeProofs ---------------------------
(***************************************************************************)
(* Safety of Initialize.tla for any class hierarchy, +initialize methods,  *)
(* threads and callbacks, with or without a fork: the inductive invariant  *)
(* IInv, a lemma for every action that says it preserves IInv, and the     *)
(* theorems that follow.                                                   *)
(* What is being initialized above the class that a thread runs            *)
(* +initialize for, and below it, is on that thread's list (BelowInv); so  *)
(* the classes that wait for their superclass are finished by the thread   *)
(* that put them there, and one that waits has such a superclass           *)
(* (PendingInv), that will not forget it (WaitingFor).                     *)
(***************************************************************************)
EXTENDS Initialize, SequenceTheorems, TLAPS
-----------------------------------------------------------------------------
(* The inductive invariant *)

\* A call that has set the flag of its class: it calls the callbacks, or +initialize.
Active(f) == f.pc \in {"callbacks", "initialize"}

\* The classes that a stack of calls is in the middle of.
Entered(s) == {s[i].cls : i \in {j \in 1 .. Len(s) : Active(s[j])}}
Running(t) == Entered(stack[t])

\* The class that a call deals with in a forked child.
Forks(s) == {s[i].cls : i \in {j \in 1 .. Len(s) : s[j].pc = "fork"}}
Forking(t) == Forks(stack[t])

\* What each call knows.
FrameOK(f) ==
    /\ f.pc # "add" => f.cls \in Class
    /\ f.pc \notin {"super", "try", "add"} => flag[f.cls] # "none"
    /\ f.pc = "initialized" => flag[f.cls] = "initialized"
    /\ f.pc = "initialize" => f.todo \subseteq Messages[f.cls]
    /\ f.pc = "callbacks" => ~forked
    /\ f.pc = "fork" => forked
    /\ f.funcs \subseteq funcs

\* A call of f makes the call g: it is for the superclass, or f runs +initialize.
Link(f, g) ==
    /\ f.pc \in {"try", "initialize"} /\ g.pc # "add"
    /\ f.pc = "try" => g.cls = Super[f.cls]

StackOK(s) ==
    \A i \in 1 .. Len(s) : FrameOK(s[i]) /\ (i < Len(s) => Link(s[i], s[i + 1]))

\* While f runs there is g: for a class that was entered later, so is not among those
\* above; in an empty +initialize, only to find that those above are entered.
Inside(f, g) ==
    /\ Active(f) /\ Active(g) => g.cls \notin {f.cls} \union Ancestors[f.cls]
    /\ f.pc = "initialize" /\ f.cls \in Trivial =>
           ~Active(g) /\ g.pc # "fork" /\ g.cls \in {f.cls} \union Ancestors[f.cls]

OrderOK(s) == \A j \in 1 .. Len(s) : \A i \in 1 .. j - 1 : Inside(s[i], s[j])

StackInv == \A t \in Thread : StackOK(stack[t])
OrderInv == \A t \in Thread : OrderOK(stack[t])

\* What was entered, and initialized, before a class.
SubtreeInv ==
    \A c \in Class : flag[c] # "none" /\ Super[c] # None =>
        /\ flag[Super[c]] # "none"
        /\ flag[c] = "initialized" => flag[Super[c]] = "initialized"

\* The superclass is initialized, or this thread is the one to do it.
Ready(t, c) == Super[c] = None \/ flag[Super[c]] = "initialized" \/ Super[c] \in lists[t]

ReadyInv ==
    \A t \in Thread : stack[t] # <<>> /\ Top(t).pc \in {"try", "initializing", "fork"} =>
        Ready(t, Top(t).cls)

\* The list of a thread has the classes it is in the middle of and those that wait
\* for their superclass.  In a forked child, one thread may be in the middle of some.
ListInv ==
    \A t \in Thread :
        /\ \A c \in lists[t] : flag[c] # "none" /\ (~forked => flag[c] = "initializing")
        /\ Running(t) \union Forking(t) \subseteq lists[t]
        /\ lists[t] \subseteq Running(t) \union Forking(t) \union pending
        /\ Running(t) \intersect (Forking(t) \union pending) = {}
        /\ \A c \in Running(t) \ Trivial : flag[c] = "initializing"
        /\ forked => \A u \in Thread : Running(t) # {} /\ Running(u) # {} => t = u

\* What is being initialized above or below a class belongs to the thread that is in
\* the middle of that.
BelowInv ==
    \A t \in Thread : \A c \in Running(t), d \in Class : flag[d] = "initializing" =>
        /\ d \in Ancestors[c] => d \in lists[t]
        /\ c \in Ancestors[d] /\ c \notin Trivial => d \in lists[t]

\* A class waits for a superclass whose +initialize runs, or ran when the process was
\* forked.
WaitsFor(c, d) ==
    /\ d \in Ancestors[c] \ (Trivial \union pending)
    /\ flag[d] = "initializing"
    /\ \A t \in Thread : c \in lists[t] => d \in Running(t)

PendingInv == \A c \in pending : flag[c] = "initializing" /\ \E d \in Class : WaitsFor(c, d)

\* The thread that has to call f for c.
Owing(t, f, c) ==
    /\ stack[t] # <<>> /\ f \in Top(t).funcs
    /\ \/ Top(t).pc = "callbacks" /\ c = Top(t).cls
       \/ Top(t).pc = "add" /\ c \in Top(t).todo

CallbackInv ==
    \A f \in Callback, c \in Class :
        /\ f \notin funcs \/ flag[c] = "none" =>
               calls[f][c] = 0 /\ \A t \in Thread : ~Owing(t, f, c)
        /\ f \in funcs /\ flag[c] # "none" /\ ~forked =>
               calls[f][c] = 1 \/ \E t \in Thread : Owing(t, f, c)
        /\ \A t \in Thread : Owing(t, f, c) =>
               calls[f][c] = 0 /\ \A u \in Thread : Owing(u, f, c) => u = t

FatalInv == fatal \in {"no", "fork"} /\ (fatal = "fork" => forked)

\* What the calls to come rely on, unless the child halts.
GoInv == ReadyInv /\ ListInv /\ BelowInv /\ OrderInv /\ PendingInv

\* All of it.
IInv ==
    /\ TypeOK /\ FatalInv /\ StackInv /\ SubtreeInv /\ Contiguous /\ CallbackInv
    /\ fatal = "no" => GoInv

-----------------------------------------------------------------------------
(* The class hierarchy *)

\* Ancestors is the least set of its kind.
LEMMA AncestorsLeast ==
    ASSUME NEW c \in Class, NEW S \in SUBSET Class, Super[c] \in S \union {None},
           \A e \in S : Super[e] \in S \union {None}
    PROVE  Ancestors[c] \subseteq S
BY DEF Ancestors

\* The superclass is an ancestor, and its ancestors are.
LEMMA AncestorsSuper ==
    ASSUME NEW c \in Class
    PROVE  /\ Ancestors[c] \subseteq Class
           /\ Super[c] = None => Ancestors[c] = {}
           /\ Super[c] # None =>
                  Super[c] \in Class /\ Ancestors[c] = {Super[c]} \union Ancestors[Super[c]]
<1>1. Ancestors[c] \subseteq Class /\ Super[c] \in Class \union {None} /\ None \notin Class
    BY InitializeAssumption DEF Ancestors
<1>2. ASSUME Super[c] = None PROVE Ancestors[c] = {}
  <2>1. {} \in SUBSET Class /\ Super[c] \in {} \union {None}
    BY <1>2
  <2>2. Ancestors[c] \subseteq {}
    BY <2>1, AncestorsLeast
  <2>. QED
    BY <2>2
<1>3. ASSUME Super[c] # None
      PROVE  Super[c] \in Class /\ Ancestors[c] = {Super[c]} \union Ancestors[Super[c]]
  <2>. DEFINE s == Super[c]
  <2>1. s \in Class
    BY <1>1, <1>3
  <2>2. s \in Ancestors[c]
    <3>1. \A S \in SUBSET Class : (\A e \in {c} \union S : Super[e] \in S \union {None}) => s \in S
      BY <1>3
    <3>. QED
      BY <2>1, <3>1 DEF Ancestors
  <2>3. Ancestors[s] \subseteq Ancestors[c]
    <3>. SUFFICES ASSUME NEW S \in SUBSET Class, \A e \in {c} \union S : Super[e] \in S \union {None}
                  PROVE  Ancestors[s] \subseteq S
      BY <2>1 DEF Ancestors
    <3>1. s \in S
      BY <1>3
    <3>. QED
      BY <2>1, <3>1, AncestorsLeast
  <2>4. Ancestors[c] \subseteq {s} \union Ancestors[s]
    <3>. DEFINE S == {s} \union Ancestors[s]
    <3>1. S \in SUBSET Class
      BY <2>1 DEF Ancestors
    <3>2. ASSUME NEW e \in S PROVE Super[e] \in S \union {None}
      <4>1. CASE e = s
        <5>. SUFFICES ASSUME Super[s] # None PROVE Super[s] \in Ancestors[s]
          BY <4>1
        <5>1. Super[s] \in Class
          BY <2>1, InitializeAssumption
        <5>2. \A T \in SUBSET Class :
                  (\A x \in {s} \union T : Super[x] \in T \union {None}) => Super[s] \in T
          OBVIOUS
        <5>. QED
          BY <2>1, <5>1, <5>2 DEF Ancestors
      <4>2. CASE e \in Ancestors[s]
        <5>. SUFFICES ASSUME Super[e] # None PROVE Super[e] \in Ancestors[s]
          OBVIOUS
        <5>1. e \in Class /\ Super[e] \in Class
          BY <2>1, <3>1, InitializeAssumption
        <5>2. \A T \in SUBSET Class :
                  (\A x \in {s} \union T : Super[x] \in T \union {None}) => Super[e] \in T
          BY <2>1, <4>2 DEF Ancestors
        <5>. QED
          BY <2>1, <5>1, <5>2 DEF Ancestors
      <4>. QED
        BY <4>1, <4>2
    <3>3. Super[c] \in S \union {None}
      OBVIOUS
    <3>. HIDE DEF S
    <3>. QED
      BY <3>1, <3>2, <3>3, AncestorsLeast DEF S
  <2>. QED
    BY <2>1, <2>2, <2>3, <2>4
<1>. QED
    BY <1>1, <1>2, <1>3

\* Ancestors of ancestors are ancestors.
LEMMA AncestorsTransitive ==
    ASSUME NEW c \in Class, NEW d \in Ancestors[c]
    PROVE  d \in Class /\ Ancestors[d] \subseteq Ancestors[c]
<1>. DEFINE S == {e \in Ancestors[c] : Ancestors[e] \subseteq Ancestors[c]}
<1>1. S \in SUBSET Class
    BY AncestorsSuper
<1>2. Super[c] \in S \union {None}
    BY AncestorsSuper
<1>3. \A e \in S : Super[e] \in S \union {None}
    BY <1>1, AncestorsSuper
<1>4. Ancestors[c] \subseteq S
    BY <1>1, <1>2, <1>3, AncestorsLeast
<1>. QED
    BY <1>1, <1>4

\* Two superclasses of a class are superclasses of one another.
LEMMA AncestorsLinear ==
    ASSUME NEW c \in Class, NEW d \in Ancestors[c], NEW e \in {c} \union Ancestors[c]
    PROVE  e = d \/ e \in Ancestors[d] \/ d \in Ancestors[e]
<1>. DEFINE S == {x \in Class : x = d \/ x \in Ancestors[d] \/ d \in Ancestors[x]}
<1>1. d \in Class
    BY AncestorsSuper
<1>2. ASSUME NEW x \in S PROVE Super[x] \in S \union {None}
  <2>. SUFFICES ASSUME Super[x] # None PROVE Super[x] \in S
    OBVIOUS
  <2>1. x \in Class /\ Super[x] \in Class /\ Ancestors[x] = {Super[x]} \union Ancestors[Super[x]]
    BY AncestorsSuper
  <2>2. CASE x = d
    BY <2>1, <2>2
  <2>3. CASE x \in Ancestors[d]
    <3>1. Ancestors[x] \subseteq Ancestors[d]
      BY <1>1, <2>3, AncestorsTransitive
    <3>. QED
      BY <2>1, <3>1
  <2>4. CASE d \in Ancestors[x]
    BY <2>1, <2>4
  <2>. QED
    BY <2>2, <2>3, <2>4
<1>3. c \in S
    OBVIOUS
<1>4. Ancestors[c] \subseteq S
    BY <1>2, <1>3, AncestorsLeast
<1>. QED
    BY <1>3, <1>4

\* With a class its superclasses have been entered; with one that is initialized they
\* are initialized.
LEMMA EnteredAbove ==
    ASSUME SubtreeInv, NEW c \in Class
    PROVE  /\ flag[c] # "none" => \A d \in Ancestors[c] : flag[d] # "none"
           /\ flag[c] = "initialized" => \A d \in Ancestors[c] : flag[d] = "initialized"
<1>1. ASSUME flag[c] # "none"
      PROVE  \A d \in Ancestors[c] : flag[d] # "none"
  <2>. DEFINE S == {d \in Class : flag[d] # "none"}
  <2>1. \A e \in S : Super[e] \in S \union {None}
    BY InitializeAssumption DEF SubtreeInv
  <2>2. c \in S
    BY <1>1
  <2>. QED
    BY <2>1, <2>2, AncestorsLeast
<1>2. ASSUME flag[c] = "initialized"
      PROVE  \A d \in Ancestors[c] : flag[d] = "initialized"
  <2>. DEFINE S == {d \in Class : flag[d] = "initialized"}
  <2>1. \A e \in S : Super[e] \in S \union {None}
    BY InitializeAssumption DEF SubtreeInv
  <2>2. c \in S
    BY <1>2
  <2>. QED
    BY <2>1, <2>2, AncestorsLeast
<1>. QED
    BY <1>1, <1>2

-----------------------------------------------------------------------------
(* Stacks of calls *)

\* A stack is that of the caller and the innermost call.
LEMMA Split ==
    ASSUME NEW q \in Seq(Frame), q # <<>>
    PROVE  /\ SubSeq(q, 1, Len(q) - 1) \in Seq(Frame) /\ q[Len(q)] \in Frame
           /\ Len(q) = Len(SubSeq(q, 1, Len(q) - 1)) + 1
           /\ q = Append(SubSeq(q, 1, Len(q) - 1), q[Len(q)])
           /\ \A f : [q EXCEPT ![Len(q)] = f] = Append(SubSeq(q, 1, Len(q) - 1), f)
<1>. DEFINE n == Len(q) - 1
            s == SubSeq(q, 1, n)
<1>1. Len(q) \in Nat /\ Len(q) # 0 /\ q \in [1 .. Len(q) -> Frame]
    BY LenProperties, EmptySeq
<1>2. n \in Nat /\ n + 1 = Len(q) /\ n <= Len(q)
    BY <1>1
<1>3. s \in Seq(Frame) /\ Len(s) = n /\ \A i \in 1 .. n : s[i] = q[i]
    BY <1>1, <1>2, SubSeqProperties
<1>4. q[Len(q)] \in Frame
    BY <1>1
<1>5. ASSUME NEW f
      PROVE  [q EXCEPT ![Len(q)] = f] = Append(s, f)
  <2>1. /\ s \in Seq(Frame \union {f}) /\ q \in Seq(Frame \union {f})
        /\ q \in [1 .. Len(q) -> Frame \union {f}]
    <3>1. Frame \subseteq Frame \union {f}
      OBVIOUS
    <3>2. q \in [1 .. Len(q) -> Frame \union {f}] /\ s \in [1 .. n -> Frame \union {f}]
      BY <1>1, <1>2, <1>3, LenProperties
    <3>. QED
      BY <1>1, <1>2, <3>2
  <2>. DEFINE a == [q EXCEPT ![Len(q)] = f]
              b == Append(s, f)
  <2>2. b \in Seq(Frame \union {f}) /\ Len(b) = n + 1 /\ b[n + 1] = f /\ \A i \in 1 .. n : b[i] = s[i]
    <3>1. PICK S : S = Frame \union {f}
      OBVIOUS
    <3>2. s \in Seq(S) /\ f \in S
      BY <2>1, <3>1
    <3>. QED
      BY <1>3, <3>1, <3>2, AppendProperties
  <2>3. a = [i \in 1 .. Len(q) |-> IF i = Len(q) THEN f ELSE q[i]]
    BY <1>1
  <2>. HIDE DEF b
  <2>4. b = [i \in 1 .. n + 1 |-> b[i]]
    BY <2>2, LenProperties
  <2>5. \A i \in 1 .. n + 1 : b[i] = IF i = n + 1 THEN f ELSE q[i]
    <3>1. ASSUME NEW m \in Nat
          PROVE  (\A i \in 1 .. m + 1 : i \in 1 .. m \/ i = m + 1) /\ m + 1 \notin 1 .. m
      OBVIOUS
    <3>2. (\A i \in 1 .. n + 1 : i \in 1 .. n \/ i = n + 1) /\ n + 1 \notin 1 .. n
      BY <1>2, <3>1
    <3>. QED
      BY <1>3, <2>2, <3>2
  <2>. QED
    BY <1>2, <2>3, <2>4, <2>5 DEF b
<1>6. q = Append(s, q[Len(q)])
  <2>1. [q EXCEPT ![Len(q)] = q[Len(q)]] = q
    BY <1>1
  <2>. QED
    BY <1>5, <2>1
<1>. QED
    BY <1>2, <1>3, <1>4, <1>5, <1>6

\* A call is added to a stack.
LEMMA Push ==
    ASSUME NEW s \in Seq(Frame), NEW f \in Frame
    PROVE  /\ Append(s, f) \in Seq(Frame) /\ Append(s, f) # <<>>
           /\ Len(Append(s, f)) = Len(s) + 1 /\ Len(s) \in Nat
           /\ Append(s, f)[Len(s) + 1] = f
           /\ Append(s, f)[Len(Append(s, f))] = f
           /\ \A i \in 1 .. Len(s) : Append(s, f)[i] = s[i] /\ s[i] \in Frame
           /\ SubSeq(Append(s, f), 1, Len(Append(s, f)) - 1) = s
           /\ \A i \in 1 .. Len(Append(s, f)) : i \in 1 .. Len(s) \/ i = Len(s) + 1
<1>. DEFINE q == Append(s, f)
<1>1. q \in Seq(Frame) /\ Len(q) = Len(s) + 1 /\ Len(s) \in Nat /\ q[Len(s) + 1] = f
      /\ \A i \in 1 .. Len(s) : q[i] = s[i]
    BY AppendProperties, LenProperties
<1>2. \A i \in 1 .. Len(s) : s[i] \in Frame
    BY ElementOfSeq
<1>3. q # <<>>
    BY <1>1, EmptySeq
<1>4. SubSeq(q, 1, Len(q) - 1) = s
  <2>. DEFINE p == SubSeq(q, 1, Len(q) - 1)
  <2>1. p \in Seq(Frame) /\ Len(p) = Len(s) /\ \A i \in 1 .. Len(s) : p[i] = s[i]
    BY <1>1, SubSeqProperties
  <2>2. p = [i \in 1 .. Len(p) |-> p[i]] /\ s = [i \in 1 .. Len(s) |-> s[i]]
    BY <2>1, LenProperties
  <2>. QED
    BY <2>1, <2>2
<1>5. \A i \in 1 .. Len(q) : i \in 1 .. Len(s) \/ i = Len(s) + 1
    BY <1>1
<1>. QED
    BY <1>1, <1>2, <1>3, <1>4, <1>5

\* The classes that a longer stack is in the middle of.
LEMMA EnteredPush ==
    ASSUME NEW s \in Seq(Frame), NEW f \in Frame
    PROVE  /\ Active(f) => Entered(Append(s, f)) = Entered(s) \union {f.cls}
           /\ ~Active(f) => Entered(Append(s, f)) = Entered(s)
           /\ f.pc = "fork" => Forks(Append(s, f)) = Forks(s) \union {f.cls}
           /\ f.pc # "fork" => Forks(Append(s, f)) = Forks(s)
<1>. DEFINE q == Append(s, f)
<1>1. /\ \A i \in 1 .. Len(s) : q[i] = s[i] /\ i \in 1 .. Len(q)
      /\ q[Len(s) + 1] = f /\ Len(s) + 1 \in 1 .. Len(q)
      /\ \A i \in 1 .. Len(q) : i \in 1 .. Len(s) \/ i = Len(s) + 1
    BY Push
<1>. HIDE DEF q
<1>2. Entered(q) = Entered(s) \union {g.cls : g \in {h \in {f} : Active(h)}}
    BY <1>1 DEF Entered
<1>3. Forks(q) = Forks(s) \union {g.cls : g \in {h \in {f} : h.pc = "fork"}}
    BY <1>1 DEF Forks
<1>. QED
    BY <1>2, <1>3 DEF q

\* A stack of calls is in order when the caller's is and the call is in its place.
LEMMA StackPush ==
    ASSUME NEW s \in Seq(Frame), NEW f \in Frame
    PROVE  StackOK(Append(s, f)) <=> /\ StackOK(s) /\ FrameOK(f)
                                     /\ s # <<>> => Link(s[Len(s)], f)
<1>. DEFINE q == Append(s, f)
<1>1. /\ \A i \in 1 .. Len(s) : q[i] = s[i] /\ i \in 1 .. Len(q)
      /\ q[Len(s) + 1] = f /\ Len(s) + 1 \in 1 .. Len(q) /\ Len(q) = Len(s) + 1 /\ Len(s) \in Nat
      /\ \A i \in 1 .. Len(q) : i \in 1 .. Len(s) \/ i = Len(s) + 1
    BY Push
<1>2. s # <<>> <=> Len(s) \in 1 .. Len(s)
    BY <1>1, EmptySeq
<1>. HIDE DEF q
<1>3. ASSUME StackOK(q)
      PROVE  StackOK(s) /\ FrameOK(f) /\ (s # <<>> => Link(s[Len(s)], f))
  <2>1. \A i \in 1 .. Len(s) : FrameOK(s[i])
    BY <1>1, <1>3 DEF StackOK
  <2>2. FrameOK(f)
    BY <1>1, <1>3 DEF StackOK
  <2>3. ASSUME NEW i \in 1 .. Len(s)
        PROVE  Link(q[i], q[i + 1])
    BY <1>1, <1>3 DEF StackOK
  <2>4. \A i \in 1 .. Len(s) : i < Len(s) => Link(s[i], s[i + 1])
    BY <1>1, <2>3
  <2>. QED
    BY <1>1, <1>2, <2>1, <2>2, <2>3, <2>4 DEF StackOK
<1>4. ASSUME StackOK(s), FrameOK(f), s # <<>> => Link(s[Len(s)], f)
      PROVE  StackOK(q)
  <2>. SUFFICES ASSUME NEW i \in 1 .. Len(q)
                PROVE  FrameOK(q[i]) /\ (i < Len(q) => Link(q[i], q[i + 1]))
    BY DEF StackOK
  <2>1. FrameOK(q[i])
    BY <1>1, <1>4 DEF StackOK
  <2>2. ASSUME i < Len(s) PROVE Link(q[i], q[i + 1])
    <3>1. i \in 1 .. Len(s) /\ i + 1 \in 1 .. Len(s)
      BY <1>1, <2>2
    <3>. QED
      BY <1>1, <1>4, <2>2, <3>1 DEF StackOK
  <2>3. ASSUME i = Len(s) PROVE Link(q[i], q[i + 1])
    BY <1>1, <1>2, <1>4, <2>3
  <2>. QED
    BY <1>1, <2>1, <2>2, <2>3
<1>. QED
    BY <1>3, <1>4 DEF q

\* So it is with the order in which classes are entered.
LEMMA OrderPush ==
    ASSUME NEW s \in Seq(Frame), NEW f \in Frame
    PROVE  OrderOK(Append(s, f)) <=> OrderOK(s) /\ \A i \in 1 .. Len(s) : Inside(s[i], f)
<1>. DEFINE q == Append(s, f)
<1>1. /\ \A i \in 1 .. Len(s) : q[i] = s[i] /\ i \in 1 .. Len(q)
      /\ q[Len(s) + 1] = f /\ Len(s) + 1 \in 1 .. Len(q) /\ Len(q) = Len(s) + 1 /\ Len(s) \in Nat
      /\ \A i \in 1 .. Len(q) : i \in 1 .. Len(s) \/ i = Len(s) + 1
    BY Push
<1>. HIDE DEF q
<1>2. ASSUME OrderOK(q)
      PROVE  OrderOK(s) /\ \A i \in 1 .. Len(s) : Inside(s[i], f)
  <2>1. ASSUME NEW j \in 1 .. Len(s), NEW i \in 1 .. j - 1 PROVE Inside(s[i], s[j])
    BY <1>1, <1>2 DEF OrderOK
  <2>2. ASSUME NEW i \in 1 .. Len(s) PROVE Inside(s[i], f)
    BY <1>1, <1>2 DEF OrderOK
  <2>. QED
    BY <2>1, <2>2 DEF OrderOK
<1>3. ASSUME OrderOK(s), \A i \in 1 .. Len(s) : Inside(s[i], f)
      PROVE  OrderOK(q)
  <2>. SUFFICES ASSUME NEW j \in 1 .. Len(q), NEW i \in 1 .. j - 1 PROVE Inside(q[i], q[j])
    BY DEF OrderOK
  <2>1. CASE j \in 1 .. Len(s)
    <3>1. i \in 1 .. Len(s)
      BY <1>1, <2>1
    <3>. QED
      BY <1>1, <1>3, <2>1, <3>1 DEF OrderOK
  <2>2. CASE j = Len(s) + 1
    BY <1>1, <1>3, <2>2
  <2>. QED
    BY <1>1, <2>1, <2>2
<1>. QED
    BY <1>2, <1>3 DEF q

-----------------------------------------------------------------------------
(* Steps of a thread *)

\* The innermost call and its caller.
LEMMA TopSplit ==
    ASSUME TypeOK, NEW t \in Thread, stack[t] # <<>>
    PROVE  \E s \in Seq(Frame), f \in Frame :
               /\ stack[t] = Append(s, f) /\ Caller(t) = s /\ Top(t) = f
               /\ \A g : [stack[t] EXCEPT ![Len(stack[t])] = g] = Append(s, g)
               /\ Caller(t) \in Seq(Frame)
<1>1. stack[t] \in Seq(Frame)
    BY DEF TypeOK
<1>2. PICK q \in Seq(Frame) : q = stack[t]
    BY <1>1
<1>3. /\ SubSeq(q, 1, Len(q) - 1) \in Seq(Frame) /\ q[Len(q)] \in Frame
      /\ q = Append(SubSeq(q, 1, Len(q) - 1), q[Len(q)])
      /\ \A f : [q EXCEPT ![Len(q)] = f] = Append(SubSeq(q, 1, Len(q) - 1), f)
    BY <1>2, Split
<1>4. /\ Caller(t) \in Seq(Frame) /\ Top(t) \in Frame /\ stack[t] = Append(Caller(t), Top(t))
      /\ \A g : [stack[t] EXCEPT ![Len(stack[t])] = g] = Append(Caller(t), g)
    BY <1>2, <1>3 DEF Caller, Top
<1>. QED
    BY <1>4

\* Only the stack of one thread changes.
LEMMA StackOf ==
    ASSUME TypeOK, NEW t \in Thread, NEW q \in Seq(Frame), stack' = [stack EXCEPT ![t] = q]
    PROVE  /\ stack' \in [Thread -> Seq(Frame)] /\ stack'[t] = q
           /\ \A u \in Thread : stack'[u] = IF u = t THEN q ELSE stack[u]
           /\ \A u \in Thread : stack'[u] = stack[u] \/ (u = t /\ stack'[u] = q)
BY DEF TypeOK

\* A step to another label.
LEMMA GotoStep ==
    ASSUME TypeOK, NEW t \in Thread, stack[t] # <<>>, NEW label, Goto(t, label)
    PROVE  stack' = [stack EXCEPT ![t] = Append(Caller(t), [Top(t) EXCEPT !.pc = label])]
<1>1. stack' = [stack EXCEPT ![t] = [stack[t] EXCEPT ![Len(stack[t])] =
                                        [Top(t) EXCEPT !.pc = label]]]
    BY DEF Goto, TypeOK, Top
<1>2. [stack[t] EXCEPT ![Len(stack[t])] = [Top(t) EXCEPT !.pc = label]] =
          Append(Caller(t), [Top(t) EXCEPT !.pc = label])
    BY TopSplit
<1>. QED
    BY <1>1, <1>2

\* What a stack of calls knows stays true.
LEMMA StackStays ==
    ASSUME NEW s \in Seq(Frame), StackOK(s), forked' = forked, funcs \subseteq funcs',
           \A c \in Class : /\ flag[c] # "none" => flag'[c] # "none"
                            /\ flag[c] = "initialized" => flag'[c] = "initialized"
    PROVE  StackOK(s)'
<1>1. ASSUME NEW f \in Frame, FrameOK(f)
      PROVE  FrameOK(f)'
    BY <1>1 DEF FrameOK
<1>2. \A i \in 1 .. Len(s) : s[i] \in Frame
    BY ElementOfSeq
<1>. QED
    BY <1>1, <1>2 DEF StackOK

\* A call of which the flag is set returns: the caller may rely on it.
LEMMA ReturnReady ==
    ASSUME NEW t \in Thread, NEW s \in Seq(Frame), NEW f \in Frame, StackOK(Append(s, f)),
           s # <<>>, f.cls \in Class => flag'[f.cls] = "initialized" \/ f.cls \in lists'[t]
    PROVE  /\ s[Len(s)].pc \in {"try", "initialize"}
           /\ s[Len(s)].pc = "try" => Ready(t, s[Len(s)].cls)'
<1>1. Link(s[Len(s)], f) /\ FrameOK(f)
    BY StackPush
<1>2. s[Len(s)].pc = "try" => f.cls = Super[s[Len(s)].cls] /\ f.cls \in Class
    BY <1>1 DEF Link, FrameOK
<1>. QED
    BY <1>1, <1>2 DEF Link, Ready

\* A step that leaves alone what threads have entered.
LEMMA QuietStep ==
    ASSUME IInv, fatal = "no", NEW t \in Thread, NEW q \in Seq(Frame),
           stack' = [stack EXCEPT ![t] = q],
           UNCHANGED <<flag, lists, pending, forked>>, funcs \subseteq funcs',
           Entered(q) = Running(t), Forks(q) = Forking(t), OrderOK(q), StackOK(q)',
           q # <<>> /\ q[Len(q)].pc \in {"try", "initializing", "fork"} => Ready(t, q[Len(q)].cls)
    PROVE  StackInv' /\ SubtreeInv' /\ Contiguous' /\ GoInv'
<1>1. /\ stack'[t] = q /\ \A u \in Thread : stack'[u] = stack[u] \/ (u = t /\ stack'[u] = q)
      /\ \A u \in Thread : stack[u] \in Seq(Frame)
    BY StackOf DEF IInv, TypeOK
<1>2. \A u \in Thread : Running(u)' = Running(u) /\ Forking(u)' = Forking(u)
    BY <1>1 DEF Running, Forking
<1>3. StackInv'
  <2>. SUFFICES ASSUME NEW u \in Thread PROVE StackOK(stack[u])'
    BY DEF StackInv
  <2>1. CASE stack'[u] = q
    BY <2>1 DEF StackOK
  <2>2. CASE stack'[u] = stack[u]
    <3>1. PICK s \in Seq(Frame) : s = stack[u]
      BY <1>1
    <3>2. StackOK(s)'
      BY <3>1, StackStays DEF IInv, StackInv
    <3>. QED
      BY <2>2, <3>1, <3>2 DEF StackOK
  <2>. QED
    BY <1>1, <2>1, <2>2
<1>4. SubtreeInv' /\ Contiguous'
    BY DEF IInv, SubtreeInv, Contiguous
<1>5. ReadyInv'
  <2>1. ReadyInv
    BY DEF IInv, GoInv
  <2>. QED
    BY <1>1, <2>1 DEF ReadyInv, Ready, Top
<1>6. ListInv'
  <2>1. ListInv
    BY DEF IInv, GoInv
  <2>. QED
    BY <1>2, <2>1 DEF ListInv
<1>7. BelowInv'
  <2>1. BelowInv
    BY DEF IInv, GoInv
  <2>. QED
    BY <1>2, <2>1 DEF BelowInv
<1>8. OrderInv'
  <2>1. OrderInv
    BY DEF IInv, GoInv
  <2>. QED
    BY <1>1, <2>1 DEF OrderInv
<1>9. PendingInv'
  <2>1. PendingInv
    BY DEF IInv, GoInv
  <2>. QED
    BY <1>2, <2>1 DEF PendingInv, WaitsFor
<1>. QED
    BY <1>3, <1>4, <1>5, <1>6, <1>7, <1>8, <1>9 DEF GoInv

\* A call that is to call callbacks.
Calling(s) == s # <<>> /\ s[Len(s)].pc \in {"callbacks", "add"}

\* A step that leaves the callbacks alone.
LEMMA QuietCallbacks ==
    ASSUME IInv, NEW t \in Thread, NEW q \in Seq(Frame), stack' = [stack EXCEPT ![t] = q],
           ~Calling(stack[t]), ~Calling(q), UNCHANGED <<funcs, calls, forked>>,
           \A c \in Class : flag'[c] = "none" <=> flag[c] = "none"
    PROVE  CallbackInv'
<1>1. \A u \in Thread : stack'[u] = stack[u] \/ (u = t /\ stack'[u] = q)
    BY StackOf DEF IInv
<1>2. ASSUME NEW u \in Thread, NEW f \in Callback, NEW c \in Class
      PROVE  Owing(u, f, c)' <=> Owing(u, f, c)
    BY <1>1 DEF Owing, Calling, Top
<1>3. CallbackInv
    BY DEF IInv
<1>. QED
    BY <1>2, <1>3 DEF CallbackInv

\* No call is under way.
LEMMA NoCalls ==
    /\ <<>> \in Seq(Frame) /\ StackOK(<<>>) /\ OrderOK(<<>>) /\ Entered(<<>>) = {} /\ Forks(<<>>) = {}
    /\ ~Calling(<<>>)
    /\ \A f : <<f>> = Append(<<>>, f)
<1>1. <<>> \in Seq(Frame) /\ 1 .. Len(<<>>) = {}
    BY EmptySeq
<1>2. \A f : <<f>> = Append(<<>>, f)
    OBVIOUS
<1>3. StackOK(<<>>) /\ OrderOK(<<>>) /\ Entered(<<>>) = {} /\ Forks(<<>>) = {}
    BY <1>1 DEF StackOK, OrderOK, Entered, Forks
<1>. QED
    BY <1>1, <1>2, <1>3 DEF Calling

\* A call goes on for the same class, with nothing entered.
LEMMA Relabel ==
    ASSUME NEW s \in Seq(Frame), NEW f \in Frame, NEW g \in Frame,
           StackOK(Append(s, f)), OrderOK(Append(s, f)), FrameOK(g), g.cls = f.cls,
           f.pc # "add", g.pc \notin {"callbacks", "initialize", "fork", "add"}
    PROVE  /\ Append(s, g) \in Seq(Frame) /\ StackOK(Append(s, g)) /\ OrderOK(Append(s, g))
           /\ Append(s, g) # <<>> /\ Append(s, g)[Len(Append(s, g))] = g
           /\ ~Calling(Append(s, g))
           /\ f.pc \notin {"callbacks", "initialize", "fork"} =>
                  /\ Entered(Append(s, g)) = Entered(Append(s, f))
                  /\ Forks(Append(s, g)) = Forks(Append(s, f))
<1>1. /\ Append(s, g) \in Seq(Frame) /\ Append(s, g) # <<>> /\ Append(s, g)[Len(Append(s, g))] = g
      /\ \A i \in 1 .. Len(s) : s[i] \in Frame
    BY Push
<1>2. StackOK(s) /\ (s # <<>> => Link(s[Len(s)], f)) /\ OrderOK(s)
      /\ \A i \in 1 .. Len(s) : Inside(s[i], f)
    BY StackPush, OrderPush
<1>3. StackOK(Append(s, g))
  <2>1. s # <<>> => Link(s[Len(s)], g)
    BY <1>2 DEF Link
  <2>. QED
    BY <1>2, <2>1, StackPush
<1>4. OrderOK(Append(s, g))
  <2>1. \A i \in 1 .. Len(s) : Inside(s[i], g)
    BY <1>2 DEF Inside, Active
  <2>. QED
    BY <1>2, <2>1, OrderPush
<1>5. ASSUME f.pc \notin {"callbacks", "initialize", "fork"}
      PROVE  /\ Entered(Append(s, g)) = Entered(Append(s, f))
             /\ Forks(Append(s, g)) = Forks(Append(s, f))
  <2>1. ~Active(f) /\ ~Active(g) /\ f.pc # "fork" /\ g.pc # "fork"
    BY <1>5 DEF Active
  <2>. QED
    BY <2>1, EnteredPush
<1>. QED
    BY <1>1, <1>3, <1>4, <1>5 DEF Calling

\* A call for a class.
LEMMA CallFields ==
    ASSUME NEW c \in Class
    PROVE  /\ Call(c) \in Frame /\ Call(c).pc = "super" /\ Call(c).cls = c /\ FrameOK(Call(c))
           /\ Call(c).funcs = {}
           /\ ~Active(Call(c))
BY DEF Call, Frame, FrameOK, Active

\* A call for a class is made: for the superclass, from +initialize, or, where that
\* is empty, for the class itself.
LEMMA PushCall ==
    ASSUME NEW s \in Seq(Frame), NEW f \in Frame, NEW c \in Class,
           StackOK(Append(s, f)), OrderOK(Append(s, f)), Link(f, Call(c)),
           f.pc = "initialize" /\ f.cls \in Trivial => c = f.cls
    PROVE  LET q == Append(Append(s, f), Call(c))
           IN  /\ q \in Seq(Frame) /\ StackOK(q) /\ OrderOK(q)
               /\ q # <<>> /\ q[Len(q)] = Call(c) /\ ~Calling(q)
               /\ Entered(q) = Entered(Append(s, f)) /\ Forks(q) = Forks(Append(s, f))
<1>. DEFINE p == Append(s, f)
            q == Append(p, Call(c))
<1>1. /\ Call(c) \in Frame /\ Call(c).pc = "super" /\ Call(c).cls = c /\ FrameOK(Call(c))
      /\ ~Active(Call(c))
    BY CallFields
<1>2. /\ p \in Seq(Frame) /\ p # <<>> /\ p[Len(p)] = f /\ Len(p) = Len(s) + 1
      /\ \A i \in 1 .. Len(s) : p[i] = s[i] /\ s[i] \in Frame
      /\ \A i \in 1 .. Len(p) : i \in 1 .. Len(s) \/ i = Len(s) + 1
    BY Push
<1>3. q \in Seq(Frame) /\ q # <<>> /\ q[Len(q)] = Call(c)
    BY <1>1, <1>2, Push
<1>4. StackOK(q)
    BY <1>1, <1>2, StackPush
<1>5. FrameOK(f) /\ OrderOK(s) /\ \A i \in 1 .. Len(s) : Inside(s[i], f)
    BY StackPush, OrderPush
<1>6. f.cls \in Class
    BY <1>5 DEF FrameOK, Link
<1>7. \A i \in 1 .. Len(p) : Inside(p[i], Call(c))
  <2>1. Inside(f, Call(c))
    BY <1>1 DEF Inside
  <2>2. ASSUME NEW i \in 1 .. Len(s) PROVE Inside(s[i], Call(c))
    <3>. SUFFICES ASSUME s[i].pc = "initialize", s[i].cls \in Trivial
                  PROVE  c \in {s[i].cls} \union Ancestors[s[i].cls]
      BY <1>1 DEF Inside
    <3>1. ~Active(f) /\ f.cls \in {s[i].cls} \union Ancestors[s[i].cls] /\ s[i].cls \in Class
      BY <1>5, InitializeAssumption DEF Inside
    <3>2. c = Super[f.cls]
      BY <1>1, <3>1 DEF Link, Active
    <3>3. c \in Ancestors[f.cls]
      BY <1>6, <3>2, AncestorsSuper, InitializeAssumption
    <3>4. f.cls # s[i].cls => Ancestors[f.cls] \subseteq Ancestors[s[i].cls]
      BY <3>1, AncestorsTransitive
    <3>. QED
      BY <3>1, <3>3, <3>4
  <2>. QED
    BY <1>2, <2>1, <2>2
<1>8. OrderOK(q)
    BY <1>1, <1>2, <1>7, OrderPush
<1>9. Entered(q) = Entered(p) /\ Forks(q) = Forks(p)
    BY <1>1, <1>2, EnteredPush
<1>10. ~Calling(q)
    BY <1>1, <1>3 DEF Calling
<1>. QED
    BY <1>3, <1>4, <1>8, <1>9, <1>10

\* The message that makes a call.
LEMMA MessageStep == ASSUME IInv, NEW t \in Thread, NEW c \in Class, Message(t, c) PROVE IInv'
<1>1. /\ fatal = "no" /\ stack[t] = <<>> /\ stack' = [stack EXCEPT ![t] = <<Call(c)>>]
      /\ UNCHANGED <<flag, lists, pending, funcs, forked, fatal, calls>>
    BY DEF Message
<1>2. PICK q : q = <<Call(c)>>
    OBVIOUS
<1>3. Call(c) \in Frame /\ Call(c).pc = "super" /\ FrameOK(Call(c)) /\ ~Active(Call(c))
    BY CallFields
<1>4. q = Append(<<>>, Call(c)) /\ <<>> \in Seq(Frame) /\ StackOK(<<>>) /\ OrderOK(<<>>)
      /\ Entered(<<>>) = {} /\ Forks(<<>>) = {} /\ ~Calling(<<>>)
    BY <1>2, NoCalls
<1>5. q \in Seq(Frame) /\ q[Len(q)] = Call(c)
    BY <1>3, <1>4, Push
<1>6. Entered(q) = {} /\ Forks(q) = {}
    BY <1>3, <1>4, EnteredPush
<1>7. StackOK(q) /\ OrderOK(q)
  <2>1. \A i \in 1 .. Len(<<>>) : FALSE
    BY EmptySeq
  <2>2. StackOK(Append(<<>>, Call(c))) /\ OrderOK(Append(<<>>, Call(c)))
    BY <1>3, <1>4, <2>1, StackPush, OrderPush
  <2>. QED
    BY <1>4, <2>2
<1>8. StackOK(q)'
    BY <1>1, <1>5, <1>7, StackStays
<1>9. ~Calling(q) /\ ~Calling(stack[t])
    BY <1>1, <1>3, <1>4, <1>5 DEF Calling
<1>10. Running(t) = {} /\ Forking(t) = {}
    BY <1>1, <1>4 DEF Running, Forking
<1>11. StackInv' /\ SubtreeInv' /\ Contiguous' /\ GoInv'
    BY <1>1, <1>2, <1>3, <1>5, <1>6, <1>7, <1>8, <1>10, QuietStep
<1>12. CallbackInv'
    BY <1>1, <1>2, <1>5, <1>9, QuietCallbacks
<1>13. TypeOK' /\ FatalInv'
    BY <1>1, <1>2, <1>5, StackOf DEF IInv, TypeOK, FatalInv
<1>. QED
    BY <1>11, <1>12, <1>13 DEF IInv

\* A step of a thread that does nothing but go on, call or return.
LEMMA ControlStep ==
    ASSUME IInv, fatal = "no", fatal' = "no", NEW t \in Thread, NEW q \in Seq(Frame),
           stack' = [stack EXCEPT ![t] = q],
           UNCHANGED <<flag, lists, pending, funcs, forked, calls>>,
           StackOK(q), OrderOK(q), Entered(q) = Running(t), Forks(q) = Forking(t),
           ~Calling(stack[t]), ~Calling(q),
           q # <<>> /\ q[Len(q)].pc \in {"try", "initializing", "fork"} => Ready(t, q[Len(q)].cls)
    PROVE  IInv'
<1>1. StackOK(q)'
    BY StackStays
<1>2. StackInv' /\ SubtreeInv' /\ Contiguous' /\ GoInv'
    BY <1>1, QuietStep
<1>3. CallbackInv'
    BY QuietCallbacks
<1>4. TypeOK' /\ FatalInv'
    BY StackOf DEF IInv, TypeOK, FatalInv
<1>. QED
    BY <1>2, <1>3, <1>4 DEF IInv

\* The state of the thread that runs a call.
LEMMA Runner ==
    ASSUME IInv, NEW t \in Thread, NEW label, Runs(t, label)
    PROVE  \E s \in Seq(Frame), f \in Frame :
               /\ stack[t] = Append(s, f) /\ Caller(t) = s /\ Top(t) = f /\ f.pc = label
               /\ stack[t] # <<>> /\ fatal = "no" /\ GoInv
               /\ \A g : [stack[t] EXCEPT ![Len(stack[t])] = g] = Append(s, g)
               /\ StackOK(Append(s, f)) /\ OrderOK(Append(s, f))
               /\ StackOK(s) /\ OrderOK(s) /\ FrameOK(f)
               /\ Running(t) = Entered(Append(s, f)) /\ Forking(t) = Forks(Append(s, f))
               /\ stack[t][Len(stack[t])] = f
<1>1. TypeOK /\ stack[t] # <<>> /\ fatal = "no" /\ Top(t).pc = label /\ GoInv
    BY DEF IInv, Runs
<1>2. PICK s \in Seq(Frame), f \in Frame :
          /\ stack[t] = Append(s, f) /\ Caller(t) = s /\ Top(t) = f
          /\ \A g : [stack[t] EXCEPT ![Len(stack[t])] = g] = Append(s, g)
    BY <1>1, TopSplit
<1>3. StackOK(Append(s, f)) /\ OrderOK(Append(s, f))
    BY <1>1, <1>2 DEF IInv, StackInv, GoInv, OrderInv
<1>4. StackOK(s) /\ FrameOK(f) /\ OrderOK(s)
    BY <1>3, StackPush, OrderPush
<1>5. Running(t) = Entered(Append(s, f)) /\ Forking(t) = Forks(Append(s, f))
    BY <1>2 DEF Running, Forking
<1>. QED
    BY <1>1, <1>2, <1>3, <1>4, <1>5 DEF Top

\* A call returns that has nothing entered.
LEMMA ReturnStep ==
    ASSUME IInv, fatal' = "no", NEW t \in Thread, NEW label,
           label \notin {"callbacks", "initialize", "fork", "add"}, Runs(t, label),
           Return(t), UNCHANGED <<flag, lists, pending, funcs, forked, calls>>,
           Top(t).cls \in Class => flag[Top(t).cls] = "initialized" \/ Top(t).cls \in lists[t]
    PROVE  IInv'
<1>1. PICK s \in Seq(Frame), f \in Frame :
          /\ stack[t] = Append(s, f) /\ Caller(t) = s /\ Top(t) = f /\ f.pc = label
          /\ stack[t] # <<>> /\ fatal = "no"
          /\ StackOK(Append(s, f)) /\ StackOK(s) /\ OrderOK(s)
          /\ Running(t) = Entered(Append(s, f)) /\ Forking(t) = Forks(Append(s, f))
          /\ stack[t][Len(stack[t])] = f
    BY Runner
<1>2. stack' = [stack EXCEPT ![t] = s]
    BY <1>1 DEF Return
<1>3. Entered(s) = Running(t) /\ Forks(s) = Forking(t)
    BY <1>1, EnteredPush DEF Active
<1>4. s # <<>> => /\ s[Len(s)].pc \in {"try", "initialize"}
                  /\ s[Len(s)].pc = "try" => Ready(t, s[Len(s)].cls)
  <2>1. s # <<>> => /\ s[Len(s)].pc \in {"try", "initialize"}
                    /\ s[Len(s)].pc = "try" => Ready(t, s[Len(s)].cls)'
    BY <1>1, ReturnReady
  <2>. QED
    BY <2>1 DEF Ready
<1>5. ~Calling(stack[t]) /\ ~Calling(s)
    BY <1>1, <1>4 DEF Calling
<1>6. s # <<>> /\ s[Len(s)].pc \in {"try", "initializing", "fork"} => Ready(t, s[Len(s)].cls)
    BY <1>4
<1>. QED
    BY <1>1, <1>2, <1>3, <1>5, <1>6, ControlStep

\* It is initialized, or its initialization is over.
LEMMA IsInitializedStep == ASSUME IInv, NEW t \in Thread, IsInitialized(t) PROVE IInv'
<1>1. /\ Runs(t, "initialized") /\ Return(t) /\ UNCHANGED <<flag, lists, pending, funcs, forked, calls>>
      /\ fatal' = IF flag[Top(t).cls] = "initialized" THEN "no" ELSE "buggy"
    BY DEF IsInitialized
<1>2. PICK s \in Seq(Frame), f \in Frame : Top(t) = f /\ f.pc = "initialized" /\ FrameOK(f)
    BY <1>1, Runner
<1>3. flag[Top(t).cls] = "initialized"
    BY <1>2 DEF FrameOK
<1>4. fatal' = "no"
    BY <1>1, <1>3
<1>. QED
    BY <1>1, <1>3, <1>4, ReturnStep

\* The wait is over when the class is initialized.
LEMMA WaitStep == ASSUME IInv, NEW t \in Thread, WaitForInitializeToComplete(t) PROVE IInv'
<1>1. /\ Runs(t, "wait") /\ Return(t) /\ UNCHANGED <<flag, lists, pending, funcs, forked, calls>>
      /\ flag[Top(t).cls] = "initialized" /\ fatal' = "no"
    BY DEF WaitForInitializeToComplete, Runs
<1>. QED
    BY <1>1, ReturnStep

\* +initialize messages a class.
LEMMA SendStep == ASSUME IInv, NEW t \in Thread, Send(t) PROVE IInv'
<1>1. PICK s \in Seq(Frame), f \in Frame :
          /\ stack[t] = Append(s, f) /\ Caller(t) = s /\ Top(t) = f /\ f.pc = "initialize"
          /\ stack[t] # <<>> /\ fatal = "no" /\ StackOK(Append(s, f)) /\ OrderOK(Append(s, f))
          /\ StackOK(s) /\ OrderOK(s) /\ FrameOK(f) /\ Runs(t, "initialize")
          /\ Running(t) = Entered(Append(s, f)) /\ Forking(t) = Forks(Append(s, f))
          /\ stack[t][Len(stack[t])] = f
    BY Runner DEF Send
<1>2. PICK c, g :
          /\ c \in f.todo /\ g = [f EXCEPT !.todo = @ \ {c}]
          /\ stack' = [stack EXCEPT ![t] = IF flag[c] = "initialized" THEN Append(s, g)
                                           ELSE Append(Append(s, g), Call(c))]
          /\ UNCHANGED <<flag, lists, pending, funcs, forked, calls, fatal>>
    BY <1>1 DEF Send
<1>3. f.todo \subseteq Messages[f.cls] /\ f.cls \in Class /\ Messages[f.cls] \subseteq Class
    BY <1>1, InitializeAssumption DEF FrameOK
<1>4. c \in Class /\ f.cls \notin Trivial
  <2>1. c \in f.todo
    BY <1>2
  <2>. QED
    BY <1>3, <2>1, InitializeAssumption
<1>5. /\ g \in Frame /\ g.pc = "initialize" /\ g.cls = f.cls /\ g.todo \subseteq f.todo
      /\ g.funcs = f.funcs
    BY <1>1, <1>2 DEF Frame
<1>6. FrameOK(g)
    BY <1>1, <1>3, <1>5 DEF FrameOK
<1>7. StackOK(Append(s, g)) /\ OrderOK(Append(s, g))
  <2>1. (s # <<>> => Link(s[Len(s)], f)) /\ \A i \in 1 .. Len(s) : Inside(s[i], f)
    BY <1>1, StackPush, OrderPush
  <2>2. s # <<>> => Link(s[Len(s)], g)
    BY <1>1, <1>5, <2>1 DEF Link
  <2>3. \A i \in 1 .. Len(s) : Inside(s[i], g)
    BY <1>1, <1>5, <2>1 DEF Inside, Active
  <2>. QED
    BY <1>1, <1>5, <1>6, <2>2, <2>3, StackPush, OrderPush
<1>8. /\ Append(s, g) \in Seq(Frame) /\ Append(s, g)[Len(Append(s, g))] = g
      /\ Append(s, g) # <<>>
    BY <1>5, Push
<1>9. Entered(Append(s, g)) = Running(t) /\ Forks(Append(s, g)) = Forking(t)
  <2>1. Active(f) /\ Active(g) /\ f.pc # "fork" /\ g.pc # "fork"
    BY <1>1, <1>5 DEF Active
  <2>2. /\ Entered(Append(s, f)) = Entered(s) \union {f.cls} /\ Forks(Append(s, f)) = Forks(s)
        /\ Entered(Append(s, g)) = Entered(s) \union {g.cls} /\ Forks(Append(s, g)) = Forks(s)
    BY <1>5, <2>1, EnteredPush
  <2>. QED
    BY <1>1, <1>5, <2>2
<1>10. ~Calling(stack[t]) /\ ~Calling(Append(s, g))
    BY <1>1, <1>5, <1>8 DEF Calling
<1>11. CASE flag[c] = "initialized"
  <2>1. stack' = [stack EXCEPT ![t] = Append(s, g)]
    BY <1>2, <1>11
  <2>. QED
    BY <1>1, <1>2, <1>5, <1>7, <1>8, <1>9, <1>10, <2>1, ControlStep
<1>12. CASE flag[c] # "initialized"
  <2>. DEFINE q == Append(Append(s, g), Call(c))
  <2>1. stack' = [stack EXCEPT ![t] = q]
    BY <1>2, <1>12
  <2>2. Call(c).pc = "super"
    BY <1>4, CallFields
  <2>3. Link(g, Call(c))
    BY <1>5, <2>2 DEF Link
  <2>4. /\ q \in Seq(Frame) /\ StackOK(q) /\ OrderOK(q)
        /\ q # <<>> /\ q[Len(q)] = Call(c) /\ ~Calling(q)
        /\ Entered(q) = Entered(Append(s, g)) /\ Forks(q) = Forks(Append(s, g))
    BY <1>4, <1>5, <1>7, <2>3, PushCall
  <2>5. Entered(q) = Running(t) /\ Forks(q) = Forking(t)
    BY <1>9, <2>4
  <2>. HIDE DEF q
  <2>. QED
    BY <1>1, <1>2, <1>10, <2>1, <2>2, <2>4, <2>5, ControlStep
<1>. QED
    BY <1>11, <1>12

\* The superclass first.
LEMMA InitializeSuperStep == ASSUME IInv, NEW t \in Thread, InitializeSuper(t) PROVE IInv'
<1>1. PICK s \in Seq(Frame), f \in Frame :
          /\ stack[t] = Append(s, f) /\ Caller(t) = s /\ Top(t) = f /\ f.pc = "super"
          /\ stack[t] # <<>> /\ fatal = "no" /\ StackOK(Append(s, f)) /\ OrderOK(Append(s, f))
          /\ FrameOK(f)
          /\ Running(t) = Entered(Append(s, f)) /\ Forking(t) = Forks(Append(s, f))
          /\ stack[t][Len(stack[t])] = f
    BY Runner DEF InitializeSuper
<1>2. PICK g : g = [f EXCEPT !.pc = "try"]
    OBVIOUS
<1>3. /\ stack' = [stack EXCEPT ![t] = IF SuperUninitialized(f.cls)
                                       THEN Append(Append(s, g), Call(Super[f.cls]))
                                       ELSE Append(s, g)]
      /\ UNCHANGED <<flag, lists, pending, funcs, forked, calls, fatal>>
    BY <1>1, <1>2 DEF InitializeSuper
<1>4. f.cls \in Class /\ g \in Frame /\ g.pc = "try" /\ g.cls = f.cls /\ g.funcs = f.funcs
    BY <1>1, <1>2 DEF FrameOK, Frame
<1>5. FrameOK(g)
    BY <1>1, <1>4 DEF FrameOK
<1>6. /\ Append(s, g) \in Seq(Frame) /\ StackOK(Append(s, g)) /\ OrderOK(Append(s, g))
      /\ Append(s, g) # <<>> /\ Append(s, g)[Len(Append(s, g))] = g
      /\ ~Calling(Append(s, g))
      /\ Entered(Append(s, g)) = Running(t) /\ Forks(Append(s, g)) = Forking(t)
    BY <1>1, <1>4, <1>5, Relabel
<1>7. ~Calling(stack[t])
    BY <1>1 DEF Calling
<1>8. CASE ~SuperUninitialized(f.cls)
  <2>1. stack' = [stack EXCEPT ![t] = Append(s, g)]
    BY <1>3, <1>8
  <2>2. Ready(t, f.cls)
    BY <1>8 DEF SuperUninitialized, Ready
  <2>. QED
    BY <1>1, <1>3, <1>4, <1>6, <1>7, <2>1, <2>2, ControlStep
<1>9. CASE SuperUninitialized(f.cls)
  <2>. DEFINE q == Append(Append(s, g), Call(Super[f.cls]))
  <2>1. stack' = [stack EXCEPT ![t] = q]
    BY <1>3, <1>9
  <2>2. Super[f.cls] \in Class
    BY <1>4, <1>9, InitializeAssumption DEF SuperUninitialized
  <2>3. Call(Super[f.cls]).pc = "super" /\ Call(Super[f.cls]).cls = Super[f.cls]
    BY <2>2, CallFields
  <2>4. Link(g, Call(Super[f.cls]))
    BY <1>4, <2>3 DEF Link
  <2>5. /\ q \in Seq(Frame) /\ StackOK(q) /\ OrderOK(q)
        /\ q # <<>> /\ q[Len(q)] = Call(Super[f.cls]) /\ ~Calling(q)
        /\ Entered(q) = Entered(Append(s, g)) /\ Forks(q) = Forks(Append(s, g))
    BY <1>4, <1>6, <2>2, <2>4, PushCall
  <2>6. Entered(q) = Running(t) /\ Forks(q) = Forking(t)
    BY <1>6, <2>5
  <2>. HIDE DEF q
  <2>. QED
    BY <1>1, <1>3, <1>7, <2>1, <2>3, <2>5, <2>6, ControlStep
<1>. QED
    BY <1>8, <1>9

\* The callbacks that were owed are called.
LEMMA CallbacksCalled ==
    ASSUME IInv, NEW t \in Thread, NEW q \in Seq(Frame), stack' = [stack EXCEPT ![t] = q],
           ~Calling(q), UNCHANGED <<funcs, forked, flag>>,
           calls' = [f \in Callback |-> [c \in Class |->
                        calls[f][c] + IF Owing(t, f, c) THEN 1 ELSE 0]]
    PROVE  CallbackInv' /\ calls' \in [Callback -> [Class -> 0 .. 1]]
<1>1. \A u \in Thread : stack'[u] = IF u = t THEN q ELSE stack[u]
    BY StackOf DEF IInv
<1>2. CallbackInv /\ calls \in [Callback -> [Class -> 0 .. 1]]
    BY DEF IInv, TypeOK
<1>3. ASSUME NEW u \in Thread, NEW f \in Callback, NEW c \in Class
      PROVE  Owing(u, f, c)' <=> u # t /\ Owing(u, f, c)
    BY <1>1 DEF Owing, Calling, Top
<1>4. ASSUME NEW f \in Callback, NEW c \in Class
      PROVE  /\ calls'[f][c] = IF Owing(t, f, c) THEN 1 ELSE calls[f][c]
             /\ calls'[f][c] \in 0 .. 1
  <2>1. Owing(t, f, c) => calls[f][c] = 0
    BY <1>2 DEF CallbackInv
  <2>. HIDE DEF CallbackInv
  <2>. QED
    BY <1>2, <2>1
<1>5. CallbackInv'
  <2>. SUFFICES ASSUME NEW f \in Callback, NEW c \in Class
                PROVE  /\ f \notin funcs \/ flag[c] = "none" =>
                              calls'[f][c] = 0 /\ \A u \in Thread : ~Owing(u, f, c)'
                       /\ f \in funcs /\ flag[c] # "none" /\ ~forked =>
                              calls'[f][c] = 1 \/ \E u \in Thread : Owing(u, f, c)'
                       /\ \A u \in Thread : Owing(u, f, c)' =>
                              calls'[f][c] = 0 /\ \A v \in Thread : Owing(v, f, c)' => v = u
    BY DEF CallbackInv
  <2>. QED
    BY <1>2, <1>3, <1>4 DEF CallbackInv
<1>. QED
    BY <1>4, <1>5

\* A callback is registered, for the classes that have been entered.
LEMMA AddWillInitializeClassFuncStep ==
    ASSUME IInv, NEW t \in Thread, NEW f \in Callback, AddWillInitializeClassFunc(t, f)
    PROVE  IInv'
<1>1. PICK g : g = [pc |-> "add", cls |-> None, funcs |-> {f},
                    todo |-> {c \in Class : flag[c] # "none"}]
    OBVIOUS
<1>2. /\ fatal = "no" /\ stack[t] = <<>> /\ f \notin funcs /\ funcs' = funcs \union {f}
      /\ stack' = [stack EXCEPT ![t] = <<g>>]
      /\ UNCHANGED <<flag, lists, pending, forked, fatal, calls>>
    BY <1>1 DEF AddWillInitializeClassFunc
<1>3. /\ g \in Frame /\ g.pc = "add" /\ g.funcs = {f} /\ g.cls = None
      /\ g.todo = {c \in Class : flag[c] # "none"}
  <2>1. {f} \in SUBSET Callback /\ {c \in Class : flag[c] # "none"} \in SUBSET Class
    OBVIOUS
  <2>. QED
    BY <1>1, <2>1 DEF Frame
<1>4. PICK q : q = <<g>>
    OBVIOUS
<1>5. q = Append(<<>>, g) /\ <<>> \in Seq(Frame) /\ StackOK(<<>>) /\ OrderOK(<<>>)
      /\ Entered(<<>>) = {} /\ Forks(<<>>) = {} /\ ~Calling(<<>>)
    BY <1>4, NoCalls
<1>6. q \in Seq(Frame) /\ q[Len(q)] = g /\ q # <<>> /\ Len(q) = 1
    BY <1>3, <1>4, <1>5, Push
<1>7. Entered(q) = {} /\ Forks(q) = {}
    BY <1>3, <1>5, EnteredPush DEF Active
<1>8. OrderOK(q)
  <2>1. \A i \in 1 .. Len(<<>>) : FALSE
    BY EmptySeq
  <2>. QED
    BY <1>3, <1>5, <2>1, OrderPush
<1>9. StackOK(q)'
  <2>1. q[1] = g
    BY <1>6
  <2>2. FrameOK(g)'
    BY <1>2, <1>3 DEF FrameOK
  <2>. QED
    BY <1>6, <2>1, <2>2 DEF StackOK
<1>10. Running(t) = {} /\ Forking(t) = {}
    BY <1>2, <1>5 DEF Running, Forking
<1>11. StackInv' /\ SubtreeInv' /\ Contiguous' /\ GoInv'
    BY <1>2, <1>3, <1>4, <1>6, <1>7, <1>8, <1>9, <1>10, QuietStep
<1>12. CallbackInv'
  <2>1. \A u \in Thread : stack'[u] = IF u = t THEN q ELSE stack[u]
    BY <1>2, <1>4, <1>6, StackOf DEF IInv
  <2>2. ASSUME NEW u \in Thread, NEW h \in Callback, NEW c \in Class
        PROVE  /\ Owing(u, h, c)' <=> IF u = t THEN h = f /\ flag[c] # "none" ELSE Owing(u, h, c)
               /\ ~Owing(t, h, c)
    BY <1>2, <1>3, <1>6, <2>1 DEF Owing, Top
  <2>3. CallbackInv
    BY DEF IInv
  <2>. SUFFICES ASSUME NEW h \in Callback, NEW c \in Class
                PROVE  /\ h \notin funcs' \/ flag[c] = "none" =>
                              calls[h][c] = 0 /\ \A u \in Thread : ~Owing(u, h, c)'
                       /\ h \in funcs' /\ flag[c] # "none" /\ ~forked =>
                              calls[h][c] = 1 \/ \E u \in Thread : Owing(u, h, c)'
                       /\ \A u \in Thread : Owing(u, h, c)' =>
                              calls[h][c] = 0 /\ \A v \in Thread : Owing(v, h, c)' => v = u
    BY <1>2 DEF CallbackInv
  <2>4. CASE h = f
    <3>1. calls[h][c] = 0 /\ \A u \in Thread : ~Owing(u, h, c)
      BY <1>2, <2>3, <2>4 DEF CallbackInv
    <3>. QED
      BY <1>2, <2>2, <2>4, <3>1
  <2>5. CASE h # f
    <3>1. \A u \in Thread : Owing(u, h, c)' <=> Owing(u, h, c)
      BY <2>2, <2>5
    <3>2. h \in funcs' <=> h \in funcs
      BY <1>2, <2>5
    <3>. QED
      BY <2>3, <3>1, <3>2 DEF CallbackInv
  <2>. QED
    BY <2>4, <2>5
<1>13. TypeOK' /\ FatalInv'
  <2>1. funcs' \subseteq Callback
    BY <1>2 DEF IInv, TypeOK
  <2>. QED
    BY <1>2, <1>4, <1>6, <2>1, StackOf DEF IInv, TypeOK, FatalInv
<1>. QED
    BY <1>11, <1>12, <1>13 DEF IInv

\* The callback is told of them.
LEMMA CallAddedStep == ASSUME IInv, NEW t \in Thread, CallAdded(t) PROVE IInv'
<1>1. PICK s \in Seq(Frame), f \in Frame :
          /\ stack[t] = Append(s, f) /\ Caller(t) = s /\ Top(t) = f /\ f.pc = "add"
          /\ stack[t] # <<>> /\ fatal = "no" /\ StackOK(Append(s, f))
          /\ StackOK(s) /\ OrderOK(s)
          /\ Running(t) = Entered(Append(s, f)) /\ Forking(t) = Forks(Append(s, f))
    BY Runner DEF CallAdded
<1>2. /\ stack' = [stack EXCEPT ![t] = s]
      /\ UNCHANGED <<flag, lists, pending, funcs, forked, fatal>>
      /\ CallFuncs(f.funcs, f.todo)
    BY <1>1 DEF CallAdded, Return
<1>3. s = <<>>
    BY <1>1, StackPush DEF Link
<1>4. \A h \in Callback, c \in Class : Owing(t, h, c) <=> h \in f.funcs /\ c \in f.todo
    BY <1>1 DEF Owing
<1>5. calls' = [h \in Callback |-> [c \in Class |->
                   calls[h][c] + IF Owing(t, h, c) THEN 1 ELSE 0]]
    BY <1>2, <1>4 DEF CallFuncs
<1>6. ~Calling(s)
    BY <1>3 DEF Calling
<1>7. CallbackInv' /\ calls' \in [Callback -> [Class -> 0 .. 1]]
    BY <1>2, <1>5, <1>6, CallbacksCalled
<1>8. StackOK(s)'
    BY <1>1, <1>2, StackStays
<1>9. Entered(s) = Running(t) /\ Forks(s) = Forking(t)
    BY <1>1, EnteredPush DEF Active
<1>10. StackInv' /\ SubtreeInv' /\ Contiguous' /\ GoInv'
    BY <1>1, <1>2, <1>3, <1>8, <1>9, QuietStep
<1>11. TypeOK' /\ FatalInv'
    BY <1>2, <1>7, StackOf DEF IInv, TypeOK, FatalInv
<1>. QED
    BY <1>7, <1>10, <1>11 DEF IInv

\* The callbacks are told of the class, and +initialize is messaged.
LEMMA CallBackStep == ASSUME IInv, NEW t \in Thread, CallBack(t) PROVE IInv'
<1>1. PICK s \in Seq(Frame), f \in Frame :
          /\ stack[t] = Append(s, f) /\ Caller(t) = s /\ Top(t) = f /\ f.pc = "callbacks"
          /\ stack[t] # <<>> /\ fatal = "no" /\ StackOK(Append(s, f)) /\ OrderOK(Append(s, f))
          /\ StackOK(s) /\ OrderOK(s) /\ FrameOK(f)
          /\ Running(t) = Entered(Append(s, f)) /\ Forking(t) = Forks(Append(s, f))
    BY Runner DEF CallBack
<1>2. PICK g : g = [f EXCEPT !.pc = "initialize", !.funcs = {}, !.todo = Messages[f.cls]]
    OBVIOUS
<1>3. f.cls \in Class /\ Messages[f.cls] \in SUBSET Class
    BY <1>1, InitializeAssumption DEF FrameOK
<1>4. /\ g \in Frame /\ g.pc = "initialize" /\ g.cls = f.cls /\ g.todo = Messages[f.cls]
      /\ g.funcs = {}
    BY <1>2, <1>3 DEF Frame
<1>5. Call(f.cls) \in Frame /\ Call(f.cls).pc = "super"
    BY <1>3, CallFields
<1>. DEFINE q == Append(Append(s, g), Call(f.cls))
<1>6. s \o <<g, Call(f.cls)>> = q
    BY <1>4, <1>5
<1>7. /\ stack' = [stack EXCEPT ![t] = q]
      /\ UNCHANGED <<flag, lists, pending, funcs, forked, fatal>>
      /\ CallFuncs(f.funcs, {f.cls})
    BY <1>1, <1>2, <1>6 DEF CallBack, CallInitialize
<1>8. FrameOK(g)
    BY <1>1, <1>3, <1>4 DEF FrameOK
<1>9. StackOK(Append(s, g)) /\ OrderOK(Append(s, g))
  <2>1. (s # <<>> => Link(s[Len(s)], f)) /\ \A i \in 1 .. Len(s) : Inside(s[i], f)
    BY <1>1, StackPush, OrderPush
  <2>2. s # <<>> => Link(s[Len(s)], g)
    BY <1>1, <1>4, <2>1 DEF Link
  <2>3. \A i \in 1 .. Len(s) : Inside(s[i], g)
    BY <1>1, <1>4, <2>1 DEF Inside, Active
  <2>. QED
    BY <1>1, <1>4, <1>8, <2>2, <2>3, StackPush, OrderPush
<1>10. Entered(Append(s, g)) = Running(t) /\ Forks(Append(s, g)) = Forking(t)
  <2>1. Active(f) /\ Active(g) /\ f.pc # "fork" /\ g.pc # "fork"
    BY <1>1, <1>4 DEF Active
  <2>2. /\ Entered(Append(s, f)) = Entered(s) \union {f.cls} /\ Forks(Append(s, f)) = Forks(s)
        /\ Entered(Append(s, g)) = Entered(s) \union {g.cls} /\ Forks(Append(s, g)) = Forks(s)
    BY <1>4, <2>1, EnteredPush
  <2>. QED
    BY <1>1, <1>4, <2>2
<1>11. Link(g, Call(f.cls))
    BY <1>4, <1>5 DEF Link
<1>12. /\ q \in Seq(Frame) /\ StackOK(q) /\ OrderOK(q)
       /\ q # <<>> /\ q[Len(q)] = Call(f.cls) /\ ~Calling(q)
       /\ Entered(q) = Entered(Append(s, g)) /\ Forks(q) = Forks(Append(s, g))
    BY <1>3, <1>4, <1>9, <1>11, PushCall
<1>. HIDE DEF q
<1>13. Entered(q) = Running(t) /\ Forks(q) = Forking(t)
    BY <1>10, <1>12
<1>14. \A h \in Callback, c \in Class : Owing(t, h, c) <=> h \in f.funcs /\ c \in {f.cls}
    BY <1>1 DEF Owing
<1>15. calls' = [h \in Callback |-> [c \in Class |->
                    calls[h][c] + IF Owing(t, h, c) THEN 1 ELSE 0]]
    BY <1>7, <1>14 DEF CallFuncs
<1>16. CallbackInv' /\ calls' \in [Callback -> [Class -> 0 .. 1]]
    BY <1>7, <1>12, <1>15, CallbacksCalled
<1>17. StackOK(q)'
    BY <1>7, <1>12, StackStays
<1>18. StackInv' /\ SubtreeInv' /\ Contiguous' /\ GoInv'
    BY <1>1, <1>5, <1>7, <1>12, <1>13, <1>17, QuietStep
<1>19. TypeOK' /\ FatalInv'
    BY <1>7, <1>12, <1>16, StackOf DEF IInv, TypeOK, FatalInv
<1>. QED
    BY <1>16, <1>18, <1>19 DEF IInv

-----------------------------------------------------------------------------
(* The flag is set *)

\* The stacks of a step of one thread.
LEMMA StacksOf ==
    ASSUME IInv, fatal = "no", NEW t \in Thread, NEW q \in Seq(Frame),
           stack' = [stack EXCEPT ![t] = q], StackOK(q)', OrderOK(q),
           UNCHANGED <<funcs, forked>>,
           \A c \in Class : /\ flag[c] # "none" => flag'[c] # "none"
                            /\ flag[c] = "initialized" => flag'[c] = "initialized"
    PROVE  /\ StackInv' /\ OrderInv'
           /\ \A u \in Thread : /\ Running(u)' = IF u = t THEN Entered(q) ELSE Running(u)
                                /\ Forking(u)' = IF u = t THEN Forks(q) ELSE Forking(u)
<1>1. /\ stack'[t] = q /\ \A u \in Thread : stack'[u] = IF u = t THEN q ELSE stack[u]
      /\ \A u \in Thread : stack[u] \in Seq(Frame)
    BY StackOf DEF IInv, TypeOK
<1>2. \A u \in Thread : /\ Running(u)' = IF u = t THEN Entered(q) ELSE Running(u)
                        /\ Forking(u)' = IF u = t THEN Forks(q) ELSE Forking(u)
    BY <1>1 DEF Running, Forking
<1>3. OrderInv'
    BY <1>1 DEF IInv, GoInv, OrderInv
<1>4. StackInv'
  <2>. SUFFICES ASSUME NEW u \in Thread PROVE StackOK(stack[u])'
    BY DEF StackInv
  <2>1. CASE u = t
    BY <1>1, <2>1 DEF StackOK
  <2>2. CASE u # t
    <3>1. PICK s \in Seq(Frame) : s = stack[u] /\ s = stack'[u] /\ StackOK(s)
      BY <1>1, <2>2 DEF IInv, StackInv
    <3>2. StackOK(s)'
      BY <3>1, StackStays
    <3>. QED
      BY <3>1, <3>2 DEF StackOK
  <2>. QED
    BY <2>1, <2>2
<1>. QED
    BY <1>2, <1>3, <1>4

\* Above a class that is ready to be entered, what is being initialized belongs to
\* the thread; and to no other.
LEMMA ReadyOwner ==
    ASSUME IInv, fatal = "no", NEW t \in Thread, NEW c \in Class, Ready(t, c),
           Forking(t) \subseteq {c}
    PROVE  \/ \A d \in Ancestors[c] : flag[d] = "initialized"
           \/ /\ Super[c] # None /\ Super[c] \in lists[t] /\ flag[Super[c]] = "initializing"
              /\ Super[c] \in Running(t) \/ (Super[c] \in pending /\ Running(t) # {})
              /\ \A d \in Ancestors[c] : d = Super[c] \/ d \in Ancestors[Super[c]]
<1>. DEFINE p == Super[c]
<1>1. SubtreeInv /\ ListInv /\ PendingInv /\ lists \in [Thread -> SUBSET Class]
      /\ flag \in [Class -> {"none", "initializing", "initialized"}]
    BY DEF IInv, GoInv, TypeOK
<1>2. CASE p = None
    BY <1>2, AncestorsSuper
<1>3. CASE p # None
  <2>1. p \in Class /\ Ancestors[c] = {p} \union Ancestors[p] /\ p # c
    BY <1>3, AncestorsSuper, HierarchyAssumption
  <2>2. CASE flag[p] = "initialized"
    BY <1>1, <2>1, <2>2, EnteredAbove
  <2>3. CASE flag[p] # "initialized"
    <3>1. p \in lists[t]
      BY <1>3, <2>3 DEF Ready
    <3>2. flag[p] = "initializing"
      BY <1>1, <2>1, <2>3, <3>1 DEF ListInv
    <3>3. p \in Running(t) \/ p \in pending
      BY <1>1, <2>1, <3>1 DEF ListInv
    <3>4. p \in pending => Running(t) # {}
      BY <1>1, <3>1 DEF PendingInv, WaitsFor
    <3>. QED
      BY <1>3, <2>1, <3>1, <3>2, <3>3, <3>4
  <2>. QED
    BY <2>2, <2>3
<1>. QED
    BY <1>2, <1>3

\* While nobody is a forked child, a class is on the list of one thread.
LEMMA OneOwner ==
    ASSUME IInv, fatal = "no", ~forked, NEW t \in Thread, NEW u \in Thread, NEW c,
           c \in lists[t], c \in lists[u]
    PROVE  t = u
<1>1. c \in Class /\ flag[c] = "initializing"
    BY DEF IInv, GoInv, ListInv, TypeOK
<1>2. PICK w \in Thread : \A v \in Thread, d \in {c} \union Ancestors[c] :
                              flag[d] = "initializing" => (d \in lists[v] <=> v = w)
    BY <1>1 DEF IInv, Contiguous
<1>. QED
    BY <1>1, <1>2

\* Whoever is in the middle of the superclass, or waits for it, is the one.
LEMMA OneRunner ==
    ASSUME IInv, fatal = "no", NEW t \in Thread, NEW u \in Thread, NEW c \in Class,
           c \in lists[t], c \in lists[u],
           c \in Running(t) \/ c \in pending, Running(u) # {}
    PROVE  t = u
<1>1. CASE ~forked
    BY <1>1, OneOwner
<1>2. CASE forked
  <2>1. Running(t) # {}
    BY DEF IInv, GoInv, PendingInv, WaitsFor
  <2>. QED
    BY <1>2, <2>1 DEF IInv, GoInv, ListInv
<1>. QED
    BY <1>1, <1>2

\* The lists and flags when a class is entered that was not.
LEMMA EnterLists ==
    ASSUME IInv, fatal = "no", NEW t \in Thread, NEW c \in Class, flag[c] = "none", Ready(t, c),
           Forking(t) = {},
           flag' = [flag EXCEPT ![c] = "initializing"],
           lists' = [lists EXCEPT ![t] = @ \union {c}],
           UNCHANGED <<pending, forked>>,
           \A u \in Thread : /\ Running(u)' = IF u = t /\ ~forked THEN Running(u) \union {c}
                                              ELSE Running(u)
                             /\ Forking(u)' = IF u = t /\ forked THEN {c} ELSE Forking(u)
    PROVE  SubtreeInv' /\ Contiguous' /\ ListInv' /\ BelowInv' /\ PendingInv'
<1>1. /\ SubtreeInv /\ Contiguous /\ ListInv /\ BelowInv /\ PendingInv
      /\ lists \in [Thread -> SUBSET Class] /\ pending \subseteq Class
      /\ flag \in [Class -> {"none", "initializing", "initialized"}]
    BY DEF IInv, GoInv, TypeOK
<1>2. /\ \A d \in Class : flag'[d] = IF d = c THEN "initializing" ELSE flag[d]
      /\ \A u \in Thread : lists'[u] = IF u = t THEN lists[u] \union {c} ELSE lists[u]
    BY <1>1
<1>3. \A u \in Thread : c \notin lists[u] /\ c \notin Running(u) /\ c \notin pending
    BY <1>1 DEF ListInv, PendingInv
<1>4. ASSUME NEW d \in Class, flag[d] # "none"
      PROVE  c \notin Ancestors[d] /\ c # d
    BY <1>1, <1>4, EnteredAbove
<1>5. c \notin Ancestors[c] /\ Ancestors[c] \subseteq Class
    BY HierarchyAssumption, AncestorsSuper
<1>6. \/ \A d \in Ancestors[c] : flag[d] = "initialized"
      \/ /\ Super[c] # None /\ Super[c] \in lists[t] /\ flag[Super[c]] = "initializing"
         /\ Super[c] \in Running(t) \/ (Super[c] \in pending /\ Running(t) # {})
         /\ \A d \in Ancestors[c] : d = Super[c] \/ d \in Ancestors[Super[c]]
    BY ReadyOwner
<1>7. SubtreeInv'
  <2>. SUFFICES ASSUME NEW d \in Class, flag'[d] # "none", Super[d] # None
                PROVE  /\ flag'[Super[d]] # "none"
                       /\ flag'[d] = "initialized" => flag'[Super[d]] = "initialized"
    BY DEF SubtreeInv
  <2>1. Super[d] \in Class /\ Super[d] \in Ancestors[d]
    BY AncestorsSuper
  <2>2. CASE d = c
    <3>1. Super[c] # c /\ flag[Super[c]] # "none"
      BY <1>5, <1>6, <2>1, <2>2
    <3>. QED
      BY <1>2, <2>1, <2>2, <3>1
  <2>3. CASE d # c
    <3>1. flag[d] # "none"
      BY <1>2, <2>3
    <3>2. Super[d] # c
      BY <1>4, <2>1, <3>1
    <3>. QED
      BY <1>1, <1>2, <2>1, <2>3, <3>1, <3>2 DEF SubtreeInv
  <2>. QED
    BY <2>2, <2>3
<1>8. ASSUME ~forked
      PROVE  \A u \in Thread, d \in {c} \union Ancestors[c] :
                 flag'[d] = "initializing" => (d \in lists'[u] <=> u = t)
  <2>. SUFFICES ASSUME NEW u \in Thread, NEW d \in {c} \union Ancestors[c], flag'[d] = "initializing"
                PROVE  d \in lists'[u] <=> u = t
    OBVIOUS
  <2>1. CASE d = c
    BY <1>2, <1>3, <2>1
  <2>2. CASE d # c
    <3>1. flag[d] = "initializing" /\ d \in Ancestors[c]
      BY <1>2, <1>5, <2>2
    <3>2. /\ Super[c] # None /\ Super[c] \in lists[t] /\ flag[Super[c]] = "initializing"
          /\ d = Super[c] \/ d \in Ancestors[Super[c]]
      BY <1>6, <3>1
    <3>3. Super[c] \in Class
      BY <3>2, AncestorsSuper
    <3>4. PICK w \in Thread : \A v \in Thread, e \in {Super[c]} \union Ancestors[Super[c]] :
                                  flag[e] = "initializing" => (e \in lists[v] <=> v = w)
      BY <1>1, <1>8, <3>2, <3>3 DEF Contiguous
    <3>5. w = t
      BY <3>2, <3>4
    <3>. QED
      BY <1>2, <2>2, <3>1, <3>2, <3>4, <3>5
  <2>. QED
    BY <2>1, <2>2
<1>9. Contiguous'
  <2>. SUFFICES ASSUME NEW d \in Class, flag'[d] = "initializing", ~forked
                PROVE  \E w \in Thread : \A u \in Thread, e \in {d} \union Ancestors[d] :
                           flag'[e] = "initializing" => (e \in lists'[u] <=> u = w)
    BY <1>7 DEF Contiguous, SubtreeInv
  <2>1. CASE d = c
    BY <1>8, <2>1
  <2>2. CASE d # c
    <3>1. flag[d] = "initializing"
      BY <1>2, <2>2
    <3>2. PICK w \in Thread : \A u \in Thread, e \in {d} \union Ancestors[d] :
                                  flag[e] = "initializing" => (e \in lists[u] <=> u = w)
      BY <1>1, <3>1 DEF Contiguous
    <3>3. ASSUME NEW u \in Thread, NEW e \in {d} \union Ancestors[d], flag'[e] = "initializing"
          PROVE  e \in lists'[u] <=> u = w
      <4>1. e # c /\ e \in Class
        BY <1>4, <3>1, AncestorsSuper
      <4>. QED
        BY <1>2, <3>2, <3>3, <4>1
    <3>. QED
      BY <3>3
  <2>. QED
    BY <2>1, <2>2
<1>10. ListInv'
  <2>. SUFFICES ASSUME NEW u \in Thread
                PROVE  /\ \A d \in lists'[u] : flag'[d] # "none" /\ (~forked => flag'[d] = "initializing")
                       /\ Running(u)' \union Forking(u)' \subseteq lists'[u]
                       /\ lists'[u] \subseteq Running(u)' \union Forking(u)' \union pending
                       /\ Running(u)' \intersect (Forking(u)' \union pending) = {}
                       /\ \A d \in Running(u)' \ Trivial : flag'[d] = "initializing"
                       /\ forked => \A v \in Thread : Running(u)' # {} /\ Running(v)' # {} => u = v
    BY DEF ListInv
  <2>1. \A d \in lists'[u] : flag'[d] # "none" /\ (~forked => flag'[d] = "initializing")
    BY <1>1, <1>2 DEF ListInv
  <2>2. Running(u)' \union Forking(u)' \subseteq lists'[u]
    BY <1>1, <1>2 DEF ListInv
  <2>3. lists'[u] \subseteq Running(u)' \union Forking(u)' \union pending
    BY <1>1, <1>2 DEF ListInv
  <2>4. Running(u)' \intersect (Forking(u)' \union pending) = {}
    BY <1>1, <1>3 DEF ListInv
  <2>5. \A d \in Running(u)' \ Trivial : flag'[d] = "initializing"
    BY <1>1, <1>2 DEF ListInv
  <2>6. forked => \A v \in Thread : Running(u)' # {} /\ Running(v)' # {} => u = v
    BY <1>1 DEF ListInv
  <2>. QED
    BY <2>1, <2>2, <2>3, <2>4, <2>5, <2>6
<1>11. BelowInv'
  <2>. SUFFICES ASSUME NEW u \in Thread, NEW e \in Running(u)', NEW d \in Class,
                       flag'[d] = "initializing"
                PROVE  /\ d \in Ancestors[e] => d \in lists'[u]
                       /\ e \in Ancestors[d] /\ e \notin Trivial => d \in lists'[u]
    BY DEF BelowInv
  <2>1. CASE e = c /\ e \notin Running(u)
    <3>1. u = t /\ ~forked
      BY <2>1
    <3>2. d \in Ancestors[c] => d \in lists'[u]
      BY <1>8, <3>1
    <3>3. c \notin Ancestors[d]
      BY <1>2, <1>4, <1>5
    <3>. QED
      BY <2>1, <3>2, <3>3
  <2>2. CASE e \in Running(u) /\ d # c
    <3>1. flag[d] = "initializing" /\ lists[u] \subseteq lists'[u]
      BY <1>2, <2>2
    <3>. QED
      BY <1>1, <2>2, <3>1 DEF BelowInv
  <2>3. CASE e \in Running(u) /\ d = c
    <3>1. e \in Class /\ flag[e] # "none" /\ (e \notin Trivial => flag[e] = "initializing")
          /\ e \in lists[u] /\ e # c
      BY <1>1, <1>3, <2>3 DEF ListInv
    <3>2. c \notin Ancestors[e]
      BY <1>4, <3>1
    <3>3. ASSUME e \in Ancestors[c], e \notin Trivial
          PROVE  u = t
      <4>1. /\ Super[c] # None /\ Super[c] \in lists[t] /\ flag[Super[c]] = "initializing"
            /\ Super[c] \in Running(t) \/ (Super[c] \in pending /\ Running(t) # {})
            /\ e = Super[c] \/ e \in Ancestors[Super[c]]
        BY <1>6, <3>1, <3>3
      <4>2. Super[c] \in Class
        BY <4>1, AncestorsSuper
      <4>3. Super[c] \in lists[u]
        BY <1>1, <2>3, <3>1, <3>3, <4>1, <4>2 DEF BelowInv
      <4>. QED
        BY <2>3, <4>1, <4>2, <4>3, OneRunner
    <3>. QED
      BY <1>2, <2>3, <3>2, <3>3
  <2>. QED
    BY <2>1, <2>2, <2>3
<1>12. PendingInv'
  <2>. SUFFICES ASSUME NEW d \in pending
                PROVE  flag'[d] = "initializing" /\ \E e \in Class : WaitsFor(d, e)'
    BY DEF PendingInv
  <2>1. PICK e \in Class : WaitsFor(d, e)
    BY <1>1 DEF PendingInv
  <2>2. flag[d] = "initializing" /\ d # c /\ d \in Class
    BY <1>1, <1>3 DEF PendingInv
  <2>3. /\ e \in Ancestors[d] \ (Trivial \union pending) /\ flag[e] = "initializing" /\ e # c
        /\ \A u \in Thread : d \in lists[u] => e \in Running(u)
    BY <2>1 DEF WaitsFor
  <2>4. WaitsFor(d, e)'
    BY <1>2, <2>2, <2>3 DEF WaitsFor
  <2>. QED
    BY <1>2, <2>2, <2>4
<1>. QED
    BY <1>7, <1>9, <1>10, <1>11, <1>12


\* The calls beneath another have called it: they wait for the superclass, or run
\* +initialize.
LEMMA Beneath ==
    ASSUME IInv, fatal = "no", NEW t \in Thread, NEW s \in Seq(Frame), NEW f \in Frame,
           stack[t] = Append(s, f)
    PROVE  /\ \A i \in 1 .. Len(s) : /\ s[i] \in Frame /\ s[i].pc \in {"try", "initialize"}
                                     /\ s[i].cls \in Class /\ Inside(s[i], f)
                                     /\ Active(s[i]) => /\ s[i].cls \in Entered(s)
                                                        /\ s[i].cls \in lists[t]
                                                        /\ flag[s[i].cls] # "none"
           /\ Forks(s) = {} /\ ~Calling(s) /\ Entered(s) \subseteq Running(t)
<1>. DEFINE q == Append(s, f)
<1>1. StackOK(q) /\ OrderOK(q) /\ ListInv
    BY DEF IInv, GoInv, StackInv, OrderInv
<1>2. \A i \in 1 .. Len(s) : Inside(s[i], f)
    BY <1>1, OrderPush
<1>3. ASSUME NEW i \in 1 .. Len(s)
      PROVE  s[i] \in Frame /\ s[i].pc \in {"try", "initialize"} /\ s[i].cls \in Class
  <2>1. /\ q[i] = s[i] /\ s[i] \in Frame /\ i \in 1 .. Len(q) /\ i < Len(q)
    BY Push
  <2>2. FrameOK(q[i]) /\ Link(q[i], q[i + 1])
    BY <1>1, <2>1 DEF StackOK
  <2>. QED
    BY <2>1, <2>2 DEF Link, FrameOK
<1>4. Entered(s) \subseteq Running(t)
  <2>1. Entered(s) \subseteq Entered(q)
    BY EnteredPush
  <2>. QED
    BY <2>1 DEF Running
<1>5. \A i \in 1 .. Len(s) : Active(s[i]) => s[i].cls \in Entered(s)
    BY DEF Entered
<1>6. \A c \in Entered(s) : c \in lists[t] /\ flag[c] # "none"
    BY <1>1, <1>4 DEF ListInv
<1>7. Forks(s) = {}
    BY <1>3 DEF Forks
<1>8. ~Calling(s)
  <2>1. s # <<>> => Len(s) \in 1 .. Len(s)
    BY EmptySeq, LenProperties
  <2>. QED
    BY <1>3, <2>1 DEF Calling
<1>. QED
    BY <1>2, <1>3, <1>4, <1>5, <1>6, <1>7, <1>8

\* The innermost call goes on, for the same class.
LEMMA StackNext ==
    ASSUME NEW s \in Seq(Frame), NEW f \in Frame, NEW g \in Frame, StackOK(Append(s, f)),
           StackOK(s)', FrameOK(g)', g.cls = f.cls, g.pc # "add"
    PROVE  StackOK(Append(s, g))'
<1>. DEFINE q == Append(s, g)
<1>1. /\ \A i \in 1 .. Len(s) : q[i] = s[i]
      /\ q[Len(s) + 1] = g /\ Len(q) = Len(s) + 1 /\ Len(s) \in Nat
      /\ \A i \in 1 .. Len(q) : i \in 1 .. Len(s) \/ i = Len(s) + 1
    BY Push
<1>2. s # <<>> <=> Len(s) \in 1 .. Len(s)
    BY <1>1, EmptySeq
<1>3. s # <<>> => Link(s[Len(s)], g)
    BY StackPush DEF Link
<1>. HIDE DEF q
<1>. SUFFICES ASSUME NEW i \in 1 .. Len(q)
              PROVE  FrameOK(q[i])' /\ (i < Len(q) => Link(q[i], q[i + 1]))
    BY DEF StackOK, q
<1>4. FrameOK(q[i])'
    BY <1>1 DEF StackOK
<1>5. ASSUME i < Len(s) PROVE Link(q[i], q[i + 1])
  <2>1. i \in 1 .. Len(s) /\ i + 1 \in 1 .. Len(s)
    BY <1>1, <1>5
  <2>2. Link(s[i], s[i + 1])
    BY <1>5, <2>1 DEF StackOK
  <2>. QED
    BY <1>1, <2>1, <2>2
<1>6. ASSUME i = Len(s) PROVE Link(q[i], q[i + 1])
    BY <1>1, <1>2, <1>3, <1>6
<1>. QED
    BY <1>1, <1>4, <1>5, <1>6

\* The callbacks are owed for the class that is entered.
LEMMA EnterCallbacks ==
    ASSUME IInv, NEW t \in Thread, NEW q \in Seq(Frame), stack' = [stack EXCEPT ![t] = q],
           ~Calling(stack[t]), q # <<>>, NEW c \in Class, flag[c] = "none",
           q[Len(q)].cls = c, q[Len(q)].funcs = funcs,
           q[Len(q)].pc = IF forked THEN "fork" ELSE "callbacks",
           \A d \in Class : flag'[d] = IF d = c THEN "initializing" ELSE flag[d],
           UNCHANGED <<funcs, forked, calls>>
    PROVE  CallbackInv'
<1>1. \A u \in Thread : stack'[u] = IF u = t THEN q ELSE stack[u]
    BY StackOf DEF IInv
<1>2. ASSUME NEW u \in Thread, NEW h \in Callback, NEW d \in Class
      PROVE  Owing(u, h, d)' <=> IF u = t THEN h \in funcs /\ d = c /\ ~forked ELSE Owing(u, h, d)
    BY <1>1 DEF Owing, Top
<1>3. \A h \in Callback, d \in Class : ~Owing(t, h, d)
    BY DEF Owing, Calling, Top
<1>4. CallbackInv
    BY DEF IInv
<1>. SUFFICES ASSUME NEW h \in Callback, NEW d \in Class
              PROVE  /\ h \notin funcs \/ flag'[d] = "none" =>
                            calls[h][d] = 0 /\ \A u \in Thread : ~Owing(u, h, d)'
                     /\ h \in funcs /\ flag'[d] # "none" /\ ~forked =>
                            calls[h][d] = 1 \/ \E u \in Thread : Owing(u, h, d)'
                     /\ \A u \in Thread : Owing(u, h, d)' =>
                            calls[h][d] = 0 /\ \A v \in Thread : Owing(v, h, d)' => v = u
    BY DEF CallbackInv
<1>5. CASE d = c
  <2>1. calls[h][c] = 0 /\ \A u \in Thread : ~Owing(u, h, c)
    BY <1>4 DEF CallbackInv
  <2>2. \A u \in Thread : Owing(u, h, c)' <=> u = t /\ h \in funcs /\ ~forked
    BY <1>2, <2>1
  <2>. QED
    BY <1>5, <2>1, <2>2
<1>6. CASE d # c
  <2>1. \A u \in Thread : Owing(u, h, d)' <=> Owing(u, h, d)
    BY <1>2, <1>3, <1>6
  <2>. QED
    BY <1>4, <1>6, <2>1 DEF CallbackInv
<1>. QED
    BY <1>5, <1>6

\* What the other threads rely on stays true.
LEMMA ReadyStays ==
    ASSUME IInv, fatal = "no", NEW t \in Thread, NEW q \in Seq(Frame),
           stack' = [stack EXCEPT ![t] = q],
           \A u \in Thread \ {t}, c \in Class : Ready(u, c) => Ready(u, c)',
           q # <<>> /\ q[Len(q)].pc \in {"try", "initializing", "fork"} =>
               Ready(t, q[Len(q)].cls)'
    PROVE  ReadyInv'
<1>1. TypeOK /\ \A u \in Thread : stack'[u] = IF u = t THEN q ELSE stack[u]
    BY StackOf DEF IInv
<1>. SUFFICES ASSUME NEW u \in Thread, stack'[u] # <<>>,
                     Top(u)'.pc \in {"try", "initializing", "fork"}
              PROVE  Ready(u, Top(u).cls)'
    BY DEF ReadyInv
<1>2. CASE u = t
  <2>1. Top(u)' = q[Len(q)]
    BY <1>1, <1>2 DEF Top
  <2>. QED
    BY <1>1, <1>2, <2>1 DEF Ready
<1>3. CASE u # t
  <2>1. Top(u)' = Top(u) /\ stack[u] # <<>>
    BY <1>1, <1>3 DEF Top
  <2>2. Ready(u, Top(u).cls)
    BY <2>1 DEF IInv, GoInv, ReadyInv
  <2>3. PICK x \in Frame, d \in Class : x = Top(u) /\ d = x.cls
    <3>1. PICK z \in Seq(Frame), x \in Frame : stack[u] = Append(z, x) /\ Top(u) = x
      BY <1>1, <2>1, TopSplit
    <3>2. FrameOK(x)
      BY <3>1, StackPush DEF IInv, StackInv
    <3>. QED
      BY <2>1, <3>1, <3>2 DEF FrameOK
  <2>4. Ready(u, d)'
    BY <1>3, <2>2, <2>3
  <2>. QED
    BY <2>1, <2>3, <2>4 DEF Ready
<1>. QED
    BY <1>2, <1>3

\* The call finds out about its class.
LEMMA RelabelStep ==
    ASSUME IInv, NEW t \in Thread, NEW from \in {"try", "initializing"}, Runs(t, from),
           NEW label \in {"initializing", "wait", "initialized"}, Goto(t, label),
           UNCHANGED <<flag, lists, pending, funcs, forked, fatal, calls>>,
           flag[Top(t).cls] # "none",
           label = "initialized" => flag[Top(t).cls] = "initialized"
    PROVE  IInv'
<1>1. PICK s \in Seq(Frame), f \in Frame :
          /\ stack[t] = Append(s, f) /\ Caller(t) = s /\ Top(t) = f /\ f.pc = from
          /\ stack[t] # <<>> /\ fatal = "no" /\ GoInv
          /\ StackOK(Append(s, f)) /\ OrderOK(Append(s, f)) /\ FrameOK(f)
          /\ Running(t) = Entered(Append(s, f)) /\ Forking(t) = Forks(Append(s, f))
          /\ stack[t][Len(stack[t])] = f
    BY Runner
<1>2. PICK g : g = [f EXCEPT !.pc = label]
    OBVIOUS
<1>3. stack' = [stack EXCEPT ![t] = Append(s, g)]
  <2>1. TypeOK
    BY DEF IInv
  <2>2. stack' = [stack EXCEPT ![t] = Append(Caller(t), [Top(t) EXCEPT !.pc = label])]
    BY <1>1, <2>1, GotoStep
  <2>. QED
    BY <1>1, <1>2, <2>2
<1>4. g \in Frame /\ g.pc = label /\ g.cls = f.cls /\ g.funcs = f.funcs
    BY <1>2 DEF Frame
<1>5. FrameOK(g)
    BY <1>1, <1>4 DEF FrameOK
<1>6. /\ Append(s, g) \in Seq(Frame) /\ StackOK(Append(s, g)) /\ OrderOK(Append(s, g))
      /\ Append(s, g) # <<>> /\ Append(s, g)[Len(Append(s, g))] = g
      /\ ~Calling(Append(s, g))
      /\ Entered(Append(s, g)) = Running(t) /\ Forks(Append(s, g)) = Forking(t)
    BY <1>1, <1>4, <1>5, Relabel
<1>7. Ready(t, f.cls)
    BY <1>1 DEF GoInv, ReadyInv
<1>8. ~Calling(stack[t])
    BY <1>1 DEF Calling
<1>. QED
    BY <1>1, <1>3, <1>4, <1>6, <1>7, <1>8, ControlStep

\* The superclass is done with, or is this thread's; is the class initialized, or
\* being initialized?
LEMMA SetInitializingStep == ASSUME IInv, NEW t \in Thread, SetInitializing(t) PROVE IInv'
<1>1. PICK s \in Seq(Frame), f \in Frame :
          /\ stack[t] = Append(s, f) /\ Caller(t) = s /\ Top(t) = f /\ f.pc = "try"
          /\ stack[t] # <<>> /\ fatal = "no" /\ GoInv
          /\ \A g : [stack[t] EXCEPT ![Len(stack[t])] = g] = Append(s, g)
          /\ StackOK(Append(s, f)) /\ OrderOK(Append(s, f))
          /\ StackOK(s) /\ OrderOK(s) /\ FrameOK(f)
          /\ Running(t) = Entered(Append(s, f)) /\ Forking(t) = Forks(Append(s, f))
          /\ stack[t][Len(stack[t])] = f
    BY Runner DEF SetInitializing
<1>2. PICK c \in Class : c = f.cls
    BY <1>1 DEF FrameOK
<1>3. Ready(t, c)
    BY <1>1, <1>2 DEF GoInv, ReadyInv
<1>4. ~Calling(stack[t])
    BY <1>1 DEF Calling
<1>5. UNCHANGED <<pending, funcs, forked, calls>>
    BY DEF SetInitializing
<1>6. CASE flag[c] # "none"
  <2>1. Goto(t, "initializing") /\ UNCHANGED <<flag, lists, fatal>>
    BY <1>1, <1>2, <1>6 DEF SetInitializing
  <2>2. Runs(t, "try")
    BY DEF SetInitializing
  <2>. QED
    BY <1>1, <1>2, <1>5, <1>6, <2>1, <2>2, RelabelStep
<1>7. CASE flag[c] = "none"
  <2>1. PICK g : g = [f EXCEPT !.pc = IF forked THEN "fork" ELSE "callbacks", !.funcs = funcs]
    OBVIOUS
  <2>2. /\ flag' = [flag EXCEPT ![c] = "initializing"]
        /\ lists' = [lists EXCEPT ![t] = @ \union {c}]
        /\ fatal' = IF c \in lists[t] THEN "buggy" ELSE "no"
        /\ stack' = [stack EXCEPT ![t] = [stack[t] EXCEPT ![Len(stack[t])] = g]]
    <3>1. /\ flag' = [flag EXCEPT ![c] = "initializing"]
          /\ lists' = [lists EXCEPT ![t] = @ \union {c}]
          /\ fatal' = IF c \in lists[t] THEN "buggy" ELSE "no"
          /\ stack' = [stack EXCEPT ![t][Len(stack[t])] =
                          [@ EXCEPT !.pc = IF forked THEN "fork" ELSE "callbacks",
                                    !.funcs = funcs]]
      BY <1>1, <1>2, <1>7 DEF SetInitializing
    <3>. QED
      BY <1>1, <2>1, <3>1 DEF IInv, TypeOK
  <2>3. stack' = [stack EXCEPT ![t] = Append(s, g)]
    BY <1>1, <2>2
  <2>4. TypeOK /\ SubtreeInv /\ ListInv
    BY <1>1 DEF IInv, GoInv
  <2>5. /\ g \in Frame /\ g.cls = c /\ g.funcs = funcs
        /\ g.pc = IF forked THEN "fork" ELSE "callbacks"
    BY <1>2, <2>1, <2>4 DEF Frame, TypeOK
  <2>6. /\ \A d \in Class : flag'[d] = IF d = c THEN "initializing" ELSE flag[d]
        /\ \A u \in Thread : lists[u] \subseteq lists'[u]
        /\ \A d \in Class : /\ flag[d] # "none" => flag'[d] # "none"
                            /\ flag[d] = "initialized" => flag'[d] = "initialized"
    BY <1>7, <2>2, <2>4 DEF TypeOK
  <2>7. fatal' = "no"
    BY <1>7, <2>2, <2>4 DEF ListInv
  <2>8. /\ \A i \in 1 .. Len(s) : /\ s[i] \in Frame /\ s[i].pc \in {"try", "initialize"}
                                  /\ s[i].cls \in Class /\ Inside(s[i], f)
                                  /\ Active(s[i]) => flag[s[i].cls] # "none"
        /\ Forks(s) = {}
    BY <1>1, Beneath
  <2>. DEFINE q == Append(s, g)
  <2>9. q \in Seq(Frame) /\ q # <<>> /\ q[Len(q)] = g /\ s \in Seq(Frame)
    BY <2>5, Push
  <2>10. OrderOK(q)
    <3>1. ASSUME NEW i \in 1 .. Len(s) PROVE Inside(s[i], g)
      <4>1. ASSUME Active(s[i]) PROVE c \notin {s[i].cls} \union Ancestors[s[i].cls]
        BY <1>7, <2>4, <2>8, <4>1, EnteredAbove
      <4>2. ~(s[i].pc = "initialize" /\ s[i].cls \in Trivial)
        <5>1. SUFFICES ASSUME s[i].pc = "initialize", s[i].cls \in Trivial PROVE FALSE
          OBVIOUS
        <5>2. Active(s[i]) /\ c \in {s[i].cls} \union Ancestors[s[i].cls]
          BY <1>2, <2>8, <5>1 DEF Inside, Active
        <5>. QED
          BY <4>1, <5>2
      <4>. QED
        BY <2>5, <4>1, <4>2 DEF Inside
    <3>. QED
      BY <1>1, <2>5, <3>1, OrderPush
  <2>11. StackOK(q)'
    <3>1. StackOK(s)'
      BY <1>1, <1>5, <2>6, StackStays
    <3>2. FrameOK(g)'
      BY <1>5, <2>5, <2>6 DEF FrameOK
    <3>. QED
      BY <1>1, <1>2, <2>5, <3>1, <3>2, StackNext
  <2>12. Running(t) = Entered(s) /\ Forking(t) = {}
    BY <1>1, <2>8, EnteredPush DEF Active
  <2>13. Entered(q) = (IF ~forked THEN Running(t) \union {c} ELSE Running(t))
         /\ Forks(q) = (IF forked THEN {c} ELSE {})
    <3>1. CASE forked
      <4>1. ~Active(g) /\ g.pc = "fork"
        BY <2>5, <3>1 DEF Active
      <4>. QED
        BY <2>5, <2>8, <2>12, <3>1, <4>1, EnteredPush
    <3>2. CASE ~forked
      <4>1. Active(g) /\ g.pc # "fork"
        BY <2>5, <3>2 DEF Active
      <4>. QED
        BY <2>5, <2>8, <2>12, <3>2, <4>1, EnteredPush
    <3>. QED
      BY <3>1, <3>2
  <2>. HIDE DEF q
  <2>14. stack' = [stack EXCEPT ![t] = q]
    BY <2>3 DEF q
  <2>15. /\ StackInv' /\ OrderInv'
         /\ \A u \in Thread : /\ Running(u)' = IF u = t THEN Entered(q) ELSE Running(u)
                              /\ Forking(u)' = IF u = t THEN Forks(q) ELSE Forking(u)
    BY <1>1, <1>5, <2>6, <2>9, <2>10, <2>11, <2>14, StacksOf
  <2>16. \A u \in Thread : /\ Running(u)' = IF u = t /\ ~forked THEN Running(u) \union {c}
                                               ELSE Running(u)
                           /\ Forking(u)' = IF u = t /\ forked THEN {c} ELSE Forking(u)
    BY <2>12, <2>13, <2>15
  <2>17. SubtreeInv' /\ Contiguous' /\ ListInv' /\ BelowInv' /\ PendingInv'
    BY <1>1, <1>3, <1>5, <1>7, <2>2, <2>12, <2>16, EnterLists
  <2>18. ReadyInv'
    <3>1. ASSUME NEW u \in Thread, NEW d \in Class, Ready(u, d) PROVE Ready(u, d)'
      BY <2>6, <3>1, InitializeAssumption DEF Ready
    <3>2. Ready(t, g.cls)'
      BY <1>3, <2>5, <3>1 DEF Ready
    <3>. QED
      BY <1>1, <2>9, <2>14, <3>1, <3>2, ReadyStays
  <2>19. CallbackInv'
    BY <1>4, <1>5, <1>7, <2>5, <2>6, <2>9, <2>14, EnterCallbacks
  <2>20. TypeOK' /\ FatalInv'
    <3>1. flag' \in [Class -> {"none", "initializing", "initialized"}]
          /\ lists' \in [Thread -> SUBSET Class]
      BY <2>2, <2>4 DEF TypeOK
    <3>2. stack' \in [Thread -> Seq(Frame)]
      BY <2>4, <2>9, <2>14, StackOf
    <3>. QED
      BY <1>5, <2>4, <2>7, <3>1, <3>2 DEF TypeOK, FatalInv
  <2>. QED
    BY <2>15, <2>17, <2>18, <2>19, <2>20 DEF IInv, GoInv
<1>. QED
    BY <1>6, <1>7

\* A forked child goes on with a class that a thread of its parent was in the middle
\* of: nothing above it runs here.
LEMMA ForkFinds ==
    ASSUME IInv, fatal = "no", NEW t \in Thread, NEW s \in Seq(Frame), NEW f \in Frame,
           stack[t] = Append(s, f), NEW c \in Class, c = f.cls, flag[c] = "initializing",
           c \notin lists[t], Ready(t, c), Forking(t) = {}
    PROVE  /\ c \notin pending
           /\ \A i \in 1 .. Len(s) : ~(s[i].pc = "initialize" /\ s[i].cls \in Trivial)
<1>1. ListInv /\ BelowInv /\ PendingInv
    BY DEF IInv, GoInv
<1>2. \A i \in 1 .. Len(s) : /\ s[i] \in Frame /\ s[i].pc \in {"try", "initialize"}
                             /\ s[i].cls \in Class /\ Inside(s[i], f)
                             /\ Active(s[i]) => /\ s[i].cls \in Entered(s)
                                                /\ s[i].cls \in lists[t]
    BY Beneath
<1>3. Entered(s) \subseteq Running(t)
    BY Beneath
<1>4. \A i \in 1 .. Len(s) : ~(s[i].pc = "initialize" /\ s[i].cls \in Trivial)
  <2>. SUFFICES ASSUME NEW i \in 1 .. Len(s), s[i].pc = "initialize", s[i].cls \in Trivial
                PROVE  FALSE
    OBVIOUS
  <2>1. c \in {s[i].cls} \union Ancestors[s[i].cls] /\ s[i].cls \in Running(t)
        /\ s[i].cls \in lists[t]
    BY <1>2, <1>3 DEF Inside, Active
  <2>2. c \in Ancestors[s[i].cls] => c \in lists[t]
    BY <1>1, <2>1 DEF BelowInv
  <2>. QED
    BY <2>1, <2>2
<1>5. ASSUME c \in pending PROVE FALSE
  <2>. DEFINE p == Super[c]
  <2>1. PICK d \in Ancestors[c] : flag[d] = "initializing"
    BY <1>1, <1>5 DEF PendingInv, WaitsFor
  <2>2. /\ p # None /\ p \in lists[t] /\ flag[p] = "initializing"
        /\ p \in Running(t) \/ p \in pending
    BY <2>1, ReadyOwner
  <2>3. p \in Class /\ p \in Ancestors[c] /\ Ancestors[p] \subseteq Ancestors[c]
    BY <2>2, AncestorsSuper
  <2>4. \A e \in Running(t) : e \in Ancestors[c] => e \in Trivial
    BY <1>1 DEF BelowInv
  <2>5. CASE p \in Running(t)
    <3>1. p \in Trivial
      BY <2>3, <2>4, <2>5
    <3>2. Running(t) = Entered(s)
      <4>1. Running(t) = Entered(s) \/ (Active(f) /\ Running(t) = Entered(s) \union {c})
        BY EnteredPush DEF Running
      <4>. QED
        BY <1>1, <4>1 DEF ListInv
    <3>3. PICK i \in 1 .. Len(s) : Active(s[i]) /\ s[i].cls = p
      BY <2>5, <3>2 DEF Entered
    <3>4. s[i].pc = "initialize"
      BY <1>2, <3>3 DEF Active
    <3>. QED
      BY <1>4, <3>1, <3>3, <3>4
  <2>6. CASE p \in pending
    <3>1. PICK e \in Class : WaitsFor(p, e)
      BY <1>1, <2>6 DEF PendingInv
    <3>2. e \in Ancestors[p] /\ e \notin Trivial /\ e \in Running(t)
      BY <2>2, <3>1 DEF WaitsFor
    <3>. QED
      BY <2>3, <2>4, <3>2
  <2>. QED
    BY <2>2, <2>5, <2>6
<1>. QED
    BY <1>4, <1>5

\* It adds the class to its list.
LEMMA ForkEnterStep ==
    ASSUME IInv, NEW t \in Thread, Runs(t, "initializing"), forked,
           flag[Top(t).cls] = "initializing", Top(t).cls \notin lists[t],
           lists' = [lists EXCEPT ![t] = @ \union {Top(t).cls}], Goto(t, "fork"),
           UNCHANGED <<flag, pending, funcs, forked, fatal, calls>>
    PROVE  IInv'
<1>1. PICK s \in Seq(Frame), f \in Frame :
          /\ stack[t] = Append(s, f) /\ Caller(t) = s /\ Top(t) = f /\ f.pc = "initializing"
          /\ stack[t] # <<>> /\ fatal = "no" /\ GoInv
          /\ StackOK(Append(s, f)) /\ OrderOK(Append(s, f))
          /\ StackOK(s) /\ OrderOK(s) /\ FrameOK(f)
          /\ Running(t) = Entered(Append(s, f)) /\ Forking(t) = Forks(Append(s, f))
          /\ stack[t][Len(stack[t])] = f
    BY Runner
<1>2. PICK c \in Class : c = f.cls
    BY <1>1 DEF FrameOK
<1>3. PICK g : g = [f EXCEPT !.pc = "fork"]
    OBVIOUS
<1>4. TypeOK /\ ListInv /\ BelowInv /\ PendingInv
    BY <1>1 DEF IInv, GoInv
<1>5. g \in Frame /\ g.pc = "fork" /\ g.cls = c /\ g.funcs = f.funcs
    BY <1>2, <1>3 DEF Frame
<1>. DEFINE q == Append(s, g)
<1>6. stack' = [stack EXCEPT ![t] = q]
  <2>1. stack' = [stack EXCEPT ![t] = Append(Caller(t), [Top(t) EXCEPT !.pc = "fork"])]
    BY <1>1, <1>4, GotoStep
  <2>. QED
    BY <1>1, <1>3, <2>1
<1>7. q \in Seq(Frame) /\ q # <<>> /\ q[Len(q)] = g
    BY <1>5, Push
<1>8. /\ \A i \in 1 .. Len(s) : s[i] \in Frame /\ Inside(s[i], f)
      /\ Forks(s) = {} /\ ~Calling(s)
    BY <1>1, Beneath
<1>9. Running(t) = Entered(s) /\ Forking(t) = {}
    BY <1>1, <1>8, EnteredPush DEF Active
<1>10. Entered(q) = Entered(s) /\ Forks(q) = {c}
  <2>1. ~Active(g)
    BY <1>5 DEF Active
  <2>. QED
    BY <1>5, <1>8, <2>1, EnteredPush
<1>11. Ready(t, c) /\ flag[c] = "initializing" /\ c \notin lists[t]
    BY <1>1, <1>2 DEF GoInv, ReadyInv
<1>12. c \notin pending
       /\ \A i \in 1 .. Len(s) : ~(s[i].pc = "initialize" /\ s[i].cls \in Trivial)
    BY <1>1, <1>2, <1>9, <1>11, ForkFinds
<1>13. OrderOK(q)
  <2>1. \A i \in 1 .. Len(s) : Inside(s[i], g)
    BY <1>5, <1>12 DEF Inside, Active
  <2>. QED
    BY <1>1, <1>5, <2>1, OrderPush
<1>14. StackOK(q)'
  <2>1. StackOK(s)'
    BY <1>1, StackStays
  <2>2. FrameOK(g)'
    BY <1>1, <1>2, <1>5, <1>11 DEF FrameOK
  <2>. QED
    BY <1>1, <1>2, <1>5, <2>1, <2>2, StackNext
<1>. HIDE DEF q
<1>15. /\ StackInv' /\ OrderInv'
       /\ \A u \in Thread : /\ Running(u)' = Running(u)
                            /\ Forking(u)' = IF u = t THEN {c} ELSE Forking(u)
  <2>1. /\ StackInv' /\ OrderInv'
        /\ \A u \in Thread : /\ Running(u)' = IF u = t THEN Entered(q) ELSE Running(u)
                             /\ Forking(u)' = IF u = t THEN Forks(q) ELSE Forking(u)
    BY <1>1, <1>6, <1>7, <1>13, <1>14, StacksOf
  <2>. QED
    BY <1>9, <1>10, <2>1
<1>16. \A u \in Thread : lists'[u] = IF u = t THEN lists[u] \union {c} ELSE lists[u]
    BY <1>1, <1>2, <1>4 DEF TypeOK
<1>17. SubtreeInv' /\ Contiguous'
    BY DEF IInv, SubtreeInv, Contiguous
<1>18. ReadyInv'
  <2>1. ASSUME NEW u \in Thread, NEW d, Ready(u, d) PROVE Ready(u, d)'
    BY <1>16, <2>1 DEF Ready
  <2>2. Ready(t, g.cls)'
    BY <1>5, <1>11, <2>1
  <2>. QED
    BY <1>1, <1>6, <1>7, <2>1, <2>2, ReadyStays
<1>19. ListInv'
  <2>. SUFFICES ASSUME NEW u \in Thread
                PROVE  /\ \A d \in lists'[u] : flag[d] # "none"
                       /\ Running(u)' \union Forking(u)' \subseteq lists'[u]
                       /\ lists'[u] \subseteq Running(u)' \union Forking(u)' \union pending
                       /\ Running(u)' \intersect (Forking(u)' \union pending) = {}
                       /\ \A d \in Running(u)' \ Trivial : flag[d] = "initializing"
                       /\ \A v \in Thread : Running(u)' # {} /\ Running(v)' # {} => u = v
    BY DEF ListInv
  <2>1. CASE u = t
    <3>1. Running(t)' = Running(t) /\ Forking(t)' = {c} /\ lists'[t] = lists[t] \union {c}
      BY <1>15, <1>16
    <3>2. /\ Running(t) \subseteq lists[t] /\ lists[t] \subseteq Running(t) \union pending
          /\ Running(t) \intersect pending = {} /\ \A d \in lists[t] : flag[d] # "none"
          /\ \A d \in Running(t) \ Trivial : flag[d] = "initializing"
          /\ \A v \in Thread : Running(t) # {} /\ Running(v) # {} => t = v
      BY <1>4, <1>9 DEF ListInv
    <3>3. \A v \in Thread : Running(v)' = Running(v)
      BY <1>15
    <3>. QED
      BY <1>11, <2>1, <3>1, <3>2, <3>3
  <2>2. CASE u # t
    BY <1>4, <1>15, <1>16, <2>2 DEF ListInv
  <2>. QED
    BY <2>1, <2>2
<1>20. BelowInv'
    BY <1>4, <1>15, <1>16 DEF BelowInv
<1>21. PendingInv'
  <2>. SUFFICES ASSUME NEW x \in pending
                PROVE  flag[x] = "initializing" /\ \E d \in Class : WaitsFor(x, d)'
    BY DEF PendingInv
  <2>1. flag[x] = "initializing" /\ x # c
    BY <1>4, <1>12 DEF PendingInv
  <2>2. PICK d \in Class : WaitsFor(x, d)
    BY <1>4 DEF PendingInv
  <2>3. ASSUME NEW u \in Thread, x \in lists'[u] PROVE x \in lists[u]
    <3>1. lists'[u] = lists[u] \/ lists'[u] = lists[u] \union {c}
      BY <1>16
    <3>. QED
      BY <2>1, <2>3, <3>1
  <2>4. WaitsFor(x, d)'
    BY <1>15, <2>2, <2>3 DEF WaitsFor
  <2>. QED
    BY <2>1, <2>4
<1>22. CallbackInv'
    BY <1>1, <1>5, <1>6, <1>7, QuietCallbacks DEF Calling
<1>23. TypeOK' /\ FatalInv'
  <2>1. lists' \in [Thread -> SUBSET Class]
    BY <1>1, <1>2, <1>4 DEF TypeOK
  <2>2. stack' \in [Thread -> Seq(Frame)]
    BY <1>4, <1>6, <1>7, StackOf
  <2>. QED
    BY <1>4, <2>1, <2>2 DEF IInv, TypeOK, FatalInv
<1>. QED
    BY <1>15, <1>17, <1>18, <1>19, <1>20, <1>21, <1>22, <1>23 DEF IInv, GoInv

\* The class was entered already: by this thread, by another one, or in the parent.
LEMMA IsInitializingStep == ASSUME IInv, NEW t \in Thread, IsInitializing(t) PROVE IInv'
<1>. DEFINE c == Top(t).cls
<1>1. Runs(t, "initializing") /\ fatal = "no"
      /\ UNCHANGED <<flag, pending, funcs, forked, fatal, calls>>
    BY DEF IsInitializing, Runs
<1>2. c \in Class /\ flag[c] # "none"
  <2>1. PICK s \in Seq(Frame), f \in Frame : Top(t) = f /\ f.pc = "initializing" /\ FrameOK(f)
    BY <1>1, Runner
  <2>. QED
    BY <2>1 DEF FrameOK
<1>3. CASE flag[c] = "initializing" /\ c \in lists[t] /\ Return(t) /\ UNCHANGED lists
    BY <1>1, <1>3, ReturnStep
<1>4. CASE Goto(t, "wait") /\ UNCHANGED lists
    BY <1>1, <1>2, <1>4, RelabelStep
<1>5. CASE /\ flag[c] = "initializing" /\ c \notin lists[t] /\ forked
           /\ lists' = [lists EXCEPT ![t] = @ \union {c}] /\ Goto(t, "fork")
    BY <1>1, <1>5, ForkEnterStep
<1>6. CASE flag[c] # "initializing" /\ Goto(t, "initialized") /\ UNCHANGED lists
  <2>1. flag[c] = "initialized"
    BY <1>2, <1>6 DEF IInv, TypeOK
  <2>. QED
    BY <1>1, <1>2, <1>6, <2>1, RelabelStep
<1>. QED
    BY <1>3, <1>4, <1>5, <1>6 DEF IsInitializing

-----------------------------------------------------------------------------
(* The end of +initialize *)

\* A call whose class is over: the callers are in the middle of others, not above it.
LEMMA Ending ==
    ASSUME IInv, fatal = "no", NEW t \in Thread, NEW s \in Seq(Frame), NEW f \in Frame,
           stack[t] = Append(s, f), f.pc \in {"initialize", "fork"}, NEW e, e = f.cls
    PROVE  /\ e \in Class /\ e \in lists[t] /\ e \notin Entered(s) /\ flag[e] # "none"
           /\ f.pc = "initialize" => Running(t) = Entered(s) \union {e} /\ Forking(t) = {}
           /\ f.pc = "fork" => Running(t) = Entered(s) /\ Forking(t) = {e} /\ forked
           /\ Forks(s) = {} /\ ~Calling(s)
           /\ StackOK(s) /\ OrderOK(s)
           /\ \A x \in Entered(s) : /\ x \notin Trivial
                                    /\ f.pc = "initialize" => e \notin Ancestors[x]
<1>1. StackOK(Append(s, f)) /\ OrderOK(Append(s, f)) /\ ListInv
    BY DEF IInv, GoInv, StackInv, OrderInv
<1>2. StackOK(s) /\ FrameOK(f) /\ OrderOK(s)
    BY <1>1, StackPush, OrderPush
<1>3. /\ \A i \in 1 .. Len(s) : s[i].pc \in {"try", "initialize"} /\ Inside(s[i], f)
      /\ Forks(s) = {} /\ ~Calling(s)
    BY Beneath
<1>4. e \in Class /\ flag[e] # "none" /\ (f.pc = "fork" => forked)
    BY <1>2 DEF FrameOK
<1>5. f.pc = "initialize" => Running(t) = Entered(s) \union {e} /\ Forking(t) = {}
    BY <1>3, EnteredPush DEF Running, Forking, Active
<1>6. f.pc = "fork" => Running(t) = Entered(s) /\ Forking(t) = {e}
    BY <1>3, EnteredPush DEF Running, Forking, Active
<1>7. ASSUME NEW x \in Entered(s)
      PROVE  x \notin Trivial /\ (f.pc = "initialize" => e \notin {x} \union Ancestors[x])
  <2>1. PICK i \in 1 .. Len(s) : Active(s[i]) /\ x = s[i].cls
    BY DEF Entered
  <2>2. s[i].pc = "initialize" /\ Inside(s[i], f)
    BY <1>3, <2>1 DEF Active
  <2>. QED
    BY <2>1, <2>2 DEF Inside, Active
<1>8. e \in lists[t] /\ e \notin Entered(s)
    BY <1>1, <1>5, <1>6, <1>7 DEF ListInv
<1>. QED
    BY <1>2, <1>3, <1>4, <1>5, <1>6, <1>7, <1>8

\* The stacks when it returns.
LEMMA EndStacks ==
    ASSUME IInv, fatal = "no", NEW t \in Thread, NEW s \in Seq(Frame), NEW f \in Frame,
           stack[t] = Append(s, f), f.pc \in {"initialize", "fork"}, NEW e, e = f.cls,
           stack' = [stack EXCEPT ![t] = s], UNCHANGED <<funcs, forked, calls>>,
           \A c \in Class : /\ flag'[c] = "none" <=> flag[c] = "none"
                            /\ flag[c] = "initialized" => flag'[c] = "initialized"
    PROVE  /\ StackInv' /\ OrderInv' /\ CallbackInv' /\ stack' \in [Thread -> Seq(Frame)]
           /\ \A u \in Thread : /\ Running(u)' = IF u = t THEN Entered(s) ELSE Running(u)
                                /\ Forking(u)' = IF u = t THEN {} ELSE Forking(u)
           /\ /\ flag'[e] = "initialized" \/ e \in lists'[t]
              /\ \A u \in Thread : u # t => lists'[u] = lists[u]
              => ReadyInv'
<1>1. /\ StackOK(s) /\ OrderOK(s) /\ ~Calling(s) /\ ~Calling(stack[t]) /\ Forks(s) = {}
  <2>1. StackOK(s) /\ OrderOK(s) /\ ~Calling(s) /\ Forks(s) = {}
    BY Ending
  <2>2. ~Calling(stack[t])
    BY Push DEF Calling
  <2>. QED
    BY <2>1, <2>2
<1>2. StackOK(s)'
    BY <1>1, StackStays
<1>3. /\ StackInv' /\ OrderInv'
      /\ \A u \in Thread : /\ Running(u)' = IF u = t THEN Entered(s) ELSE Running(u)
                           /\ Forking(u)' = IF u = t THEN {} ELSE Forking(u)
    BY <1>1, <1>2, StacksOf
<1>4. CallbackInv'
    BY <1>1, QuietCallbacks
<1>5. stack' \in [Thread -> Seq(Frame)]
    BY StackOf DEF IInv
<1>6. ASSUME flag'[e] = "initialized" \/ e \in lists'[t],
             \A u \in Thread : u # t => lists'[u] = lists[u]
      PROVE  ReadyInv'
  <2>1. \A u \in Thread \ {t}, c \in Class : Ready(u, c) => Ready(u, c)'
    BY <1>6, InitializeAssumption DEF Ready
  <2>2. s # <<>> => /\ s[Len(s)].pc \in {"try", "initialize"}
                    /\ s[Len(s)].pc = "try" => Ready(t, s[Len(s)].cls)'
    <3>1. StackOK(Append(s, f))
      BY DEF IInv, StackInv
    <3>. QED
      BY <1>6, <3>1, ReturnReady
  <2>. QED
    BY <2>1, <2>2, ReadyStays
<1>. QED
    BY <1>3, <1>4, <1>5, <1>6

\* Where the superclass is not done, the class is that of one thread.
LEMMA Alone ==
    ASSUME IInv, fatal = "no", NEW t \in Thread, NEW u \in Thread, NEW e \in Class,
           e \in lists[t], e \in lists[u], SuperUninitialized(e), Running(t) # {}
    PROVE  t = u
<1>1. ListInv /\ PendingInv /\ ReadyInv
    BY DEF IInv, GoInv
<1>2. CASE ~forked
    BY <1>2, OneOwner
<1>3. CASE forked
  <2>. SUFFICES ASSUME Running(u) = {} PROVE FALSE
    BY <1>1, <1>3 DEF ListInv
  <2>1. \A x \in lists[u] : x \in Forking(u)
    BY <1>1 DEF ListInv, PendingInv, WaitsFor
  <2>2. PICK i \in 1 .. Len(stack[u]) : stack[u][i].pc = "fork" /\ stack[u][i].cls = e
    BY <2>1 DEF Forking, Forks
  <2>3. TypeOK /\ stack[u] # <<>>
    BY <2>2, NoCalls, EmptySeq DEF IInv
  <2>4. PICK s \in Seq(Frame), f \in Frame : stack[u] = Append(s, f) /\ Top(u) = f
    BY <2>3, TopSplit
  <2>5. Forks(s) = {}
    BY <2>4, Beneath
  <2>6. f.pc = "fork" /\ f.cls = e /\ Forking(u) = {e}
    BY <2>1, <2>4, <2>5, EnteredPush DEF Forking
  <2>7. Super[e] \in lists[u]
    BY <1>1, <2>3, <2>4, <2>6 DEF ReadyInv, Ready, SuperUninitialized
  <2>8. Super[e] = e
    BY <2>1, <2>6, <2>7
  <2>. QED
    BY <2>8, AncestorsSuper, HierarchyAssumption DEF SuperUninitialized
<1>. QED
    BY <1>2, <1>3

\* The class that waits for its superclass.
LEMMA PendStep ==
    ASSUME IInv, fatal = "no", NEW t \in Thread, NEW s \in Seq(Frame), NEW f \in Frame,
           stack[t] = Append(s, f), f.pc \in {"initialize", "fork"}, NEW e, e = f.cls,
           Top(t) = f, stack' = [stack EXCEPT ![t] = s], UNCHANGED <<funcs, forked, calls>>,
           SuperUninitialized(e), pending' = pending \union {e}, UNCHANGED <<flag, lists, fatal>>
    PROVE  IInv'
<1>1. /\ e \in Class /\ e \in lists[t] /\ e \notin Entered(s) /\ flag[e] # "none"
      /\ f.pc = "initialize" => Running(t) = Entered(s) \union {e} /\ Forking(t) = {}
      /\ f.pc = "fork" => Running(t) = Entered(s) /\ Forking(t) = {e}
      /\ \A x \in Entered(s) : x \notin Trivial
    BY Ending
<1>2. /\ TypeOK /\ SubtreeInv /\ ListInv /\ BelowInv /\ PendingInv /\ ReadyInv
    BY DEF IInv, GoInv
<1>. DEFINE p == Super[e]
<1>3. /\ p \in Class /\ p \in Ancestors[e] /\ p # e /\ Ancestors[p] \subseteq Ancestors[e]
      /\ e \notin Ancestors[e]
    BY <1>1, AncestorsSuper, HierarchyAssumption DEF SuperUninitialized
<1>4. flag[e] = "initializing" /\ flag[p] = "initializing"
    BY <1>1, <1>2, <1>3 DEF SubtreeInv, SuperUninitialized, TypeOK
<1>5. p \in lists[t]
  <2>1. CASE f.pc = "initialize"
    BY <1>1, <1>2, <1>3, <1>4, <2>1 DEF BelowInv
  <2>2. CASE f.pc = "fork"
    <3>1. stack[t] # <<>>
      BY Push
    <3>2. Ready(t, e)
      BY <1>2, <2>2, <3>1 DEF ReadyInv
    <3>. QED
      BY <3>2 DEF Ready, SuperUninitialized
  <2>. QED
    BY <2>1, <2>2
<1>6. PICK w \in Ancestors[e] : w \in Entered(s) /\ w \notin pending /\ flag[w] = "initializing"
  <2>1. p \in Entered(s) \/ p \in pending
    BY <1>1, <1>2, <1>3, <1>5 DEF ListInv
  <2>2. CASE p \in Entered(s)
    <3>1. p \notin pending
      BY <1>1, <1>2, <2>2 DEF ListInv
    <3>. QED
      BY <1>3, <1>4, <2>2, <3>1
  <2>3. CASE p \in pending
    <3>1. PICK d \in Class : WaitsFor(p, d)
      BY <1>2, <2>3 DEF PendingInv
    <3>2. /\ d \in Ancestors[p] /\ d \notin pending /\ flag[d] = "initializing"
          /\ d \in Running(t)
      BY <1>5, <3>1 DEF WaitsFor
    <3>3. d \in Ancestors[e] /\ d # e
      BY <1>3, <3>2
    <3>. QED
      BY <1>1, <3>2, <3>3
  <2>. QED
    BY <2>1, <2>2, <2>3
<1>7. w \in Class /\ w # e /\ w \notin Trivial /\ w \notin pending' /\ w \in Running(t)
      /\ Running(t) # {}
    BY <1>1, <1>3, <1>6, AncestorsSuper
<1>8. \A u \in Thread : e \in lists[u] => u = t
    BY <1>1, <1>7, Alone
<1>9. /\ StackInv' /\ OrderInv' /\ CallbackInv' /\ stack' \in [Thread -> Seq(Frame)]
      /\ \A u \in Thread : /\ Running(u)' = IF u = t THEN Entered(s) ELSE Running(u)
                           /\ Forking(u)' = IF u = t THEN {} ELSE Forking(u)
      /\ ReadyInv'
    BY <1>1, EndStacks
<1>10. SubtreeInv' /\ Contiguous'
    BY DEF IInv, SubtreeInv, Contiguous
<1>11. \A u \in Thread : Running(u)' \subseteq Running(u)
                         /\ \A x \in Running(u) : x # e => x \in Running(u)'
    BY <1>1, <1>9
<1>12. ListInv'
  <2>. SUFFICES ASSUME NEW u \in Thread
                PROVE  /\ \A x \in lists[u] : flag[x] # "none" /\ (~forked => flag[x] = "initializing")
                       /\ Running(u)' \union Forking(u)' \subseteq lists[u]
                       /\ lists[u] \subseteq Running(u)' \union Forking(u)' \union pending'
                       /\ Running(u)' \intersect (Forking(u)' \union pending') = {}
                       /\ \A x \in Running(u)' \ Trivial : flag[x] = "initializing"
                       /\ forked => \A v \in Thread : Running(u)' # {} /\ Running(v)' # {} => u = v
    BY DEF ListInv
  <2>1. /\ \A x \in lists[u] : flag[x] # "none" /\ (~forked => flag[x] = "initializing")
        /\ Running(u) \union Forking(u) \subseteq lists[u]
        /\ lists[u] \subseteq Running(u) \union Forking(u) \union pending
        /\ Running(u) \intersect (Forking(u) \union pending) = {}
        /\ \A x \in Running(u) \ Trivial : flag[x] = "initializing"
        /\ forked => \A v \in Thread : Running(u) # {} /\ Running(v) # {} => u = v
    BY <1>2 DEF ListInv
  <2>2. forked => \A v \in Thread : Running(u)' # {} /\ Running(v)' # {} => u = v
    BY <1>11, <2>1
  <2>3. \A x \in Running(u)' \ Trivial : flag[x] = "initializing"
    BY <1>11, <2>1
  <2>4. CASE u = t
    <3>1. Running(t)' = Entered(s) /\ Forking(t)' = {}
      BY <1>9
    <3>. QED
      BY <1>1, <2>1, <2>2, <2>3, <2>4, <3>1
  <2>5. CASE u # t
    <3>1. Running(u)' = Running(u) /\ Forking(u)' = Forking(u) /\ e \notin lists[u]
      BY <1>8, <1>9, <2>5
    <3>. QED
      BY <2>1, <2>2, <2>3, <3>1
  <2>. QED
    BY <2>4, <2>5
<1>13. BelowInv'
    BY <1>2, <1>11 DEF BelowInv
<1>14. PendingInv'
  <2>. SUFFICES ASSUME NEW x \in pending'
                PROVE  flag[x] = "initializing" /\ \E d \in Class : WaitsFor(x, d)'
    BY DEF PendingInv
  <2>1. Running(t)' = Entered(s)
    BY <1>9
  <2>2. CASE x = e
    <3>1. WaitsFor(e, w)'
      BY <1>6, <1>7, <1>8, <2>1 DEF WaitsFor
    <3>. QED
      BY <1>4, <1>7, <2>2, <3>1
  <2>3. CASE x \in pending
    <3>1. flag[x] = "initializing" /\ x \in Class
      BY <1>2, <2>3 DEF PendingInv, TypeOK
    <3>2. PICK d \in Class : WaitsFor(x, d)
      BY <1>2, <2>3 DEF PendingInv
    <3>3. /\ d \in Ancestors[x] /\ d \notin Trivial /\ d \notin pending /\ flag[d] = "initializing"
          /\ \A u \in Thread : x \in lists[u] => d \in Running(u)
      BY <3>2 DEF WaitsFor
    <3>4. CASE d # e
      <4>1. \A u \in Thread : x \in lists[u] => d \in Running(u)'
        BY <1>11, <3>3, <3>4
      <4>2. WaitsFor(x, d)'
        BY <3>3, <3>4, <4>1 DEF WaitsFor
      <4>. QED
        BY <3>1, <4>2
    <3>5. CASE d = e
      <4>1. w \in Ancestors[x]
        BY <1>6, <3>1, <3>3, <3>5, AncestorsTransitive
      <4>2. ASSUME NEW u \in Thread, x \in lists[u] PROVE u = t
        BY <1>2, <1>8, <3>3, <3>5, <4>2 DEF ListInv
      <4>3. WaitsFor(x, w)'
        BY <1>6, <1>7, <2>1, <4>1, <4>2 DEF WaitsFor
      <4>. QED
        BY <1>7, <3>1, <4>3
    <3>. QED
      BY <3>4, <3>5
  <2>. QED
    BY <2>2, <2>3
<1>15. TypeOK' /\ FatalInv'
    BY <1>1, <1>2, <1>9 DEF IInv, TypeOK, FatalInv
<1>. QED
    BY <1>9, <1>10, <1>12, <1>13, <1>14, <1>15 DEF IInv, GoInv

\* The classes that wait for one whose superclasses are done.
LEMMA WaitingFor ==
    ASSUME IInv, fatal = "no", NEW t \in Thread, NEW s \in Seq(Frame), NEW f \in Frame,
           stack[t] = Append(s, f), f.pc \in {"initialize", "fork"}, NEW e, e = f.cls,
           f.pc = "fork" => e \in Trivial, ~SuperUninitialized(e)
    PROVE  /\ \A d \in Ancestors[e] : flag[d] = "initialized"
           /\ e \notin pending
           /\ \A d \in Waiting(e) : /\ d \in Class /\ d # e /\ d \in pending /\ d \in lists[t]
                                    /\ flag[d] = "initializing" /\ e \in Ancestors[d]
                                    /\ \A u \in Thread : d \in lists[u] => u = t
           /\ \A d \in pending : e \in Ancestors[d] /\ e \notin Trivial => d \in Waiting(e)
           /\ \A u \in Thread : e \in lists[u] => u = t \/ (forked /\ e \notin Running(u) \ Trivial)
           /\ \A c \in Class : c \in Waiting(e) /\ Super[c] # None =>
                                   Super[c] = e \/ Super[c] \in Waiting(e)
<1>1. /\ e \in Class /\ e \in lists[t] /\ e \notin Entered(s) /\ flag[e] # "none"
      /\ f.pc = "initialize" => Running(t) = Entered(s) \union {e} /\ Forking(t) = {}
      /\ \A x \in Entered(s) : f.pc = "initialize" => e \notin Ancestors[x]
    BY Ending
<1>2. /\ TypeOK /\ SubtreeInv /\ ListInv /\ BelowInv /\ PendingInv
    BY DEF IInv, GoInv
<1>3. \A d \in Ancestors[e] : flag[d] = "initialized"
  <2>1. CASE Super[e] = None
    BY <1>1, <2>1, AncestorsSuper
  <2>2. CASE Super[e] # None
    <3>1. Super[e] \in Class /\ Ancestors[e] = {Super[e]} \union Ancestors[Super[e]]
      BY <1>1, <2>2, AncestorsSuper
    <3>2. flag[Super[e]] = "initialized"
      BY <2>2 DEF SuperUninitialized
    <3>. QED
      BY <1>2, <3>1, <3>2, EnteredAbove
  <2>. QED
    BY <2>1, <2>2
<1>4. e \notin pending
    BY <1>2, <1>3 DEF PendingInv, WaitsFor
<1>5. ASSUME NEW d \in Waiting(e)
      PROVE  /\ d \in Class /\ d # e /\ d \in pending /\ e \in Ancestors[d]
             /\ flag[d] = "initializing" /\ e \notin Trivial
             /\ \A u \in Thread : d \in lists[u] => e \in Running(u)
  <2>1. /\ d \in Class /\ e \in Ancestors[d]
        /\ \A y \in {d} \union Ancestors[d] : y = e \/ y \in Ancestors[e] \/ y \in pending
    BY DEF Waiting
  <2>2. d # e /\ d \notin Ancestors[e]
    BY <1>1, <2>1, HierarchyAssumption, AncestorsTransitive
  <2>3. d \in pending
    BY <2>1, <2>2
  <2>4. flag[d] = "initializing"
    BY <1>2, <2>3 DEF PendingInv
  <2>5. PICK w \in Class : WaitsFor(d, w)
    BY <1>2, <2>3 DEF PendingInv
  <2>6. w = e
    BY <1>3, <2>1, <2>5 DEF WaitsFor
  <2>. QED
    BY <2>1, <2>2, <2>3, <2>4, <2>5, <2>6 DEF WaitsFor
<1>6. ASSUME NEW u \in Thread, e \in lists[u], e \in Running(u) \ Trivial
      PROVE  u = t
  <2>1. e \in Running(t)
    BY <1>1, <1>6
  <2>. QED
    BY <1>1, <1>6, <2>1, OneRunner
<1>7. ASSUME NEW d \in Waiting(e)
      PROVE  d \in lists[t] /\ \A u \in Thread : d \in lists[u] => u = t
  <2>1. e \in Running(t)
    BY <1>1, <1>5
  <2>2. d \in lists[t]
    BY <1>2, <1>5, <2>1 DEF BelowInv
  <2>3. ASSUME NEW u \in Thread, d \in lists[u] PROVE u = t
    <3>1. e \in Running(u) \ Trivial /\ e \in lists[u]
      BY <1>2, <1>5, <2>3 DEF ListInv
    <3>. QED
      BY <1>6, <3>1
  <2>. QED
    BY <2>2, <2>3
<1>8. ASSUME NEW d \in pending, e \in Ancestors[d], e \notin Trivial
      PROVE  d \in Waiting(e)
  <2>1. f.pc = "initialize" /\ e \in Running(t) /\ flag[e] = "initializing"
    BY <1>1, <1>2, <1>8 DEF ListInv
  <2>2. d \in Class /\ flag[d] # "none"
    BY <1>2 DEF PendingInv, TypeOK
  <2>3. ASSUME NEW y \in {d} \union Ancestors[d], y \notin {e} \union Ancestors[e]
        PROVE  y \in pending
    <3>1. y \in Class /\ e \in Ancestors[y]
      BY <1>8, <2>2, <2>3, AncestorsLinear, AncestorsSuper
    <3>2. flag[y] # "initialized"
      BY <1>2, <2>1, <3>1, EnteredAbove
    <3>3. flag[y] # "none"
      BY <1>2, <2>2, EnteredAbove
    <3>4. flag[y] = "initializing"
      BY <1>2, <3>1, <3>2, <3>3 DEF TypeOK
    <3>5. y \in lists[t]
      BY <1>2, <1>8, <2>1, <3>1, <3>4 DEF BelowInv
    <3>6. y \notin Running(t)
      BY <1>1, <2>1, <2>3, <3>1
    <3>. QED
      BY <1>1, <1>2, <2>1, <3>5, <3>6 DEF ListInv
  <2>. QED
    BY <1>8, <2>2, <2>3 DEF Waiting
<1>9. ASSUME NEW u \in Thread, e \in lists[u]
      PROVE  u = t \/ (forked /\ e \notin Running(u) \ Trivial)
  <2>1. CASE ~forked
    BY <1>1, <1>9, <2>1, OneOwner
  <2>2. CASE forked
    BY <1>6, <1>9, <2>2
  <2>. QED
    BY <2>1, <2>2
<1>10. ASSUME NEW c \in Class, c \in Waiting(e), Super[c] # None
       PROVE  Super[c] = e \/ Super[c] \in Waiting(e)
  <2>1. Super[c] \in Class /\ Ancestors[c] = {Super[c]} \union Ancestors[Super[c]]
    BY <1>10, AncestorsSuper
  <2>2. e \in Ancestors[c]
        /\ ({c} \union Ancestors[c]) \ ({e} \union Ancestors[e]) \subseteq pending
    BY <1>10 DEF Waiting
  <2>3. Super[c] # e => e \in Ancestors[Super[c]]
    BY <2>1, <2>2
  <2>. QED
    BY <2>1, <2>2, <2>3 DEF Waiting
<1>. QED
    BY <1>3, <1>4, <1>5, <1>7, <1>8, <1>9, <1>10

\* The class is done, and so are those that waited for it.
LEMMA FinishStep ==
    ASSUME IInv, fatal = "no", NEW t \in Thread, NEW s \in Seq(Frame), NEW f \in Frame,
           stack[t] = Append(s, f), f.pc \in {"initialize", "fork"}, NEW e, e = f.cls,
           stack' = [stack EXCEPT ![t] = s], UNCHANGED <<funcs, forked, calls>>,
           f.pc = "fork" => e \in Trivial, ~SuperUninitialized(e), NEW done,
           done = {e} \union Waiting(e),
           flag' = [d \in Class |-> IF d \in done THEN "initialized" ELSE flag[d]],
           pending' = pending \ done, lists' = [lists EXCEPT ![t] = @ \ done],
           fatal' = IF done \subseteq lists[t] THEN "no" ELSE "buggy"
    PROVE  IInv'
<1>1. /\ e \in Class /\ e \in lists[t] /\ e \notin Entered(s) /\ flag[e] # "none"
      /\ f.pc = "initialize" => Running(t) = Entered(s) \union {e} /\ Forking(t) = {}
      /\ f.pc = "fork" => Running(t) = Entered(s) /\ Forking(t) = {e}
    BY Ending
<1>2. /\ TypeOK /\ SubtreeInv /\ Contiguous /\ ListInv /\ BelowInv /\ PendingInv
    BY DEF IInv, GoInv
<1>3. /\ \A d \in Ancestors[e] : flag[d] = "initialized"
      /\ e \notin pending
      /\ \A d \in pending : e \in Ancestors[d] /\ e \notin Trivial => d \in Waiting(e)
      /\ \A u \in Thread : e \in lists[u] => u = t \/ (forked /\ e \notin Running(u) \ Trivial)
      /\ \A c \in Class : c \in Waiting(e) /\ Super[c] # None =>
                              Super[c] = e \/ Super[c] \in Waiting(e)
    BY WaitingFor
<1>4. \A d \in Waiting(e) : /\ d \in Class /\ d \in pending /\ d \in lists[t]
                            /\ flag[d] = "initializing"
                            /\ \A u \in Thread : d \in lists[u] => u = t
    BY WaitingFor
<1>5. fatal' = "no"
    BY <1>1, <1>4
<1>6. /\ \A d \in Class : flag'[d] = IF d \in done THEN "initialized" ELSE flag[d]
      /\ \A u \in Thread : lists'[u] = IF u = t THEN lists[u] \ done ELSE lists[u]
      /\ \A d \in Class : /\ flag'[d] = "none" <=> flag[d] = "none"
                          /\ flag[d] = "initialized" => flag'[d] = "initialized"
                          /\ flag'[d] = "initializing" <=> flag[d] = "initializing" /\ d \notin done
  <2>1. /\ \A d \in Class : flag'[d] = IF d \in done THEN "initialized" ELSE flag[d]
        /\ \A u \in Thread : lists'[u] = IF u = t THEN lists[u] \ done ELSE lists[u]
    BY <1>2 DEF TypeOK
  <2>2. \A d \in done : flag[d] # "none"
    BY <1>1, <1>4
  <2>. QED
    BY <2>1, <2>2
<1>7. /\ StackInv' /\ OrderInv' /\ CallbackInv' /\ stack' \in [Thread -> Seq(Frame)]
      /\ \A u \in Thread : /\ Running(u)' = IF u = t THEN Entered(s) ELSE Running(u)
                           /\ Forking(u)' = IF u = t THEN {} ELSE Forking(u)
      /\ ReadyInv'
  <2>1. flag'[e] = "initialized"
    BY <1>1, <1>6
  <2>2. \A c \in Class : /\ flag'[c] = "none" <=> flag[c] = "none"
                         /\ flag[c] = "initialized" => flag'[c] = "initialized"
    BY <1>6
  <2>3. \A u \in Thread : u # t => lists'[u] = lists[u]
    BY <1>6
  <2>. QED
    BY <2>1, <2>2, <2>3, EndStacks
<1>8. \A u \in Thread : Running(u)' \subseteq Running(u)
                        /\ \A x \in Running(u) : x # e => x \in Running(u)'
    BY <1>1, <1>7
<1>9. ASSUME NEW u \in Thread, NEW x \in done, x \in lists[u], u # t
      PROVE  x = e /\ forked /\ e \notin Running(u) \ Trivial
    BY <1>3, <1>4, <1>9
<1>10. SubtreeInv'
  <2>. SUFFICES ASSUME NEW c \in Class, flag'[c] # "none", Super[c] # None
                PROVE  /\ flag'[Super[c]] # "none"
                       /\ flag'[c] = "initialized" => flag'[Super[c]] = "initialized"
    BY DEF SubtreeInv
  <2>1. Super[c] \in Class /\ Super[c] \in Ancestors[c]
    BY AncestorsSuper
  <2>2. CASE c = e
    BY <1>3, <1>6, <2>1, <2>2
  <2>3. CASE c \in Waiting(e)
    <3>1. Super[c] \in done
      BY <1>3, <2>3
    <3>. QED
      BY <1>6, <2>1, <3>1
  <2>4. CASE c \notin done
    BY <1>2, <1>6, <2>1, <2>4 DEF SubtreeInv
  <2>. QED
    BY <2>2, <2>3, <2>4
<1>11. Contiguous'
  <2>. SUFFICES ASSUME NEW c \in Class, flag'[c] = "initializing", ~forked
                PROVE  \E w \in Thread : \A u \in Thread, d \in {c} \union Ancestors[c] :
                           flag'[d] = "initializing" => (d \in lists'[u] <=> u = w)
    BY <1>10 DEF Contiguous, SubtreeInv
  <2>1. PICK w \in Thread : \A u \in Thread, d \in {c} \union Ancestors[c] :
                                flag[d] = "initializing" => (d \in lists[u] <=> u = w)
    BY <1>2, <1>6 DEF Contiguous
  <2>2. ASSUME NEW u \in Thread, NEW d \in {c} \union Ancestors[c], flag'[d] = "initializing"
        PROVE  d \in lists'[u] <=> u = w
    <3>1. d \in Class
      BY AncestorsSuper
    <3>2. flag[d] = "initializing" /\ d \notin done
      BY <1>6, <2>2, <3>1
    <3>3. d \in lists'[u] <=> d \in lists[u]
      BY <1>6, <3>2
    <3>. QED
      BY <2>1, <3>2, <3>3
  <2>. QED
    BY <2>2
<1>12. ListInv'
  <2>. SUFFICES ASSUME NEW u \in Thread
                PROVE  /\ \A x \in lists'[u] : flag'[x] # "none" /\ (~forked => flag'[x] = "initializing")
                       /\ Running(u)' \union Forking(u)' \subseteq lists'[u]
                       /\ lists'[u] \subseteq Running(u)' \union Forking(u)' \union pending'
                       /\ Running(u)' \intersect (Forking(u)' \union pending') = {}
                       /\ \A x \in Running(u)' \ Trivial : flag'[x] = "initializing"
                       /\ forked => \A v \in Thread : Running(u)' # {} /\ Running(v)' # {} => u = v
    BY DEF ListInv
  <2>1. /\ \A x \in lists[u] : x \in Class /\ flag[x] # "none" /\ (~forked => flag[x] = "initializing")
        /\ Running(u) \union Forking(u) \subseteq lists[u]
        /\ lists[u] \subseteq Running(u) \union Forking(u) \union pending
        /\ Running(u) \intersect (Forking(u) \union pending) = {}
        /\ \A x \in Running(u) \ Trivial : flag[x] = "initializing"
        /\ forked => \A v \in Thread : Running(u) # {} /\ Running(v) # {} => u = v
    BY <1>2 DEF ListInv, TypeOK
  <2>2. forked => \A v \in Thread : Running(u)' # {} /\ Running(v)' # {} => u = v
    BY <1>8, <2>1
  <2>3. CASE u = t
    <3>1. Running(t)' = Entered(s) /\ Forking(t)' = {} /\ lists'[t] = lists[t] \ done
      BY <1>6, <1>7
    <3>2. Entered(s) \subseteq Running(t) /\ Running(t) \union Forking(t) = Entered(s) \union {e}
      BY <1>1
    <3>3. \A x \in Entered(s) : x \notin done /\ x \in lists[t] /\ x \notin pending
      BY <1>1, <1>4, <2>1, <2>3, <3>2
    <3>4. \A x \in lists'[u] : flag'[x] # "none" /\ (~forked => flag'[x] = "initializing")
      BY <1>6, <2>1, <2>3, <3>1
    <3>5. Running(u)' \union Forking(u)' \subseteq lists'[u]
      BY <2>3, <3>1, <3>3
    <3>6. lists'[u] \subseteq Running(u)' \union Forking(u)' \union pending'
      BY <2>1, <2>3, <3>1, <3>2
    <3>7. Running(u)' \intersect (Forking(u)' \union pending') = {}
      BY <2>3, <3>1, <3>3
    <3>8. \A x \in Running(u)' \ Trivial : flag'[x] = "initializing"
      BY <1>6, <2>1, <2>3, <3>1, <3>2, <3>3
    <3>. QED
      BY <2>2, <3>4, <3>5, <3>6, <3>7, <3>8
  <2>4. CASE u # t
    <3>1. Running(u)' = Running(u) /\ Forking(u)' = Forking(u) /\ lists'[u] = lists[u]
      BY <1>6, <1>7, <2>4
    <3>2. \A x \in lists[u] : x \notin done \/ (forked /\ x = e /\ e \notin Running(u) \ Trivial)
      BY <1>9, <2>4
    <3>3. \A x \in lists'[u] : flag'[x] # "none" /\ (~forked => flag'[x] = "initializing")
      BY <1>6, <2>1, <3>1, <3>2
    <3>4. lists'[u] \subseteq Running(u)' \union Forking(u)' \union pending'
      BY <1>3, <2>1, <3>1, <3>2
    <3>5. \A x \in Running(u)' \ Trivial : flag'[x] = "initializing"
      BY <1>6, <2>1, <3>1, <3>2
    <3>6. Running(u)' \union Forking(u)' \subseteq lists'[u]
      BY <2>1, <3>1
    <3>7. Running(u)' \intersect (Forking(u)' \union pending') = {}
      BY <2>1, <3>1
    <3>. QED
      BY <2>2, <3>3, <3>4, <3>5, <3>6, <3>7
  <2>. QED
    BY <2>3, <2>4
<1>13. BelowInv'
  <2>. SUFFICES ASSUME NEW u \in Thread, NEW c \in Running(u)', NEW d \in Class,
                       flag'[d] = "initializing"
                PROVE  /\ d \in Ancestors[c] => d \in lists'[u]
                       /\ c \in Ancestors[d] /\ c \notin Trivial => d \in lists'[u]
    BY DEF BelowInv
  <2>1. c \in Running(u) /\ flag[d] = "initializing" /\ d \notin done
    BY <1>6, <1>8
  <2>2. d \in lists[u] => d \in lists'[u]
    BY <1>6, <2>1
  <2>. QED
    BY <1>2, <2>1, <2>2 DEF BelowInv
<1>14. PendingInv'
  <2>. SUFFICES ASSUME NEW x \in pending'
                PROVE  flag'[x] = "initializing" /\ \E d \in Class : WaitsFor(x, d)'
    BY DEF PendingInv
  <2>1. x \in pending /\ x \notin done /\ x \in Class /\ flag[x] = "initializing"
    BY <1>2 DEF PendingInv, TypeOK
  <2>2. PICK d \in Class : WaitsFor(x, d)
    BY <1>2, <2>1 DEF PendingInv
  <2>3. /\ d \in Ancestors[x] /\ d \notin Trivial /\ d \notin pending /\ flag[d] = "initializing"
        /\ \A u \in Thread : x \in lists[u] => d \in Running(u)
    BY <2>2 DEF WaitsFor
  <2>4. d # e
    BY <1>3, <2>1, <2>3
  <2>5. d \notin done /\ flag'[d] = "initializing"
    BY <1>4, <1>6, <2>3, <2>4
  <2>6. \A u \in Thread : lists'[u] \subseteq lists[u]
    BY <1>6
  <2>7. \A u \in Thread : x \in lists'[u] => d \in Running(u)'
    BY <1>8, <2>3, <2>4, <2>6
  <2>8. WaitsFor(x, d)'
    BY <2>3, <2>5, <2>7 DEF WaitsFor
  <2>. QED
    BY <1>6, <2>1, <2>8
<1>15. TypeOK' /\ FatalInv'
  <2>1. flag' \in [Class -> {"none", "initializing", "initialized"}]
    BY <1>2 DEF TypeOK
  <2>2. lists' \in [Thread -> SUBSET Class]
    BY <1>2 DEF TypeOK
  <2>. QED
    BY <1>2, <1>5, <1>7, <2>1, <2>2 DEF TypeOK, FatalInv
<1>. QED
    BY <1>7, <1>10, <1>11, <1>12, <1>13, <1>14, <1>15 DEF IInv, GoInv

\* Both ends of lockAndFinishInitializing.
LEMMA LockAndFinishStep ==
    ASSUME IInv, NEW t \in Thread, NEW label \in {"initialize", "fork"}, Runs(t, label),
           label = "fork" => Top(t).cls \in Trivial,
           LockAndFinishInitializing(t, Top(t).cls), Return(t), UNCHANGED <<funcs, forked, calls>>
    PROVE  IInv'
<1>1. PICK s \in Seq(Frame), f \in Frame :
          /\ stack[t] = Append(s, f) /\ Caller(t) = s /\ Top(t) = f /\ f.pc = label
          /\ fatal = "no"
    BY Runner
<1>2. PICK e : e = f.cls
    OBVIOUS
<1>3. stack' = [stack EXCEPT ![t] = s]
    BY <1>1 DEF Return
<1>4. CASE SuperUninitialized(e) /\ pending' = pending \union {e} /\ UNCHANGED <<flag, lists, fatal>>
    BY <1>1, <1>2, <1>3, <1>4, PendStep
<1>5. ASSUME ~SuperUninitialized(e),
             LET done == {e} \union Waiting(e)
             IN  /\ flag' = [d \in Class |-> IF d \in done THEN "initialized" ELSE flag[d]]
                 /\ pending' = pending \ done
                 /\ lists' = [lists EXCEPT ![t] = @ \ done]
                 /\ fatal' = IF done \subseteq lists[t] THEN "no" ELSE "buggy"
      PROVE  IInv'
  <2>1. PICK done : done = {e} \union Waiting(e)
    OBVIOUS
  <2>2. /\ flag' = [d \in Class |-> IF d \in done THEN "initialized" ELSE flag[d]]
        /\ pending' = pending \ done
        /\ lists' = [lists EXCEPT ![t] = @ \ done]
        /\ fatal' = IF done \subseteq lists[t] THEN "no" ELSE "buggy"
    BY <1>5, <2>1
  <2>3. f.pc = "fork" => e \in Trivial
    BY <1>1, <1>2
  <2>4. f.pc \in {"initialize", "fork"}
    BY <1>1
  <2>5. stack[t] = Append(s, f) /\ fatal = "no" /\ ~SuperUninitialized(e)
        /\ UNCHANGED <<funcs, forked, calls>>
    BY <1>1, <1>5
  <2>. QED
    BY <1>2, <1>3, <2>1, <2>2, <2>3, <2>4, <2>5, FinishStep
<1>. QED
    BY <1>1, <1>2, <1>4, <1>5 DEF LockAndFinishInitializing

\* +initialize returns.
LEMMA EndInitializeStep == ASSUME IInv, NEW t \in Thread, EndInitialize(t) PROVE IInv'
BY LockAndFinishStep DEF EndInitialize

\* In a forked child it does not run, or the process halts.
LEMMA EndInitializeInForkChildStep ==
    ASSUME IInv, NEW t \in Thread, EndInitializeInForkChild(t) PROVE IInv'
<1>1. Runs(t, "fork") /\ Return(t) /\ UNCHANGED <<funcs, forked, calls>>
    BY DEF EndInitializeInForkChild
<1>2. CASE Top(t).cls \in Trivial /\ LockAndFinishInitializing(t, Top(t).cls)
    BY <1>1, <1>2, LockAndFinishStep
<1>3. CASE fatal' = "fork" /\ UNCHANGED <<flag, lists, pending>>
  <2>1. PICK s \in Seq(Frame), f \in Frame :
            /\ stack[t] = Append(s, f) /\ Caller(t) = s /\ Top(t) = f /\ f.pc = "fork"
            /\ fatal = "no" /\ FrameOK(f)
    BY <1>1, Runner
  <2>2. stack' = [stack EXCEPT ![t] = s]
    BY <1>1, <2>1 DEF Return
  <2>3. StackInv' /\ CallbackInv' /\ stack' \in [Thread -> Seq(Frame)]
    BY <1>1, <1>3, <2>1, <2>2, EndStacks
  <2>4. SubtreeInv' /\ Contiguous'
    BY <1>1, <1>3 DEF IInv, SubtreeInv, Contiguous
  <2>5. forked
    BY <2>1 DEF FrameOK
  <2>6. TypeOK' /\ FatalInv'
    BY <1>1, <1>3, <2>3, <2>5 DEF IInv, TypeOK, FatalInv
  <2>. QED
    BY <1>3, <2>3, <2>4, <2>6 DEF IInv
<1>. QED
    BY <1>2, <1>3 DEF EndInitializeInForkChild, PerformForkChildInitialize

-----------------------------------------------------------------------------
(* Fork, and the proof of the invariant *)

\* The child has one thread, that called fork: outside, or in a +initialize.
LEMMA ForkStep == ASSUME IInv, NEW t \in Thread, Fork(t) PROVE IInv'
<1>1. /\ ~forked /\ forked' = TRUE /\ fatal = "no" /\ UNCHANGED <<flag, pending, funcs, fatal, calls>>
      /\ stack[t] = <<>> \/ (stack[t] # <<>> /\ Top(t).pc = "initialize")
      /\ stack' = [u \in Thread |-> IF u = t THEN stack[t] ELSE <<>>]
      /\ lists' = [u \in Thread |-> IF u = t THEN lists[t] ELSE {}]
    BY DEF Fork, Runs
<1>2. /\ TypeOK /\ SubtreeInv /\ Contiguous /\ ListInv /\ BelowInv /\ PendingInv /\ OrderInv
      /\ StackInv /\ CallbackInv
    BY <1>1 DEF IInv, GoInv
<1>3. /\ <<>> \in Seq(Frame) /\ StackOK(<<>>) /\ OrderOK(<<>>)
      /\ Entered(<<>>) = {} /\ Forks(<<>>) = {}
    BY NoCalls
<1>4. PICK z \in Seq(Frame) : z = stack[t]
    BY <1>2 DEF TypeOK
<1>5. \A i \in 1 .. Len(z) : z[i].pc \in {"try", "initialize"} /\ z[i] \in Frame
  <2>1. CASE z = <<>>
    BY <2>1, EmptySeq
  <2>2. CASE z # <<>>
    <3>1. PICK s \in Seq(Frame), f \in Frame : z = Append(s, f) /\ Top(t) = f
      BY <1>2, <1>4, <2>2, TopSplit
    <3>2. stack[t] = Append(s, f)
      BY <1>4, <3>1
    <3>3. \A i \in 1 .. Len(s) : s[i].pc \in {"try", "initialize"} /\ s[i] \in Frame
      BY <1>1, <3>2, Beneath
    <3>4. /\ \A i \in 1 .. Len(s) : z[i] = s[i]
          /\ z[Len(s) + 1] = f
          /\ \A i \in 1 .. Len(z) : i \in 1 .. Len(s) \/ i = Len(s) + 1
      BY <3>1, Push
    <3>. QED
      BY <1>1, <1>4, <2>2, <3>1, <3>3, <3>4
  <2>. QED
    BY <2>1, <2>2
<1>6. \A u \in Thread : /\ stack'[u] = IF u = t THEN z ELSE <<>>
                        /\ lists'[u] = IF u = t THEN lists[t] ELSE {}
    BY <1>1, <1>4
<1>7. \A u \in Thread : /\ Running(u)' = IF u = t THEN Running(t) ELSE {}
                        /\ Forking(u)' = IF u = t THEN Forking(t) ELSE {}
    BY <1>3, <1>4, <1>6 DEF Running, Forking
<1>8. StackInv'
  <2>1. StackOK(z)
    BY <1>2, <1>4 DEF StackInv
  <2>2. ASSUME NEW f \in Frame, f.pc \in {"try", "initialize"}, FrameOK(f)
        PROVE  FrameOK(f)'
    BY <1>1, <2>2 DEF FrameOK
  <2>3. StackOK(z)'
    BY <1>5, <2>1, <2>2 DEF StackOK
  <2>4. StackOK(<<>>)'
    BY <1>3, EmptySeq DEF StackOK
  <2>. SUFFICES ASSUME NEW u \in Thread PROVE StackOK(stack[u])'
    BY DEF StackInv
  <2>5. CASE u = t
    BY <1>6, <2>3, <2>5 DEF StackOK
  <2>6. CASE u # t
    BY <1>6, <2>4, <2>6 DEF StackOK
  <2>. QED
    BY <2>5, <2>6
<1>9. OrderInv'
    BY <1>2, <1>3, <1>4, <1>6 DEF OrderInv
<1>10. SubtreeInv' /\ Contiguous'
    BY <1>1, <1>2 DEF SubtreeInv, Contiguous
<1>11. \A u \in Thread : stack'[u] # <<>> => u = t /\ Top(u)' = Top(t) /\ Top(t).pc = "initialize"
    BY <1>1, <1>4, <1>6 DEF Top
<1>12. ReadyInv'
    BY <1>11 DEF ReadyInv
<1>13. ListInv'
  <2>. SUFFICES ASSUME NEW u \in Thread
                PROVE  /\ \A c \in lists'[u] : flag[c] # "none"
                       /\ Running(u)' \union Forking(u)' \subseteq lists'[u]
                       /\ lists'[u] \subseteq Running(u)' \union Forking(u)' \union pending
                       /\ Running(u)' \intersect (Forking(u)' \union pending) = {}
                       /\ \A c \in Running(u)' \ Trivial : flag[c] = "initializing"
                       /\ \A v \in Thread : Running(u)' # {} /\ Running(v)' # {} => u = v
    BY <1>1 DEF ListInv
  <2>1. \A v \in Thread : Running(u)' # {} /\ Running(v)' # {} => u = v
    BY <1>7
  <2>2. CASE u = t
    BY <1>2, <1>6, <1>7, <2>1, <2>2 DEF ListInv
  <2>3. CASE u # t
    BY <1>6, <1>7, <2>1, <2>3
  <2>. QED
    BY <2>2, <2>3
<1>14. BelowInv'
    BY <1>1, <1>2, <1>6, <1>7 DEF BelowInv
<1>15. PendingInv'
  <2>. SUFFICES ASSUME NEW c \in pending
                PROVE  flag[c] = "initializing" /\ \E d \in Class : WaitsFor(c, d)'
    BY <1>1 DEF PendingInv
  <2>1. PICK d \in Class : WaitsFor(c, d)
    BY <1>2 DEF PendingInv
  <2>2. \A u \in Thread : c \in lists'[u] => d \in Running(u)'
    BY <1>6, <1>7, <2>1 DEF WaitsFor
  <2>3. WaitsFor(c, d)'
    BY <1>1, <2>1, <2>2 DEF WaitsFor
  <2>. QED
    BY <1>2, <2>3 DEF PendingInv
<1>16. CallbackInv'
  <2>1. \A u \in Thread, f \in Callback, c \in Class : ~Owing(u, f, c)'
    BY <1>11 DEF Owing
  <2>. QED
    BY <1>1, <1>2, <2>1 DEF CallbackInv
<1>17. TypeOK' /\ FatalInv'
  <2>1. stack' \in [Thread -> Seq(Frame)] /\ lists' \in [Thread -> SUBSET Class]
    BY <1>1, <1>2, <1>3, <1>4 DEF TypeOK
  <2>. QED
    BY <1>1, <1>2, <2>1 DEF TypeOK, FatalInv
<1>. QED
    BY <1>8, <1>9, <1>10, <1>12, <1>13, <1>14, <1>15, <1>16, <1>17 DEF IInv, GoInv

\* Nothing has been entered, and nobody runs.
LEMMA InvInit == Init => IInv
<1>. SUFFICES ASSUME Init PROVE IInv
    OBVIOUS
<1>1. /\ \A c \in Class : flag[c] = "none"
      /\ \A t \in Thread : stack[t] = <<>> /\ lists[t] = {}
      /\ pending = {} /\ funcs = {} /\ forked = FALSE /\ fatal = "no"
      /\ \A f \in Callback, c \in Class : calls[f][c] = 0
    BY DEF Init
<1>2. /\ <<>> \in Seq(Frame) /\ StackOK(<<>>) /\ OrderOK(<<>>)
      /\ Entered(<<>>) = {} /\ Forks(<<>>) = {}
    BY NoCalls
<1>3. \A t \in Thread : Running(t) = {} /\ Forking(t) = {}
    BY <1>1, <1>2 DEF Running, Forking
<1>4. TypeOK
  <2>1. calls \in [Callback -> [Class -> 0 .. 1]]
    BY DEF Init
  <2>2. stack \in [Thread -> Seq(Frame)]
    BY <1>2 DEF Init
  <2>3. /\ flag \in [Class -> {"none", "initializing", "initialized"}]
        /\ lists \in [Thread -> SUBSET Class]
        /\ pending \subseteq Class /\ funcs \subseteq Callback
        /\ forked \in BOOLEAN /\ fatal \in {"no", "buggy", "fork"}
    BY DEF Init
  <2>. QED
    BY <2>1, <2>2, <2>3 DEF TypeOK
<1>5. FatalInv /\ SubtreeInv /\ Contiguous
    BY <1>1 DEF FatalInv, SubtreeInv, Contiguous
<1>6. StackInv /\ OrderInv
    BY <1>1, <1>2 DEF StackInv, OrderInv
<1>7. CallbackInv
    BY <1>1 DEF CallbackInv, Owing
<1>8. ReadyInv
    BY <1>1 DEF ReadyInv
<1>9. ListInv /\ BelowInv /\ PendingInv
    BY <1>1, <1>3 DEF ListInv, BelowInv, PendingInv
<1>. QED
    BY <1>4, <1>5, <1>6, <1>7, <1>8, <1>9 DEF IInv, GoInv

\* No step breaks the invariant.
LEMMA InvNext == ASSUME IInv, [Next]_vars PROVE IInv'
<1>1. ASSUME NEW t \in Thread, NEW c \in Class, Message(t, c) PROVE IInv'
    BY <1>1, MessageStep
<1>2. ASSUME NEW t \in Thread, NEW f \in Callback, AddWillInitializeClassFunc(t, f) PROVE IInv'
    BY <1>2, AddWillInitializeClassFuncStep
<1>3. ASSUME NEW t \in Thread, Fork(t) PROVE IInv'
    BY <1>3, ForkStep
<1>4. ASSUME NEW t \in Thread, Send(t) PROVE IInv'
    BY <1>4, SendStep
<1>5. ASSUME NEW t \in Thread, InitializeSuper(t) PROVE IInv'
    BY <1>5, InitializeSuperStep
<1>6. ASSUME NEW t \in Thread, SetInitializing(t) PROVE IInv'
    BY <1>6, SetInitializingStep
<1>7. ASSUME NEW t \in Thread, CallBack(t) PROVE IInv'
    BY <1>7, CallBackStep
<1>8. ASSUME NEW t \in Thread, EndInitialize(t) PROVE IInv'
    BY <1>8, EndInitializeStep
<1>9. ASSUME NEW t \in Thread, EndInitializeInForkChild(t) PROVE IInv'
    BY <1>9, EndInitializeInForkChildStep
<1>10. ASSUME NEW t \in Thread, IsInitializing(t) PROVE IInv'
    BY <1>10, IsInitializingStep
<1>11. ASSUME NEW t \in Thread, IsInitialized(t) PROVE IInv'
    BY <1>11, IsInitializedStep
<1>12. ASSUME NEW t \in Thread, WaitForInitializeToComplete(t) PROVE IInv'
    BY <1>12, WaitStep
<1>13. ASSUME NEW t \in Thread, CallAdded(t) PROVE IInv'
    BY <1>13, CallAddedStep
<1>14. CASE UNCHANGED vars
  <2>1. UNCHANGED <<flag, lists, pending, funcs, stack, forked, fatal, calls>>
    BY <1>14 DEF vars
  <2>2. TypeOK' /\ FatalInv' /\ SubtreeInv' /\ Contiguous'
    BY <2>1 DEF IInv, TypeOK, FatalInv, SubtreeInv, Contiguous
  <2>3. \A t \in Thread : StackOK(stack[t])' <=> StackOK(stack[t])
    BY <2>1 DEF StackOK, FrameOK
  <2>4. StackInv'
    BY <2>3 DEF IInv, StackInv
  <2>5. CallbackInv'
    BY <2>1 DEF IInv, CallbackInv, Owing, Top
  <2>6. ASSUME fatal' = "no" PROVE GoInv'
    <3>1. GoInv
      BY <2>1, <2>6 DEF IInv
    <3>2. ReadyInv'
      BY <2>1, <3>1 DEF GoInv, ReadyInv, Ready, Top
    <3>3. \A t \in Thread : Running(t)' = Running(t) /\ Forking(t)' = Forking(t)
      BY <2>1 DEF Running, Forking
    <3>4. ListInv'
      BY <2>1, <3>1, <3>3 DEF GoInv, ListInv
    <3>5. BelowInv'
      BY <2>1, <3>1, <3>3 DEF GoInv, BelowInv
    <3>6. OrderInv'
      BY <2>1, <3>1 DEF GoInv, OrderInv
    <3>7. PendingInv'
      BY <2>1, <3>1, <3>3 DEF GoInv, PendingInv, WaitsFor
    <3>. QED
      BY <3>2, <3>4, <3>5, <3>6, <3>7 DEF GoInv
  <2>. QED
    BY <2>2, <2>4, <2>5, <2>6 DEF IInv
<1>. QED
    BY <1>1, <1>2, <1>3, <1>4, <1>5, <1>6, <1>7, <1>8, <1>9, <1>10, <1>11, <1>12, <1>13, <1>14
    DEF Next, Client, Step

\* The inductive invariant holds.
THEOREM Invariance == Spec => []IInv
BY InvInit, InvNext, PTL DEF Spec

-----------------------------------------------------------------------------
(* The properties *)

\* Every variable has its type, no callback was called twice for a class, and the
\* stacks are of calls of initializeNonMetaClass.
THEOREM TypeCorrect == Spec => []TypeOK
<1>1. IInv => TypeOK
    BY DEF IInv
<1>. QED
    BY <1>1, Invariance, PTL

\* "The initializing+initialized part of the class hierarchy will be a contiguous
\* subtree starting at the root", and belongs to one thread.
THEOREM SubtreeContiguous == Spec => []Contiguous
<1>1. IInv => Contiguous
    BY DEF IInv
<1>. QED
    BY <1>1, Invariance, PTL

\* None of the fatal errors of the class initialization is reached.
THEOREM NeverBuggyHolds == Spec => []NeverBuggy
<1>1. IInv => NeverBuggy
    BY DEF IInv, FatalInv, NeverBuggy
<1>. QED
    BY <1>1, Invariance, PTL

\* A class whose +initialize runs is not owed a callback but by the thread that
\* registers it.
LEMMA InvCallbackOnce == IInv => CallbackOnce
<1>. SUFFICES ASSUME IInv, NEW t \in Thread, NEW i \in 1 .. Len(stack[t]),
                     stack[t][i].pc = "initialize", NEW h \in funcs, ~forked
              PROVE  \/ calls[h][stack[t][i].cls] = 1
                     \/ \E u \in Thread : /\ stack[u] # <<>> /\ Top(u).pc = "add"
                                          /\ h \in Top(u).funcs /\ stack[t][i].cls \in Top(u).todo
    BY DEF CallbackOnce
<1>1. /\ fatal = "no" /\ TypeOK /\ ListInv /\ StackInv /\ OrderInv /\ CallbackInv
    BY DEF IInv, GoInv, FatalInv, TypeOK
<1>2. PICK c : c = stack[t][i].cls
    OBVIOUS
<1>3. FrameOK(stack[t][i])
    BY <1>1 DEF StackInv, StackOK
<1>4. c \in Class /\ flag[c] # "none" /\ h \in Callback
    BY <1>1, <1>2, <1>3 DEF FrameOK, TypeOK
<1>5. c \in Running(t) /\ Active(stack[t][i])
    BY <1>2 DEF Running, Entered, Active
<1>6. c \in lists[t]
    BY <1>1, <1>5 DEF ListInv
<1>7. ASSUME NEW u \in Thread, stack[u] # <<>>, Top(u).pc = "callbacks", c = Top(u).cls
      PROVE  FALSE
  <2>1. PICK s \in Seq(Frame), f \in Frame : stack[u] = Append(s, f) /\ Top(u) = f
    BY <1>1, <1>7, TopSplit
  <2>2. Active(f) /\ f.cls = c /\ f.pc = "callbacks"
    BY <1>7, <2>1 DEF Active
  <2>3. c \in Running(u)
    BY <2>1, <2>2, EnteredPush DEF Running
  <2>4. u = t
    BY <1>1, <1>6, <2>3, OneOwner DEF ListInv
  <2>5. /\ \A j \in 1 .. Len(s) : stack[t][j] = s[j]
        /\ stack[t][Len(s) + 1] = f
        /\ i \in 1 .. Len(s) \/ i = Len(s) + 1
    BY <2>1, <2>4, Push
  <2>6. i \in 1 .. Len(s) /\ s[i] = stack[t][i]
    BY <2>2, <2>5
  <2>7. Inside(s[i], f)
    BY <1>1, <2>1, <2>6, Beneath
  <2>. QED
    BY <1>2, <1>5, <2>2, <2>6, <2>7 DEF Inside
<1>8. calls[h][c] = 1 \/ \E u \in Thread : Owing(u, h, c)
    BY <1>1, <1>4 DEF CallbackInv
<1>9. ASSUME NEW u \in Thread, Owing(u, h, c)
      PROVE  stack[u] # <<>> /\ Top(u).pc = "add" /\ h \in Top(u).funcs /\ c \in Top(u).todo
    BY <1>7, <1>9 DEF Owing
<1>. QED
    BY <1>2, <1>8, <1>9

\* Where +initialize runs, the callbacks have been called, once, or the thread that
\* registers them is about to.
THEOREM CallbacksOnce == Spec => []CallbackOnce
BY InvCallbackOnce, Invariance, PTL

\* What a thread that returns may rely on.
Returned(t) ==
    \/ Top(t).pc = "add"
    \/ flag'[Top(t).cls] = "initialized"
    \/ Top(t).cls \in lists'[t]

\* A stack that a call is put on.
LEMMA Longer ==
    ASSUME TypeOK, NEW t \in Thread, stack[t] # <<>>
    PROVE  /\ \A g : Len(Append(Caller(t), g)) = Len(stack[t])
           /\ \A g, h : Len(Append(Append(Caller(t), g), h)) = Len(stack[t]) + 1
           /\ Len(stack[t]) \in Nat
<1>1. PICK s \in Seq(Frame), f \in Frame : stack[t] = Append(s, f) /\ Caller(t) = s
    BY TopSplit
<1>2. Len(stack[t]) = Len(s) + 1 /\ Len(s) \in Nat
    BY <1>1, Push
<1>3. ASSUME NEW g, NEW h
      PROVE  Len(Append(s, g)) = Len(s) + 1 /\ Len(Append(Append(s, g), h)) = Len(s) + 2
  <2>1. PICK S : S = Frame \union {g, h}
    OBVIOUS
  <2>2. s \in Seq(S) /\ g \in S /\ h \in S
    <3>1. s \in [1 .. Len(s) -> S]
      BY <2>1, LenProperties
    <3>. QED
      BY <1>2, <2>1, <3>1
  <2>3. Append(s, g) \in Seq(S) /\ Len(Append(s, g)) = Len(s) + 1
    BY <2>2, AppendProperties
  <2>4. Len(Append(Append(s, g), h)) = Len(Append(s, g)) + 1
    BY <2>2, <2>3, AppendProperties
  <2>. QED
    BY <1>2, <2>3, <2>4
<1>. QED
    BY <1>1, <1>2, <1>3

\* The steps that return leave the class done, or on the list.
LEMMA ReturnsWhenDone ==
    ASSUME IInv, [Next]_vars, NEW t \in Thread, Len(stack'[t]) < Len(stack[t]),
           ~(forked' /\ ~forked), fatal' = "no"
    PROVE  Returned(t)
<1>1. TypeOK /\ \A u \in Thread : stack[u] # <<>> => stack[u] \in Seq(Frame)
    BY DEF IInv, TypeOK
<1>2. stack' # stack /\ stack'[t] # stack[t] /\ stack[t] # <<>> /\ Len(stack[t]) \in Nat
  <2>1. stack[t] \in Seq(Frame) /\ Len(stack[t]) \in Nat
    BY <1>1, LenProperties DEF TypeOK
  <2>. QED
    BY <2>1
<1>3. /\ \A g : Len(Append(Caller(t), g)) = Len(stack[t])
      /\ \A g, h : Len(Append(Append(Caller(t), g), h)) = Len(stack[t]) + 1
    BY <1>1, <1>2, Longer
<1>4. \A q : stack' = [stack EXCEPT ![t] = q] => stack'[t] = q
    BY <1>1 DEF TypeOK
<1>5. \A label : ~Goto(t, label)
  <2>. SUFFICES ASSUME NEW label, Goto(t, label) PROVE FALSE
    OBVIOUS
  <2>1. stack' = [stack EXCEPT ![t] = Append(Caller(t), [Top(t) EXCEPT !.pc = label])]
    BY <1>1, <1>2, GotoStep
  <2>. QED
    BY <1>2, <1>3, <1>4, <2>1
<1>6. ~Send(t)
  <2>. SUFFICES ASSUME Send(t) PROVE FALSE
    OBVIOUS
  <2>1. PICK c, g : stack' = [stack EXCEPT ![t] =
                                IF flag[c] = "initialized" THEN Append(Caller(t), g)
                                ELSE Append(Append(Caller(t), g), Call(c))]
    BY DEF Send
  <2>. QED
    BY <1>2, <1>3, <1>4, <2>1
<1>7. ~InitializeSuper(t)
  <2>. SUFFICES ASSUME InitializeSuper(t) PROVE FALSE
    OBVIOUS
  <2>1. PICK c, g : stack' = [stack EXCEPT ![t] =
                                IF SuperUninitialized(c)
                                THEN Append(Append(Caller(t), g), Call(Super[c]))
                                ELSE Append(Caller(t), g)]
    BY DEF InitializeSuper
  <2>. QED
    BY <1>2, <1>3, <1>4, <2>1
<1>8. ~SetInitializing(t)
  <2>. SUFFICES ASSUME SetInitializing(t) PROVE FALSE
    OBVIOUS
  <2>1. PICK g : stack' = [stack EXCEPT ![t] = [stack[t] EXCEPT ![Len(stack[t])] = g]]
    BY <1>1, <1>5 DEF SetInitializing, TypeOK
  <2>2. [stack[t] EXCEPT ![Len(stack[t])] = g] = Append(Caller(t), g)
    BY <1>1, <1>2, TopSplit
  <2>. QED
    BY <1>2, <1>3, <1>4, <2>1, <2>2
<1>9. ~CallBack(t)
  <2>. SUFFICES ASSUME CallBack(t) PROVE FALSE
    OBVIOUS
  <2>1. PICK s \in Seq(Frame), f \in Frame :
            Caller(t) = s /\ Top(t) = f /\ f.pc = "callbacks" /\ FrameOK(f)
    BY Runner DEF CallBack
  <2>2. PICK g, h : /\ stack' = [stack EXCEPT ![t] = s \o <<g, h>>] /\ g \in Frame /\ h \in Frame
    <3>. DEFINE g == [f EXCEPT !.pc = "initialize", !.funcs = {}, !.todo = Messages[f.cls]]
                h == Call(f.cls)
    <3>1. f.cls \in Class /\ Messages[f.cls] \in SUBSET Class
      BY <2>1, InitializeAssumption DEF FrameOK
    <3>2. g \in Frame /\ h \in Frame
      BY <3>1, CallFields DEF Frame
    <3>. QED
      BY <2>1, <3>2 DEF CallBack, CallInitialize
  <2>3. s \o <<g, h>> = Append(Append(s, g), h)
    BY <2>2
  <2>. QED
    BY <1>2, <1>3, <1>4, <2>1, <2>2, <2>3
<1>10. ASSUME NEW label \in {"initialize", "fork"}, Runs(t, label),
              LockAndFinishInitializing(t, Top(t).cls)
       PROVE  Returned(t)
  <2>. DEFINE e == Top(t).cls
  <2>1. e \in Class /\ e \in lists[t]
    <3>1. PICK s \in Seq(Frame), f \in Frame :
              stack[t] = Append(s, f) /\ Top(t) = f /\ f.pc = label /\ fatal = "no"
      BY <1>10, Runner
    <3>2. f.pc \in {"initialize", "fork"}
      BY <3>1
    <3>3. PICK x : x = f.cls
      OBVIOUS
    <3>4. x \in Class /\ x \in lists[t]
      BY <3>1, <3>2, <3>3, Ending
    <3>. QED
      BY <3>1, <3>3, <3>4
  <2>2. CASE UNCHANGED lists
    BY <2>1, <2>2 DEF Returned
  <2>3. CASE flag' = [d \in Class |-> IF d \in {e} \union Waiting(e) THEN "initialized" ELSE flag[d]]
    BY <2>1, <2>3 DEF Returned
  <2>. QED
    BY <1>10, <2>2, <2>3 DEF LockAndFinishInitializing
<1>11. EndInitialize(t) => Returned(t)
    BY <1>10 DEF EndInitialize
<1>12. EndInitializeInForkChild(t) => Returned(t)
    BY <1>10 DEF EndInitializeInForkChild, PerformForkChildInitialize
<1>13. IsInitializing(t) => Returned(t)
    BY <1>5 DEF IsInitializing, Returned
<1>14. IsInitialized(t) => Returned(t)
    BY DEF IsInitialized, Returned
<1>15. WaitForInitializeToComplete(t) => Returned(t)
    BY DEF WaitForInitializeToComplete, Returned
<1>16. CallAdded(t) => Returned(t)
    BY DEF CallAdded, Runs, Returned
<1>17. PICK v \in Thread : Client(v) \/ Step(v)
    BY <1>2 DEF Next, vars
<1>18. ~Client(v)
  <2>1. ASSUME NEW c, Message(v, c) PROVE FALSE
    BY <1>1, <1>2, <2>1 DEF Message, TypeOK
  <2>2. ASSUME NEW f, AddWillInitializeClassFunc(v, f) PROVE FALSE
    BY <1>1, <1>2, <2>2 DEF AddWillInitializeClassFunc, TypeOK
  <2>3. ~Fork(v)
    BY DEF Fork
  <2>. QED
    BY <2>1, <2>2, <2>3 DEF Client
<1>19. v = t
  <2>1. \E q : stack' = [stack EXCEPT ![v] = q]
    <3>1. \A label : Goto(v, label) => \E q : stack' = [stack EXCEPT ![v] = q]
      BY <1>1 DEF Goto, TypeOK
    <3>2. SetInitializing(v) => \E q : stack' = [stack EXCEPT ![v] = q]
      BY <1>1, <3>1 DEF SetInitializing, TypeOK
    <3>3. IsInitializing(v) => \E q : stack' = [stack EXCEPT ![v] = q]
      BY <3>1 DEF IsInitializing, Return
    <3>4. Send(v) \/ InitializeSuper(v) \/ CallBack(v) => \E q : stack' = [stack EXCEPT ![v] = q]
      BY DEF Send, InitializeSuper, CallBack, CallInitialize
    <3>5. EndInitialize(v) \/ EndInitializeInForkChild(v) \/ IsInitialized(v)
          \/ WaitForInitializeToComplete(v) \/ CallAdded(v)
          => \E q : stack' = [stack EXCEPT ![v] = q]
      BY DEF EndInitialize, EndInitializeInForkChild, IsInitialized, WaitForInitializeToComplete,
             CallAdded, Return
    <3>. QED
      BY <1>17, <1>18, <3>2, <3>3, <3>4, <3>5 DEF Step
  <2>. QED
    BY <1>1, <1>2, <2>1 DEF TypeOK
<1>. QED
    BY <1>6, <1>7, <1>8, <1>9, <1>11, <1>12, <1>13, <1>14, <1>15, <1>16, <1>17, <1>18, <1>19
    DEF Step

\* "This thread will be allowed to send messages to the class, but other threads will
\* have to wait": a call returns when the class is initialized, or is being
\* initialized by its thread.
THEOREM OthersDoWait == Spec => OthersWait
<1>1. IInv /\ [Next]_vars =>
          \A t \in Thread :
              Len(stack'[t]) < Len(stack[t]) /\ ~(forked' /\ ~forked) /\ fatal' = "no" =>
                  \/ Top(t).pc = "add"
                  \/ flag'[Top(t).cls] = "initialized"
                  \/ Top(t).cls \in lists'[t]
    BY ReturnsWhenDone DEF Returned
<1>. QED
    BY <1>1, Invariance, PTL DEF Spec, OthersWait
=============================================================================
