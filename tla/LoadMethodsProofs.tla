--------------------------- MODULE LoadMethodsProofs ---------------------------
(***************************************************************************)
(* Safety of LoadMethods.tla for any images, classes and categories: the   *)
(* inductive invariant IInv, a lemma for every action that says it         *)
(* preserves IInv, and the theorems that follow.                           *)
(* RW_LOADED is closed under superclasses (LoadedInv), so a class that is  *)
(* new is above none that is in a list: what is added last can wait        *)
(* (OrderInv).  What was scheduled is in one list or was called (CallsInv);*)
(* so what has to come before, and is in no list any more, has returned.   *)
(***************************************************************************)
EXTENDS LoadMethods, SequenceTheorems, TLAPS

-----------------------------------------------------------------------------
(* The inductive invariant *)

\* What has been put in the lists since its image came in: the loaded classes, and
\* the categories of the images that are in, but for those still to be scheduled.
Scheduled ==
    Loads \intersect
        (RW_LOADED \union
         {k \in Category : /\ cls[k] # Nil /\ k \notin Range(todo)
                           /\ \E i \in images : k \in catlist[i]})

\* What is in the lists.
Loadable == Range(loadable_classes) \union Range(loadable_categories)

\* A loop is running while there is anything to do.
PhaseInv ==
    /\ phase \in {"idle", "loop"} => detached = <<>> /\ current = Nil
    /\ phase = "idle" => loadable_classes = <<>> /\ loadable_categories = <<>> /\ todo = <<>>
    /\ todo # <<>> => phase = "loop" \/ current # Nil
    /\ phase = "classes" => Range(detached) \union {current} \subseteq Class \union {Nil}
    /\ phase = "categories" => Range(detached) \union {current} \subseteq Category \union {Nil}

\* The categories to be scheduled are of an image that is in.
TodoInv ==
    /\ \A m, n \in DOMAIN todo : todo[m] = todo[n] /\ todo[m] \in Category => m = n
    /\ \A k \in Range(todo) \intersect Category : k \in Loads /\ \E i \in images : k \in catlist[i]

\* A loaded class has loaded superclasses; the classes of the images that are in are
\* loaded, or about to be; so is, with a category, the image of its class.
LoadedInv ==
    /\ \A c \in RW_LOADED : superclass[c] \in RW_LOADED \union {Nil}
    /\ \A i \in images : clslist[i] \intersect Loads \subseteq RW_LOADED \union Range(todo)
    /\ \A i \in images : \A k \in catlist[i] :
           cls[k] # Nil => \E j \in images : cls[k] \in clslist[j]

\* An item is in the lists, once, only if it was scheduled.
ListInv == Loadable \ {Nil} \subseteq Scheduled

\* What was scheduled is in one list or was sent +load.
CallsInv ==
    /\ Range(detached) \intersect Loadable \subseteq {Nil}
    /\ \A x \in Item :
           IF calls[x] = 0
           THEN current # x /\ (x \in Scheduled => x \in Range(detached) \union Loadable)
           ELSE calls[x] = 1 /\ x \in Scheduled /\ x \notin Range(detached) \union Loadable
    /\ Range(detached) \ {Nil} \subseteq Scheduled

\* In a list, no superclass of a class comes after it.
Sorted(list) ==
    \A m, n \in DOMAIN list : m < n /\ list[m] \in Class => list[n] \notin Ancestors[list[m]]

\* What has to be called first is not still to come.
OrderInv ==
    /\ Sorted(loadable_classes) /\ Sorted(detached)
    /\ \A c \in Class \intersect (Range(detached) \union {current}) :
           Ancestors[c] \intersect Range(loadable_classes) = {}
    /\ current \in Class => Ancestors[current] \intersect Range(detached) = {}
    /\ \A k \in Category \intersect (Range(detached) \union {current}) :
           cls[k] \in Loads => calls[cls[k]] = 1

\* All of it.
IInv ==
    /\ TypeOK /\ PhaseInv /\ TodoInv /\ LoadedInv /\ ListInv
    /\ Careful => CallsInv /\ OrderInv

-----------------------------------------------------------------------------
(* Lists *)

\* The elements of a list.
LEMMA ListRange ==
    ASSUME NEW T, NEW s \in Seq(T)
    PROVE  /\ Len(s) \in Nat /\ DOMAIN s = 1 .. Len(s) /\ Range(s) \subseteq T
           /\ \A m \in DOMAIN s : s[m] \in T /\ s[m] \in Range(s)
           /\ \A x \in Range(s) : \E m \in DOMAIN s : s[m] = x
           /\ s = <<>> <=> Len(s) = 0
           /\ s = <<>> => Range(s) = {}
BY LenProperties, EmptySeq, ElementOfSeq DEF Range

\* The first element leaves a list.
LEMMA TailRange ==
    ASSUME NEW T, NEW s \in Seq(T), s # <<>>
    PROVE  /\ Tail(s) \in Seq(T) /\ Head(s) \in T
           /\ DOMAIN Tail(s) = 1 .. Len(s) - 1 /\ Len(s) \in Nat
           /\ \A m \in 1 .. Len(s) - 1 : Tail(s)[m] = s[m + 1]
           /\ Range(s) = {Head(s)} \union Range(Tail(s))
<1>1. /\ Tail(s) \in Seq(T) /\ Head(s) = s[1] /\ Len(s) \in Nat \ {0} /\ DOMAIN s = 1 .. Len(s)
      /\ Len(Tail(s)) = Len(s) - 1 /\ \A m \in 1 .. Len(s) - 1 : Tail(s)[m] = s[m + 1]
    BY HeadTailProperties, LenProperties, EmptySeq
<1>2. DOMAIN Tail(s) = 1 .. Len(s) - 1
    BY <1>1, LenProperties
<1>3. s[1] \in T
    BY <1>1, ElementOfSeq
<1>4. \A x \in Range(s) : x = s[1] \/ x \in Range(Tail(s))
  <2>. SUFFICES ASSUME NEW m \in 1 .. Len(s), m # 1 PROVE s[m] \in Range(Tail(s))
    BY <1>1 DEF Range
  <2>1. m - 1 \in 1 .. Len(s) - 1 /\ (m - 1) + 1 = m
    BY <1>1
  <2>2. Tail(s)[m - 1] = s[m]
    BY <1>1, <2>1
  <2>. QED
    BY <1>2, <2>1, <2>2 DEF Range
<1>5. \A x \in Range(Tail(s)) : x \in Range(s)
    BY <1>1, <1>2 DEF Range
<1>6. s[1] \in Range(s)
    BY <1>1 DEF Range
<1>. QED
    BY <1>1, <1>2, <1>3, <1>4, <1>5, <1>6

\* An element is added to a list.
LEMMA AppendRange ==
    ASSUME NEW T, NEW s \in Seq(T), NEW e \in T
    PROVE  /\ Append(s, e) \in Seq(T) /\ Len(s) \in Nat /\ DOMAIN s = 1 .. Len(s)
           /\ DOMAIN Append(s, e) = 1 .. Len(s) + 1
           /\ Append(s, e)[Len(s) + 1] = e
           /\ \A m \in 1 .. Len(s) : Append(s, e)[m] = s[m]
           /\ Range(Append(s, e)) = Range(s) \union {e}
<1>1. /\ Append(s, e) \in Seq(T) /\ Len(s) \in Nat /\ DOMAIN s = 1 .. Len(s)
      /\ DOMAIN Append(s, e) = 1 .. Len(s) + 1 /\ Append(s, e)[Len(s) + 1] = e
      /\ \A m \in 1 .. Len(s) : Append(s, e)[m] = s[m]
    BY AppendProperties, LenProperties
<1>. QED
    BY <1>1 DEF Range

\* One list follows another.
LEMMA ConcatRange ==
    ASSUME NEW T, NEW s \in Seq(T), NEW u \in Seq(T)
    PROVE  /\ s \o u \in Seq(T) /\ Len(s) \in Nat /\ Len(u) \in Nat
           /\ DOMAIN s = 1 .. Len(s) /\ DOMAIN u = 1 .. Len(u)
           /\ DOMAIN (s \o u) = 1 .. Len(s) + Len(u)
           /\ \A m \in 1 .. Len(s) : (s \o u)[m] = s[m]
           /\ \A m \in 1 .. Len(u) : (s \o u)[Len(s) + m] = u[m]
           /\ \A m \in 1 .. Len(s) + Len(u) : m > Len(s) => (s \o u)[m] = u[m - Len(s)]
           /\ Range(s \o u) = Range(s) \union Range(u)
<1>1. /\ s \o u \in Seq(T) /\ Len(s) \in Nat /\ Len(u) \in Nat
      /\ DOMAIN s = 1 .. Len(s) /\ DOMAIN u = 1 .. Len(u)
      /\ Len(s \o u) = Len(s) + Len(u)
      /\ \A m \in 1 .. Len(s) + Len(u) : (s \o u)[m] = IF m <= Len(s) THEN s[m] ELSE u[m - Len(s)]
    BY ConcatProperties, LenProperties
<1>2. DOMAIN (s \o u) = 1 .. Len(s) + Len(u)
    BY <1>1, LenProperties
<1>3. \A m \in 1 .. Len(u) : Len(s) + m \in 1 .. Len(s) + Len(u) /\ (s \o u)[Len(s) + m] = u[m]
    BY <1>1
<1>4. \A m \in 1 .. Len(s) : m \in 1 .. Len(s) + Len(u) /\ (s \o u)[m] = s[m]
    BY <1>1
<1>5. \A m \in 1 .. Len(s) + Len(u) : m > Len(s) => m - Len(s) \in 1 .. Len(u) /\ (s \o u)[m] = u[m - Len(s)]
    BY <1>1
<1>6. \A m \in 1 .. Len(s) + Len(u) : ~(m > Len(s)) => m \in 1 .. Len(s)
    BY <1>1
<1>7. Range(s \o u) \subseteq Range(s) \union Range(u)
  <2>. SUFFICES ASSUME NEW m \in 1 .. Len(s) + Len(u)
                PROVE  (s \o u)[m] \in Range(s) \union Range(u)
    BY <1>2 DEF Range
  <2>1. CASE m > Len(s)
    BY <1>1, <1>5, <2>1 DEF Range
  <2>2. CASE ~(m > Len(s))
    BY <1>1, <1>4, <1>6, <2>2 DEF Range
  <2>. QED
    BY <2>1, <2>2
<1>8. Range(s) \subseteq Range(s \o u)
    BY <1>1, <1>2, <1>4 DEF Range
<1>9. Range(u) \subseteq Range(s \o u)
  <2>. SUFFICES ASSUME NEW m \in 1 .. Len(u) PROVE u[m] \in Range(s \o u)
    BY <1>1 DEF Range
  <2>1. Len(s) + m \in DOMAIN (s \o u) /\ (s \o u)[Len(s) + m] = u[m]
    BY <1>2, <1>3
  <2>. QED
    BY <2>1 DEF Range
<1>. QED
    BY <1>1, <1>2, <1>3, <1>4, <1>5, <1>7, <1>8, <1>9

\* Elements of a list become nil.
LEMMA NilOutRange ==
    ASSUME NEW T, Nil \in T, NEW s \in Seq(T), NEW X
    PROVE  /\ NilOut(s, X) \in Seq(T) /\ DOMAIN NilOut(s, X) = DOMAIN s
           /\ \A m \in DOMAIN s : NilOut(s, X)[m] = IF s[m] \in X THEN Nil ELSE s[m]
           /\ Range(NilOut(s, X)) \ {Nil} = Range(s) \ (X \union {Nil})
           /\ s = <<>> => NilOut(s, X) = <<>>
<1>1. Len(s) \in Nat /\ DOMAIN s = 1 .. Len(s) /\ \A m \in DOMAIN s : s[m] \in T
    BY ListRange
<1>2. /\ DOMAIN NilOut(s, X) = DOMAIN s
      /\ \A m \in DOMAIN s : NilOut(s, X)[m] = IF s[m] \in X THEN Nil ELSE s[m]
    BY DEF NilOut
<1>3. NilOut(s, X) \in Seq(T)
  <2>1. NilOut(s, X) = [m \in 1 .. Len(s) |-> IF s[m] \in X THEN Nil ELSE s[m]]
    BY <1>1 DEF NilOut
  <2>2. \A m \in 1 .. Len(s) : (IF s[m] \in X THEN Nil ELSE s[m]) \in T
    BY <1>1
  <2>. QED
    BY <1>1, <2>1, <2>2, IsASeq
<1>4. Range(NilOut(s, X)) \ {Nil} = Range(s) \ (X \union {Nil})
    BY <1>1, <1>2 DEF Range
<1>5. s = <<>> => NilOut(s, X) = <<>>
    BY <1>1, <1>2, <1>3, ListRange
<1>. QED
    BY <1>2, <1>3, <1>4, <1>5

\* What a list has but once, and superclasses first, stays so.
LEMMA TailOnce ==
    ASSUME NEW T, NEW s \in Seq(T), s # <<>>
    PROVE  /\ Once(s) => Once(Tail(s)) /\ (Head(s) # Nil => Head(s) \notin Range(Tail(s)))
           /\ Sorted(s) => Sorted(Tail(s)) /\ (Head(s) \in Class =>
                                                   Ancestors[Head(s)] \intersect Range(Tail(s)) = {})
<1>1. /\ DOMAIN Tail(s) = 1 .. Len(s) - 1 /\ DOMAIN s = 1 .. Len(s) /\ Len(s) \in Nat \ {0}
      /\ \A m \in 1 .. Len(s) - 1 : Tail(s)[m] = s[m + 1] /\ m + 1 \in 1 .. Len(s)
      /\ Head(s) = s[1] /\ 1 \in 1 .. Len(s)
    BY TailRange, ListRange, HeadTailProperties
<1>2. \A m, n \in 1 .. Len(s) - 1 : (m + 1 = n + 1 <=> m = n) /\ (m < n => m + 1 < n + 1)
                                    /\ 1 < m + 1 /\ 1 # m + 1
    BY <1>1
<1>3. ASSUME Once(s) PROVE Once(Tail(s)) /\ (Head(s) # Nil => Head(s) \notin Range(Tail(s)))
  <2>1. Once(Tail(s))
    BY <1>1, <1>2, <1>3 DEF Once
  <2>2. ASSUME Head(s) # Nil, NEW m \in 1 .. Len(s) - 1 PROVE Tail(s)[m] # Head(s)
    BY <1>1, <1>2, <1>3, <2>2 DEF Once
  <2>. QED
    BY <1>1, <2>1, <2>2 DEF Range
<1>4. ASSUME Sorted(s)
      PROVE  Sorted(Tail(s)) /\ (Head(s) \in Class => Ancestors[Head(s)] \intersect Range(Tail(s)) = {})
  <2>1. Sorted(Tail(s))
    BY <1>1, <1>2, <1>4 DEF Sorted
  <2>2. ASSUME Head(s) \in Class, NEW m \in 1 .. Len(s) - 1 PROVE Tail(s)[m] \notin Ancestors[Head(s)]
    BY <1>1, <1>2, <1>4, <2>2 DEF Sorted
  <2>. QED
    BY <1>1, <2>1, <2>2 DEF Range
<1>. QED
    BY <1>3, <1>4

\* So it does when something new comes last.
LEMMA AppendOnce ==
    ASSUME NEW T, NEW s \in Seq(T), NEW e \in T, e \notin Range(s)
    PROVE  /\ Once(s) => Once(Append(s, e))
           /\ Sorted(s) /\ (\A c \in Range(s) \intersect Class : e \notin Ancestors[c])
                  => Sorted(Append(s, e))
<1>1. /\ DOMAIN s = 1 .. Len(s) /\ Len(s) \in Nat /\ DOMAIN Append(s, e) = 1 .. Len(s) + 1
      /\ Append(s, e)[Len(s) + 1] = e /\ \A m \in 1 .. Len(s) : Append(s, e)[m] = s[m]
      /\ \A m \in 1 .. Len(s) : s[m] \in Range(s)
    BY AppendRange DEF Range
<1>2. \A m \in 1 .. Len(s) + 1 : m \in 1 .. Len(s) \/ m = Len(s) + 1
    BY <1>1
<1>3. Once(s) => Once(Append(s, e))
    BY <1>1, <1>2 DEF Once
<1>4. \A m \in 1 .. Len(s) + 1 : ~(Len(s) + 1 < m)
    BY <1>1
<1>5. ASSUME Sorted(s), \A c \in Range(s) \intersect Class : e \notin Ancestors[c]
      PROVE  Sorted(Append(s, e))
  <2>. SUFFICES ASSUME NEW m \in 1 .. Len(s) + 1, NEW n \in 1 .. Len(s) + 1, m < n,
                       Append(s, e)[m] \in Class
                PROVE  Append(s, e)[n] \notin Ancestors[Append(s, e)[m]]
    BY <1>1 DEF Sorted
  <2>1. m \in 1 .. Len(s)
    BY <1>2, <1>4
  <2>2. CASE n \in 1 .. Len(s)
    BY <1>1, <1>5, <2>1, <2>2 DEF Sorted
  <2>3. CASE n = Len(s) + 1
    BY <1>1, <1>5, <2>1, <2>3
  <2>. QED
    BY <1>2, <2>2, <2>3
<1>. QED
    BY <1>3, <1>5

\* And when elements become nil.
LEMMA NilOutOnce ==
    ASSUME NEW T, NEW s \in Seq(T), NEW X
    PROVE  /\ Once(s) => Once(NilOut(s, X))
           /\ Sorted(s) => Sorted(NilOut(s, X))
<1>1. /\ DOMAIN NilOut(s, X) = DOMAIN s
      /\ \A m \in DOMAIN s : NilOut(s, X)[m] = IF s[m] \in X THEN Nil ELSE s[m]
    BY DEF NilOut
<1>2. Nil \notin Class /\ \A c \in Class : Nil \notin Ancestors[c]
    BY LoadAssumption DEF Ancestors
<1>. QED
    BY <1>1, <1>2 DEF Once, Sorted

\* An empty list.
LEMMA EmptyOnce == Once(<<>>) /\ Sorted(<<>>) /\ Range(<<>>) = {}
BY DEF Once, Sorted, Range

-----------------------------------------------------------------------------
(* Classes and what was scheduled *)

\* The superclasses of a loaded class are loaded.
LEMMA AncestorsLoaded ==
    ASSUME LoadedInv, RW_LOADED \subseteq Class, NEW c \in RW_LOADED
    PROVE  Ancestors[c] \subseteq RW_LOADED
<1>. DEFINE Closed(S) == \A e \in {c} \union S : superclass[e] \in S \union {Nil}
<1>1. c \in Class /\ RW_LOADED \in SUBSET Class
    OBVIOUS
<1>2. Closed(RW_LOADED)
    BY DEF LoadedInv
<1>3. Ancestors[c] = {d \in Class : \A S \in SUBSET Class : Closed(S) => d \in S}
    BY <1>1 DEF Ancestors
<1>. HIDE DEF Closed
<1>. QED
    BY <1>1, <1>2, <1>3

\* The superclass is one of them.
LEMMA SuperIsAncestor ==
    ASSUME NEW c \in Class, superclass[c] # Nil
    PROVE  superclass[c] \in Class /\ superclass[c] \in Ancestors[c]
<1>1. superclass[c] \in Class
    BY LoadAssumption
<1>2. \A S \in SUBSET Class :
          (\A e \in {c} \union S : superclass[e] \in S \union {Nil}) => superclass[c] \in S
    OBVIOUS
<1>. QED
    BY <1>1, <1>2 DEF Ancestors

\* Classes and categories are different things, and neither is nil.
LEMMA Items ==
    /\ Nil \notin Item /\ Class \intersect Category = {} /\ Item = Class \union Category
    /\ Loads \subseteq Item
    /\ \A i \in Image : \A k \in catlist[i] :
           k \in Category /\ (k \in Loads => k \in Range(nlcatlist[i]))
    /\ \A i \in Image : \A c \in clslist[i] :
           c \in Class /\ (c \in Loads => c \in Range(nlclslist[i]))
    /\ \A i \in Image :
           Range(nlcatlist[i]) \subseteq catlist[i] /\ Range(nlclslist[i]) \subseteq clslist[i]
    /\ \A i \in Image : Range(nlcatlist[i]) \subseteq Loads
<1>1. \A i \in Image : Range(nlcatlist[i]) \subseteq catlist[i] /\ Range(nlclslist[i]) \subseteq clslist[i]
    BY LoadAssumption
<1>2. \A i \in Image : clslist[i] \subseteq Class /\ catlist[i] \subseteq Category
    BY LoadAssumption
<1>3. /\ Nil \notin Item /\ Class \intersect Category = {} /\ Item = Class \union Category
    BY LoadAssumption DEF Item
<1>4. Loads \subseteq Item /\ \A i \in Image : Range(nlcatlist[i]) \subseteq Loads
    BY <1>1, <1>2, <1>3 DEF Loads
<1>5. ASSUME NEW i \in Image, NEW k \in catlist[i], k \in Loads PROVE k \in Range(nlcatlist[i])
  <2>1. PICK j \in Image : k \in Range(nlclslist[j]) \union Range(nlcatlist[j])
    BY <1>5 DEF Loads
  <2>2. k \in catlist[j]
    BY <1>1, <1>2, <1>3, <2>1
  <2>3. i = j
    BY <2>2, LoadAssumption
  <2>. QED
    BY <1>1, <1>2, <1>3, <2>1, <2>3
<1>6. ASSUME NEW i \in Image, NEW c \in clslist[i], c \in Loads PROVE c \in Range(nlclslist[i])
  <2>1. PICK j \in Image : c \in Range(nlclslist[j]) \union Range(nlcatlist[j])
    BY <1>6 DEF Loads
  <2>2. c \in clslist[j]
    BY <1>1, <1>2, <1>3, <2>1
  <2>3. i = j
    BY <2>2, LoadAssumption
  <2>. QED
    BY <1>1, <1>2, <1>3, <2>1, <2>3
<1>. QED
    BY <1>1, <1>2, <1>3, <1>4, <1>5, <1>6

\* What the lists are.
LEMMA Lists ==
    ASSUME IInv
    PROVE  /\ loadable_classes \in Seq(Class \union {Nil}) /\ Once(loadable_classes)
           /\ loadable_categories \in Seq(Category \union {Nil}) /\ Once(loadable_categories)
           /\ todo \in Seq(Item) /\ detached \in Seq(Item \union {Nil}) /\ Once(detached)
           /\ Range(loadable_classes) \subseteq Class \union {Nil}
           /\ Range(loadable_categories) \subseteq Category \union {Nil}
           /\ Range(todo) \subseteq Item /\ Range(detached) \subseteq Item \union {Nil}
<1>1. /\ loadable_classes \in Seq(Class \union {Nil}) /\ Once(loadable_classes)
      /\ loadable_categories \in Seq(Category \union {Nil}) /\ Once(loadable_categories)
      /\ todo \in Seq(Item) /\ detached \in Seq(Item \union {Nil}) /\ Once(detached)
    BY DEF IInv, TypeOK
<1>. QED
    BY <1>1, ListRange

\* A class in the list of classes is loaded.
LEMMA ClassesLoaded ==
    ASSUME IInv
    PROVE  /\ \A c \in Class : c \in Scheduled <=> c \in RW_LOADED \intersect Loads
           /\ Range(loadable_classes) \ {Nil} \subseteq RW_LOADED
           /\ \A k \in Category : k \in Scheduled <=>
                  /\ k \in Loads /\ cls[k] # Nil /\ k \notin Range(todo)
                  /\ \E i \in images : k \in catlist[i]
<1>1. \A c \in Class : c \in Scheduled <=> c \in RW_LOADED \intersect Loads
    BY Items DEF Scheduled
<1>2. RW_LOADED \subseteq Class
    BY DEF IInv, TypeOK
<1>3. \A k \in Category : k \in Scheduled <=>
                  /\ k \in Loads /\ cls[k] # Nil /\ k \notin Range(todo)
                  /\ \E i \in images : k \in catlist[i]
    BY <1>2, Items DEF Scheduled
<1>4. Range(loadable_classes) \ {Nil} \subseteq Class \intersect Scheduled
    BY Lists DEF IInv, ListInv, Loadable
<1>. QED
    BY <1>1, <1>3, <1>4

-----------------------------------------------------------------------------
(* Scheduling *)

\* The first thing to be scheduled is.
LEMMA TodoStep ==
    ASSUME IInv, todo # <<>>, todo' = Tail(todo), UNCHANGED images
    PROVE  /\ TodoInv' /\ todo' \in Seq(Item) /\ Head(todo) \in Item
           /\ Range(todo) = {Head(todo)} \union Range(todo')
           /\ Head(todo) \in Category =>
                  /\ Head(todo) \notin Range(todo') /\ Head(todo) \in Loads
                  /\ \E i \in images : Head(todo) \in catlist[i]
<1>1. todo \in Seq(Item)
    BY Lists
<1>2. /\ todo' \in Seq(Item) /\ Head(todo) \in Item
      /\ Range(todo) = {Head(todo)} \union Range(todo')
      /\ DOMAIN todo' = 1 .. Len(todo) - 1
      /\ \A m \in 1 .. Len(todo) - 1 : todo'[m] = todo[m + 1]
    BY <1>1, TailRange
<1>3. Len(todo) \in Nat \ {0} /\ DOMAIN todo = 1 .. Len(todo) /\ Head(todo) = todo[1]
    BY <1>1, ListRange, HeadTailProperties
<1>4. \A m, n \in 1 .. Len(todo) - 1 : /\ m + 1 \in 1 .. Len(todo) /\ m + 1 # 1
                                       /\ (m + 1 = n + 1 <=> m = n)
    BY <1>3
<1>5. \A m, n \in DOMAIN todo : todo[m] = todo[n] /\ todo[m] \in Category => m = n
    BY DEF IInv, TodoInv
<1>6. \A m, n \in DOMAIN todo' : todo'[m] = todo'[n] /\ todo'[m] \in Category => m = n
    BY <1>2, <1>3, <1>4, <1>5
<1>7. Head(todo) \in Category => Head(todo) \notin Range(todo')
  <2>. SUFFICES ASSUME todo[1] \in Category, NEW m \in 1 .. Len(todo) - 1
                PROVE  todo'[m] # todo[1]
    BY <1>2, <1>3 DEF Range
  <2>1. 1 \in DOMAIN todo
    BY <1>3
  <2>. QED
    BY <1>2, <1>3, <1>4, <1>5, <2>1
<1>8. \A k \in Range(todo) \intersect Category : k \in Loads /\ \E i \in images : k \in catlist[i]
    BY DEF IInv, TodoInv
<1>9. TodoInv'
    BY <1>2, <1>6, <1>8 DEF TodoInv
<1>. QED
    BY <1>2, <1>7, <1>8, <1>9

\* Something is scheduled: it was not before, and is in the lists now.
LEMMA AddCalls ==
    ASSUME CallsInv, ListInv, NEW x \in Item, x \notin Scheduled,
           Scheduled' = Scheduled \union {x}, Loadable' = Loadable \union {x},
           UNCHANGED <<detached, current, calls>>
    PROVE  CallsInv'
<1>1. x \notin Range(detached) /\ calls[x] = 0 /\ current # x
    BY LoadAssumption DEF CallsInv, Item
<1>2. Range(detached)' \intersect Loadable' \subseteq {Nil}
    BY <1>1 DEF CallsInv
<1>3. ASSUME NEW y \in Item
      PROVE  IF calls'[y] = 0
             THEN current' # y /\ (y \in Scheduled' => y \in Range(detached)' \union Loadable')
             ELSE calls'[y] = 1 /\ y \in Scheduled' /\ y \notin Range(detached)' \union Loadable'
  <2>1. CASE y = x
    BY <1>1, <2>1
  <2>2. CASE y # x
    BY <2>2 DEF CallsInv
  <2>. QED
    BY <2>1, <2>2
<1>4. Range(detached)' \ {Nil} \subseteq Scheduled'
    BY DEF CallsInv
<1>. QED
    BY <1>2, <1>3, <1>4 DEF CallsInv

\* If nothing is scheduled and the lists stay, nothing changes.
LEMMA SameCalls ==
    ASSUME CallsInv, OrderInv, Scheduled' = Scheduled,
           UNCHANGED <<loadable_classes, loadable_categories, detached, current, calls>>
    PROVE  CallsInv' /\ OrderInv'
<1>1. Loadable' = Loadable
    BY DEF Loadable
<1>. QED
    BY <1>1 DEF CallsInv, OrderInv

\* schedule_class_load.
LEMMA ScheduleClassStep == ASSUME IInv, schedule_class_load PROVE IInv'
<1>1. PICK c \in Class : c = Head(todo)
    BY DEF schedule_class_load
<1>2. /\ todo # <<>>
      /\ UNCHANGED <<images, maps, loadable_categories, phase, detached, current, calls>>
    BY DEF schedule_class_load
<1>3. /\ c \notin Category /\ c \in Item /\ c # Nil
    BY Items, LoadAssumption
<1>4. PhaseInv'
  <2>1. phase # "idle"
    BY <1>2 DEF IInv, PhaseInv
  <2>. QED
    BY <1>2, <2>1 DEF IInv, PhaseInv
<1>5. CASE c \in RW_LOADED /\ todo' = Tail(todo) /\ UNCHANGED <<RW_LOADED, loadable_classes>>
  <2>1. /\ TodoInv' /\ todo' \in Seq(Item) /\ Range(todo) = {c} \union Range(todo')
    BY <1>1, <1>2, <1>5, TodoStep
  <2>2. Scheduled' = Scheduled
    BY <1>2, <1>3, <1>5, <2>1 DEF Scheduled
  <2>3. TypeOK'
    BY <1>2, <1>5, <2>1 DEF IInv, TypeOK
  <2>4. LoadedInv'
    BY <1>2, <1>5, <2>1 DEF IInv, LoadedInv
  <2>5. ListInv'
    BY <1>2, <1>5, <2>2 DEF IInv, ListInv, Loadable
  <2>6. Careful => CallsInv' /\ OrderInv'
    BY <1>2, <1>5, <2>2, SameCalls DEF IInv
  <2>. QED
    BY <1>4, <2>1, <2>3, <2>4, <2>5, <2>6 DEF IInv
<1>6. CASE /\ superclass[c] \notin RW_LOADED \union {Nil} /\ todo' = <<superclass[c]>> \o todo
           /\ UNCHANGED <<RW_LOADED, loadable_classes>>
  <2>1. PICK d \in Class : d = superclass[c]
    BY <1>6, LoadAssumption
  <2>2. PICK q \in Seq(Item) : q = <<d>> /\ Len(q) = 1 /\ q[1] = d /\ DOMAIN q = 1 .. 1
    <3>1. d \in Item
      BY Items
    <3>2. <<d>> \in Seq(Item) /\ Len(<<d>>) = 1 /\ <<d>>[1] = d /\ DOMAIN <<d>> = 1 .. 1
      BY <3>1
    <3>. QED
      BY <3>2
  <2>3. todo \in Seq(Item) /\ todo' = q \o todo /\ d \in Item /\ d \notin Category
    BY <1>6, <2>1, <2>2, Lists, Items
  <2>4. Range(q) = {d}
    BY <2>2 DEF Range
  <2>5. /\ todo' \in Seq(Item) /\ Range(todo') = {d} \union Range(todo)
        /\ Len(todo) \in Nat /\ DOMAIN todo = 1 .. Len(todo) /\ DOMAIN todo' = 1 .. 1 + Len(todo)
        /\ \A m \in 1 .. 1 + Len(todo) : m > 1 => todo'[m] = todo[m - 1]
        /\ todo'[1] = d
    <3>1. /\ q \o todo \in Seq(Item) /\ Len(todo) \in Nat /\ DOMAIN todo = 1 .. Len(todo)
          /\ DOMAIN (q \o todo) = 1 .. Len(q) + Len(todo)
          /\ \A m \in 1 .. Len(q) : (q \o todo)[m] = q[m]
          /\ \A m \in 1 .. Len(q) + Len(todo) : m > Len(q) => (q \o todo)[m] = todo[m - Len(q)]
          /\ Range(q \o todo) = Range(q) \union Range(todo)
      BY <2>3, ConcatRange
    <3>. QED
      BY <2>2, <2>3, <2>4, <3>1
  <2>6. TodoInv'
    <3>1. \A m, n \in DOMAIN todo : todo[m] = todo[n] /\ todo[m] \in Category => m = n
      BY DEF IInv, TodoInv
    <3>2. \A m, n \in 1 .. 1 + Len(todo) : m > 1 /\ n > 1 =>
              m - 1 \in DOMAIN todo /\ n - 1 \in DOMAIN todo /\ (m - 1 = n - 1 => m = n)
      BY <2>5
    <3>3. ASSUME NEW m \in 1 .. 1 + Len(todo), NEW n \in 1 .. 1 + Len(todo),
                 todo'[m] = todo'[n], todo'[m] \in Category
          PROVE  m = n
      <4>1. m > 1 /\ n > 1
        BY <2>3, <2>5, <3>3
      <4>. QED
        BY <2>5, <3>1, <3>2, <3>3, <4>1
    <3>4. \A k \in Range(todo') \intersect Category : k \in Range(todo)
      BY <2>3, <2>5
    <3>. QED
      BY <1>2, <2>5, <3>3, <3>4 DEF IInv, TodoInv
  <2>7. Scheduled' = Scheduled
    BY <1>2, <1>6, <2>3, <2>5 DEF Scheduled
  <2>8. TypeOK'
    BY <1>2, <1>6, <2>5 DEF IInv, TypeOK
  <2>9. LoadedInv'
    BY <1>2, <1>6, <2>5 DEF IInv, LoadedInv
  <2>10. ListInv'
    BY <1>2, <1>6, <2>7 DEF IInv, ListInv, Loadable
  <2>11. Careful => CallsInv' /\ OrderInv'
    BY <1>2, <1>6, <2>7, SameCalls DEF IInv
  <2>. QED
    BY <1>4, <2>6, <2>8, <2>9, <2>10, <2>11 DEF IInv
<1>7. CASE /\ c \notin RW_LOADED /\ superclass[c] \in RW_LOADED \union {Nil}
           /\ loadable_classes' = IF c \in Loads THEN Append(loadable_classes, c) ELSE loadable_classes
           /\ RW_LOADED' = RW_LOADED \union {c} /\ todo' = Tail(todo)
  <2>1. /\ TodoInv' /\ todo' \in Seq(Item) /\ Range(todo) = {c} \union Range(todo')
    BY <1>1, <1>2, <1>7, TodoStep
  <2>2. Scheduled' = Scheduled \union ({c} \intersect Loads)
    BY <1>2, <1>3, <1>7, <2>1 DEF Scheduled
  <2>3. c \notin Scheduled /\ c \notin Range(loadable_classes)
    BY <1>3, <1>7, ClassesLoaded
  <2>4. LoadedInv'
    <3>1. \A e \in RW_LOADED' : superclass[e] \in RW_LOADED' \union {Nil}
      BY <1>7 DEF IInv, LoadedInv
    <3>. QED
      BY <1>2, <1>7, <2>1, <3>1 DEF IInv, LoadedInv
  <2>5. \A e \in (Scheduled \union RW_LOADED) \intersect Class : c \notin Ancestors[e]
    <3>1. RW_LOADED \subseteq Class /\ LoadedInv
      BY DEF IInv, TypeOK
    <3>2. \A e \in RW_LOADED : c \notin Ancestors[e]
      BY <1>7, <3>1, AncestorsLoaded
    <3>. QED
      BY <3>2, ClassesLoaded
  <2>6. loadable_classes \in Seq(Class \union {Nil}) /\ Once(loadable_classes)
    BY Lists
  <2>7. CASE c \notin Loads
    <3>1. loadable_classes' = loadable_classes /\ Scheduled' = Scheduled
      BY <1>7, <2>2, <2>7
    <3>2. TypeOK'
      BY <1>2, <1>7, <2>1, <3>1 DEF IInv, TypeOK
    <3>3. ListInv'
      BY <1>2, <3>1 DEF IInv, ListInv, Loadable
    <3>4. Careful => CallsInv' /\ OrderInv'
      BY <1>2, <3>1, SameCalls DEF IInv
    <3>. QED
      BY <1>4, <2>1, <2>4, <3>2, <3>3, <3>4 DEF IInv
  <2>8. CASE c \in Loads
    <3>1. loadable_classes' = Append(loadable_classes, c) /\ Scheduled' = Scheduled \union {c}
      BY <1>7, <2>2, <2>8
    <3>2. /\ loadable_classes' \in Seq(Class \union {Nil})
          /\ Range(loadable_classes') = Range(loadable_classes) \union {c}
          /\ Once(loadable_classes')
          /\ Sorted(loadable_classes)
                 /\ (\A e \in Range(loadable_classes) \intersect Class : c \notin Ancestors[e])
                 => Sorted(loadable_classes')
      BY <2>3, <2>6, <3>1, AppendRange, AppendOnce
    <3>3. Loadable' = Loadable \union {c}
      BY <1>2, <3>2 DEF Loadable
    <3>4. TypeOK'
      BY <1>2, <1>7, <2>1, <3>2 DEF IInv, TypeOK
    <3>5. ListInv'
      BY <3>1, <3>3 DEF IInv, ListInv
    <3>6. Careful => CallsInv'
      BY <1>2, <1>3, <2>3, <3>1, <3>3, AddCalls DEF IInv
    <3>7. ASSUME Careful PROVE OrderInv'
      <4>1. CallsInv /\ OrderInv
        BY <3>7 DEF IInv
      <4>2. \A e \in Range(loadable_classes) \intersect Class : c \notin Ancestors[e]
        BY <2>5, ClassesLoaded, LoadAssumption
      <4>3. \A e \in Class \intersect (Range(detached) \union {current}) : e \in Scheduled
        BY <4>1, LoadAssumption DEF CallsInv, Item
      <4>. QED
        BY <1>2, <2>5, <3>2, <4>1, <4>2, <4>3 DEF OrderInv
    <3>. QED
      BY <1>4, <2>1, <2>4, <3>4, <3>5, <3>6, <3>7 DEF IInv
  <2>. QED
    BY <2>7, <2>8
<1>. QED
    BY <1>1, <1>5, <1>6, <1>7 DEF schedule_class_load

\* schedule_category.
LEMMA ScheduleCategoryStep == ASSUME IInv, schedule_category PROVE IInv'
<1>1. PICK k \in Category : k = Head(todo)
    BY DEF schedule_category
<1>2. /\ todo # <<>> /\ todo' = Tail(todo)
      /\ loadable_categories' = IF cls[k] = Nil THEN loadable_categories
                                ELSE Append(loadable_categories, k)
      /\ UNCHANGED <<images, maps, RW_LOADED, loadable_classes, phase, detached, current, calls>>
    BY <1>1 DEF schedule_category
<1>3. /\ k \notin Class /\ k \in Item /\ k # Nil
    BY Items, LoadAssumption
<1>4. /\ TodoInv' /\ todo' \in Seq(Item) /\ Range(todo) = {k} \union Range(todo')
      /\ k \notin Range(todo') /\ k \in Loads /\ \E i \in images : k \in catlist[i]
    BY <1>1, <1>2, TodoStep
<1>5. PhaseInv'
  <2>1. phase # "idle"
    BY <1>2 DEF IInv, PhaseInv
  <2>. QED
    BY <1>2, <2>1 DEF IInv, PhaseInv
<1>6. LoadedInv'
  <2>1. \A i \in images : clslist[i] \subseteq Class
    BY LoadAssumption DEF IInv, TypeOK
  <2>. QED
    BY <1>2, <1>3, <1>4, <2>1 DEF IInv, LoadedInv
<1>7. k \notin Scheduled
    BY <1>4, ClassesLoaded
<1>8. CASE cls[k] = Nil
  <2>1. loadable_categories' = loadable_categories
    BY <1>2, <1>8
  <2>2. Scheduled' = Scheduled
    BY <1>2, <1>4, <1>8 DEF Scheduled
  <2>3. TypeOK'
    BY <1>2, <1>4, <2>1 DEF IInv, TypeOK
  <2>4. ListInv'
    BY <1>2, <2>1, <2>2 DEF IInv, ListInv, Loadable
  <2>5. Careful => CallsInv' /\ OrderInv'
    BY <1>2, <2>1, <2>2, SameCalls DEF IInv
  <2>. QED
    BY <1>4, <1>5, <1>6, <2>3, <2>4, <2>5 DEF IInv
<1>9. CASE cls[k] # Nil
  <2>1. loadable_categories' = Append(loadable_categories, k)
    BY <1>2, <1>9
  <2>2. Scheduled' = Scheduled \union {k}
    BY <1>2, <1>4, <1>9 DEF Scheduled
  <2>3. loadable_categories \in Seq(Category \union {Nil}) /\ Once(loadable_categories)
    BY Lists
  <2>4. k \notin Range(loadable_categories)
    BY <1>3, <1>7 DEF IInv, ListInv, Loadable
  <2>5. /\ loadable_categories' \in Seq(Category \union {Nil})
        /\ Range(loadable_categories') = Range(loadable_categories) \union {k}
        /\ Once(loadable_categories')
    BY <2>1, <2>3, <2>4, AppendRange, AppendOnce
  <2>6. Loadable' = Loadable \union {k}
    BY <1>2, <2>5 DEF Loadable
  <2>7. TypeOK'
    BY <1>2, <1>4, <2>5 DEF IInv, TypeOK
  <2>8. ListInv'
    BY <2>2, <2>6 DEF IInv, ListInv
  <2>9. Careful => CallsInv'
    BY <1>2, <1>3, <1>7, <2>2, <2>6, AddCalls DEF IInv
  <2>10. Careful => OrderInv'
    BY <1>2 DEF IInv, OrderInv
  <2>. QED
    BY <1>4, <1>5, <1>6, <2>7, <2>8, <2>9, <2>10 DEF IInv
<1>. QED
    BY <1>8, <1>9

-----------------------------------------------------------------------------
(* The loop *)

\* The loop schedules nothing.
LEMMA LoopStep ==
    ASSUME IInv, UNCHANGED <<images, maps, RW_LOADED, todo>>
    PROVE  /\ TodoInv' /\ LoadedInv' /\ Scheduled' = Scheduled
           /\ Loadable' \subseteq Loadable => ListInv'
BY DEF IInv, TodoInv, LoadedInv, ListInv, Scheduled

\* detach_classes.
LEMMA DetachClassesStep == ASSUME IInv, detach_classes PROVE IInv'
<1>1. /\ phase = "loop" /\ detached' = loadable_classes /\ loadable_classes' = <<>>
      /\ phase' = "classes" /\ UNCHANGED <<images, maps, RW_LOADED, todo>>
      /\ UNCHANGED <<loadable_categories, current, calls>> /\ todo = <<>>
    BY DEF detach_classes
<1>2. detached = <<>> /\ current = Nil
    BY <1>1 DEF IInv, PhaseInv
<1>3. /\ detached' \in Seq(Item \union {Nil}) /\ <<>> \in Seq(Class \union {Nil})
  <2>1. Class \union {Nil} \subseteq Item \union {Nil}
    BY Items
  <2>2. loadable_classes \in Seq(Class \union {Nil})
    BY Lists
  <2>3. \A m \in DOMAIN loadable_classes : loadable_classes[m] \in Item \union {Nil}
    BY <2>1, <2>2, ListRange
  <2>4. loadable_classes \in Seq(Item \union {Nil})
    BY <2>2, <2>3, SeqDef, LenProperties
  <2>. QED
    BY <1>1, <2>4, EmptySeq
<1>4. TypeOK'
    BY <1>1, <1>3, EmptyOnce, Lists DEF IInv, TypeOK
<1>5. PhaseInv'
    BY <1>1, <1>2, Lists DEF PhaseInv
<1>6. Range(<<>>) = {} /\ Range(detached) = {}
    BY <1>2, EmptyOnce
<1>7. /\ Loadable' = Range(loadable_categories)
      /\ Range(detached)' \union Loadable' = Range(detached) \union Loadable
    BY <1>1, <1>6 DEF Loadable
<1>8. TodoInv' /\ LoadedInv' /\ Scheduled' = Scheduled /\ ListInv'
    BY <1>1, <1>7, LoopStep DEF Loadable
<1>9. ASSUME Careful PROVE CallsInv' /\ OrderInv'
  <2>1. CallsInv /\ OrderInv /\ ListInv
    BY <1>9 DEF IInv
  <2>2. Range(detached)' = Range(loadable_classes) /\ Range(loadable_classes)' = {}
    BY <1>1, <1>6
  <2>3. Range(detached)' \intersect Loadable' \subseteq {Nil}
    BY <1>7, <2>2, Lists, Items
  <2>4. Range(detached)' \ {Nil} \subseteq Scheduled'
    BY <1>8, <2>1, <2>2 DEF ListInv, Loadable
  <2>5. CallsInv'
    BY <1>1, <1>7, <1>8, <2>1, <2>3, <2>4 DEF CallsInv
  <2>6. \A k \in Category : k \notin Range(detached)' \union {current'}
    BY <1>1, <1>2, <2>2, Lists, LoadAssumption
  <2>7. current' \notin Class
    BY <1>1, <1>2, LoadAssumption
  <2>8. Sorted(loadable_classes') /\ Sorted(detached')
    BY <1>1, <2>1, EmptyOnce DEF OrderInv
  <2>9. OrderInv'
    BY <2>2, <2>6, <2>7, <2>8 DEF OrderInv
  <2>. QED
    BY <2>5, <2>9
<1>. QED
    BY <1>4, <1>5, <1>8, <1>9 DEF IInv

\* When no class is left, the classes of all categories in the list have returned
\* from +load.
LEMMA ClassesFirst ==
    ASSUME IInv, Careful, loadable_classes = <<>>, detached = <<>>, todo = <<>>,
           NEW k \in Category, k \in Range(loadable_categories), cls[k] \in Loads
    PROVE  calls[cls[k]] = 1
<1>1. k \in Scheduled /\ k # Nil
    BY LoadAssumption DEF IInv, ListInv, Loadable
<1>2. PICK i \in images : cls[k] # Nil /\ k \in catlist[i]
    BY <1>1, ClassesLoaded
<1>3. PICK j \in images : cls[k] \in clslist[j]
    BY <1>2 DEF IInv, LoadedInv
<1>4. Range(todo) = {} /\ Range(detached) = {} /\ Range(loadable_classes) = {}
    BY EmptyOnce
<1>5. cls[k] \in RW_LOADED
    BY <1>3, <1>4 DEF IInv, LoadedInv
<1>6. cls[k] \in Class /\ cls[k] \in Scheduled /\ cls[k] \in Item
    BY <1>2, <1>5, ClassesLoaded, LoadAssumption, Items
<1>7. cls[k] \notin Loadable
    BY <1>4, <1>6, Lists, Items DEF Loadable
<1>. QED
    BY <1>4, <1>6, <1>7 DEF IInv, CallsInv

\* detach_categories.
LEMMA DetachCategoriesStep == ASSUME IInv, detach_categories PROVE IInv'
<1>1. /\ phase = "loop" /\ detached' = loadable_categories /\ loadable_categories' = <<>>
      /\ phase' = "categories" /\ UNCHANGED <<images, maps, RW_LOADED, todo>>
      /\ UNCHANGED <<loadable_classes, current, calls>>
      /\ loadable_classes = <<>> /\ todo = <<>>
    BY DEF detach_categories
<1>2. detached = <<>> /\ current = Nil
    BY <1>1 DEF IInv, PhaseInv
<1>3. /\ detached' \in Seq(Item \union {Nil}) /\ <<>> \in Seq(Category \union {Nil})
  <2>1. Category \union {Nil} \subseteq Item \union {Nil}
    BY Items
  <2>2. loadable_categories \in Seq(Category \union {Nil})
    BY Lists
  <2>3. \A m \in DOMAIN loadable_categories : loadable_categories[m] \in Item \union {Nil}
    BY <2>1, <2>2, ListRange
  <2>4. loadable_categories \in Seq(Item \union {Nil})
    BY <2>2, <2>3, SeqDef, LenProperties
  <2>. QED
    BY <1>1, <2>4, EmptySeq
<1>4. TypeOK'
    BY <1>1, <1>3, EmptyOnce, Lists DEF IInv, TypeOK
<1>5. PhaseInv'
    BY <1>1, <1>2, Lists DEF PhaseInv
<1>6. Range(<<>>) = {} /\ Range(detached) = {} /\ Range(loadable_classes) = {}
    BY <1>1, <1>2, EmptyOnce
<1>7. /\ Loadable' = {} /\ Range(detached)' = Range(loadable_categories)
      /\ Range(detached)' \union Loadable' = Range(detached) \union Loadable
    BY <1>1, <1>6 DEF Loadable
<1>8. TodoInv' /\ LoadedInv' /\ Scheduled' = Scheduled /\ ListInv'
    BY <1>1, <1>7, LoopStep
<1>9. ASSUME Careful PROVE CallsInv' /\ OrderInv'
  <2>1. CallsInv /\ OrderInv /\ ListInv
    BY <1>9 DEF IInv
  <2>2. Range(detached)' \ {Nil} \subseteq Scheduled'
    BY <1>7, <1>8, <2>1 DEF ListInv, Loadable
  <2>3. CallsInv'
    BY <1>1, <1>7, <1>8, <2>1, <2>2 DEF CallsInv
  <2>4. \A c \in Class : c \notin Range(detached)' \union {current'}
    BY <1>1, <1>2, <1>7, Lists, LoadAssumption
  <2>5. Sorted(detached')
    <3>1. \A m \in DOMAIN loadable_categories : loadable_categories[m] \notin Class
      BY <1>1, <1>7, <2>4 DEF Range
    <3>. QED
      BY <1>1, <3>1 DEF Sorted
  <2>6. \A k \in Category \intersect (Range(detached)' \union {current'}) :
            cls[k] \in Loads => calls'[cls[k]] = 1
    BY <1>1, <1>2, <1>7, <1>9, ClassesFirst, LoadAssumption
  <2>7. OrderInv'
    BY <1>1, <2>1, <2>4, <2>5, <2>6 DEF OrderInv
  <2>. QED
    BY <2>3, <2>7
<1>. QED
    BY <1>4, <1>5, <1>8, <1>9 DEF IInv

\* The rest of a detached list.
LEMMA DetachedTail ==
    ASSUME IInv, detached # <<>>, detached' = Tail(detached)
    PROVE  /\ detached' \in Seq(Item \union {Nil}) /\ Once(detached')
           /\ Range(detached) = {Head(detached)} \union Range(detached')
           /\ Head(detached) # Nil => Head(detached) \notin Range(detached')
           /\ Sorted(detached) =>
                  /\ Sorted(detached')
                  /\ Head(detached) \in Class =>
                         Ancestors[Head(detached)] \intersect Range(detached') = {}
<1>1. detached \in Seq(Item \union {Nil}) /\ Once(detached)
    BY Lists
<1>. QED
    BY <1>1, TailRange, TailOnce

\* skip_unmapped.
LEMMA SkipStep == ASSUME IInv, skip_unmapped PROVE IInv'
<1>1. /\ detached # <<>> /\ Head(detached) = Nil /\ detached' = Tail(detached) /\ current = Nil
      /\ UNCHANGED <<images, maps, RW_LOADED, todo>>
      /\ UNCHANGED <<loadable_classes, loadable_categories, phase, current, calls>>
      /\ phase \in {"classes", "categories"}
    BY DEF skip_unmapped
<1>2. /\ detached' \in Seq(Item \union {Nil}) /\ Once(detached')
      /\ Range(detached) = {Nil} \union Range(detached')
      /\ Sorted(detached) => Sorted(detached')
    BY <1>1, DetachedTail
<1>3. TypeOK'
    BY <1>1, <1>2 DEF IInv, TypeOK
<1>4. PhaseInv'
    BY <1>1, <1>2 DEF IInv, PhaseInv
<1>5. TodoInv' /\ LoadedInv' /\ Scheduled' = Scheduled /\ ListInv' /\ Loadable' = Loadable
    BY <1>1, LoopStep DEF Loadable
<1>6. ASSUME Careful PROVE CallsInv' /\ OrderInv'
  <2>1. CallsInv /\ OrderInv
    BY <1>6 DEF IInv
  <2>2. CallsInv'
    <3>1. \A x \in Item : x \in Range(detached) <=> x \in Range(detached')
      BY <1>2, Items
    <3>. QED
      BY <1>1, <1>2, <1>5, <2>1, <3>1 DEF CallsInv
  <2>3. OrderInv'
    BY <1>1, <1>2, <2>1 DEF OrderInv
  <2>. QED
    BY <2>2, <2>3
<1>. QED
    BY <1>3, <1>4, <1>5, <1>6 DEF IInv

\* call_load.
LEMMA CallLoadStep == ASSUME IInv, call_load PROVE IInv'
<1>1. PICK x \in Item : x = Head(detached)
  <2>1. detached # <<>> /\ Head(detached) # Nil
    BY DEF call_load
  <2>2. detached \in Seq(Item \union {Nil})
    BY Lists
  <2>. QED
    BY <2>1, <2>2, TailRange
<1>2. /\ detached # <<>> /\ detached' = Tail(detached) /\ current = Nil /\ current' = x
      /\ calls' = [calls EXCEPT ![x] = @ + 1] /\ x # Nil
      /\ UNCHANGED <<images, maps, RW_LOADED, todo>>
      /\ UNCHANGED <<loadable_classes, loadable_categories, phase>>
      /\ phase \in {"classes", "categories"}
    BY <1>1 DEF call_load
<1>3. /\ detached' \in Seq(Item \union {Nil}) /\ Once(detached')
      /\ Range(detached) = {x} \union Range(detached')
      /\ x \notin Range(detached')
      /\ Sorted(detached) =>
             /\ Sorted(detached')
             /\ x \in Class => Ancestors[x] \intersect Range(detached') = {}
    BY <1>1, <1>2, DetachedTail
<1>4. calls \in [Item -> Nat] /\ calls' \in [Item -> Nat]
      /\ \A y \in Item : calls'[y] = IF y = x THEN calls[x] + 1 ELSE calls[y]
  <2>1. calls \in [Item -> Nat]
    BY DEF IInv, TypeOK
  <2>. QED
    BY <1>2, <2>1
<1>5. TypeOK'
    BY <1>1, <1>2, <1>3, <1>4 DEF IInv, TypeOK
<1>6. PhaseInv'
    BY <1>2, <1>3 DEF IInv, PhaseInv
<1>7. TodoInv' /\ LoadedInv' /\ Scheduled' = Scheduled /\ ListInv' /\ Loadable' = Loadable
    BY <1>2, LoopStep DEF Loadable
<1>8. ASSUME Careful PROVE CallsInv' /\ OrderInv'
  <2>1. CallsInv /\ OrderInv
    BY <1>8 DEF IInv
  <2>2. calls[x] = 0 /\ x \in Scheduled /\ x \notin Loadable
    BY <1>2, <1>3, <2>1 DEF CallsInv
  <2>3. ASSUME NEW y \in Item
        PROVE  IF calls'[y] = 0
               THEN current' # y /\ (y \in Scheduled' => y \in Range(detached)' \union Loadable')
               ELSE calls'[y] = 1 /\ y \in Scheduled' /\ y \notin Range(detached)' \union Loadable'
    <3>1. CASE y = x
      BY <1>3, <1>4, <1>7, <2>2, <3>1
    <3>2. CASE y # x
      <4>1. calls'[y] = calls[y] /\ (y \in Range(detached) <=> y \in Range(detached'))
        BY <1>3, <1>4, <3>2
      <4>. QED
        BY <1>2, <1>7, <2>1, <3>2, <4>1 DEF CallsInv
    <3>. QED
      BY <3>1, <3>2
  <2>4. CallsInv'
    <3>1. Range(detached)' \intersect Loadable' \subseteq {Nil}
      BY <1>3, <1>7, <2>1 DEF CallsInv
    <3>2. Range(detached)' \ {Nil} \subseteq Scheduled'
      BY <1>3, <1>7, <2>1 DEF CallsInv
    <3>. QED
      BY <2>3, <3>1, <3>2 DEF CallsInv
  <2>5. \A k \in Category \intersect (Range(detached)' \union {current'}) :
            cls[k] \in Loads => calls'[cls[k]] = 1
    <3>. SUFFICES ASSUME NEW k \in Category \intersect Range(detached), cls[k] \in Loads
                  PROVE  calls'[cls[k]] = 1
      BY <1>2, <1>3
    <3>1. calls[cls[k]] = 1 /\ cls[k] \in Item
      BY <2>1, Items DEF OrderInv
    <3>. QED
      BY <1>4, <2>2, <3>1
  <2>6. \A c \in Class \intersect (Range(detached)' \union {current'}) :
            c \in Class \intersect (Range(detached) \union {current})
    BY <1>2, <1>3
  <2>7. current' \in Class => Ancestors[current'] \intersect Range(detached)' = {}
    BY <1>2, <1>3, <2>1 DEF OrderInv
  <2>8. Sorted(loadable_classes)' /\ Sorted(detached)'
    BY <1>2, <1>3, <2>1 DEF OrderInv
  <2>9. OrderInv'
    BY <1>2, <2>1, <2>5, <2>6, <2>7, <2>8 DEF OrderInv
  <2>. QED
    BY <2>4, <2>9
<1>. QED
    BY <1>5, <1>6, <1>7, <1>8 DEF IInv

\* load_returns.
LEMMA ReturnsStep == ASSUME IInv, load_returns PROVE IInv'
<1>1. /\ current' = Nil /\ todo = <<>> /\ UNCHANGED <<images, maps, RW_LOADED, todo>>
      /\ UNCHANGED <<loadable_classes, loadable_categories, phase, detached, calls>>
    BY DEF load_returns
<1>2. TypeOK' /\ PhaseInv'
    BY <1>1 DEF IInv, TypeOK, PhaseInv
<1>3. TodoInv' /\ LoadedInv' /\ Scheduled' = Scheduled /\ ListInv' /\ Loadable' = Loadable
    BY <1>1, LoopStep DEF Loadable
<1>4. ASSUME Careful PROVE CallsInv' /\ OrderInv'
  <2>1. CallsInv /\ OrderInv
    BY <1>4 DEF IInv
  <2>2. CallsInv'
    BY <1>1, <1>3, <2>1, Items DEF CallsInv
  <2>3. OrderInv'
    BY <1>1, <2>1, LoadAssumption DEF OrderInv
  <2>. QED
    BY <2>2, <2>3
<1>. QED
    BY <1>2, <1>3, <1>4 DEF IInv

\* The end of a pass over a list.
LEMMA EndStep ==
    ASSUME IInv, UNCHANGED <<images, maps, RW_LOADED, todo>>,
           UNCHANGED <<loadable_classes, loadable_categories, detached, current, calls>>,
           phase' \in {"idle", "loop"}, PhaseInv'
    PROVE  IInv'
<1>1. TypeOK'
    BY DEF IInv, TypeOK
<1>2. TodoInv' /\ LoadedInv' /\ Scheduled' = Scheduled /\ ListInv'
    BY LoopStep DEF Loadable
<1>3. Careful => CallsInv' /\ OrderInv'
    BY <1>2, SameCalls DEF IInv
<1>. QED
    BY <1>1, <1>2, <1>3 DEF IInv

\* end_class_loads.
LEMMA EndClassesStep == ASSUME IInv, end_class_loads PROVE IInv'
<1>1. phase' = "loop" /\ PhaseInv'
    BY DEF end_class_loads, PhaseInv
<1>. QED
    BY <1>1, EndStep DEF end_class_loads

\* end_category_loads: the outermost call returns when nothing is left to schedule.
LEMMA EndCategoriesStep == ASSUME IInv, end_category_loads PROVE IInv'
<1>1. todo = <<>>
    BY DEF IInv, PhaseInv, end_category_loads
<1>2. phase' \in {"idle", "loop"} /\ PhaseInv'
    BY <1>1 DEF end_category_loads, PhaseInv
<1>. QED
    BY <1>2, EndStep DEF end_category_loads

-----------------------------------------------------------------------------
(* Images *)

\* load_images.
LEMMA LoadImagesStep == ASSUME IInv, NEW i \in Image, load_images(i) PROVE IInv'
<1>1. /\ todo = <<>> /\ (phase = "idle" \/ current # Nil)
      /\ i \notin images /\ DependenciesLoaded(i)
      /\ maps[i] < IF i \in Bundle THEN MaxMaps ELSE 1
      /\ images' = images \union {i} /\ maps' = [maps EXCEPT ![i] = @ + 1]
      /\ todo' = nlclslist[i] \o nlcatlist[i]
      /\ phase' = IF phase = "idle" /\ hasLoadMethods(i) THEN "loop" ELSE phase
      /\ UNCHANGED <<RW_LOADED, loadable_classes, loadable_categories, detached, current, calls>>
    BY DEF load_images, MayCall, prepare_load_methods
<1>2. images \subseteq Image /\ maps \in [Image -> 0 .. MaxMaps] /\ RW_LOADED \subseteq Class
    BY DEF IInv, TypeOK
<1>3. PICK p \in Seq(Item), q \in Seq(Item) :
          /\ p = nlclslist[i] /\ q = nlcatlist[i]
          /\ Range(p) \subseteq Class \intersect clslist[i]
          /\ Range(q) \subseteq Category \intersect catlist[i]
          /\ \A m, n \in DOMAIN q : q[m] = q[n] => m = n
          /\ p = <<>> => Range(p) = {}
          /\ q = <<>> => Range(q) = {}
  <2>1. nlclslist[i] \in Seq(Class) /\ nlcatlist[i] \in Seq(Category)
    BY LoadAssumption
  <2>2. Range(nlclslist[i]) \subseteq Class /\ Range(nlcatlist[i]) \subseteq Category
    BY <2>1, ListRange
  <2>3. Class \subseteq Item /\ Category \subseteq Item
    BY Items
  <2>4. nlclslist[i] \in Seq(Item) /\ nlcatlist[i] \in Seq(Item)
    <3>1. \A m \in DOMAIN nlclslist[i] : nlclslist[i][m] \in Item
      BY <2>1, <2>3, ListRange
    <3>2. \A m \in DOMAIN nlcatlist[i] : nlcatlist[i][m] \in Item
      BY <2>1, <2>3, ListRange
    <3>3. nlclslist[i] \in Seq(Item)
      BY <2>1, <3>1, SeqDef, LenProperties
    <3>4. nlcatlist[i] \in Seq(Item)
      BY <2>1, <3>2, SeqDef, LenProperties
    <3>. QED
      BY <3>3, <3>4
  <2>5. \A m, n \in DOMAIN nlcatlist[i] : nlcatlist[i][m] = nlcatlist[i][n] => m = n
    BY LoadAssumption DEF IsInjective
  <2>. QED
    BY <2>2, <2>4, <2>5, Items, EmptyOnce
<1>4. /\ todo' \in Seq(Item) /\ Range(todo') = Range(p) \union Range(q)
      /\ Len(p) \in Nat /\ Len(q) \in Nat /\ DOMAIN p = 1 .. Len(p) /\ DOMAIN q = 1 .. Len(q)
      /\ DOMAIN todo' = 1 .. Len(p) + Len(q)
      /\ \A m \in 1 .. Len(p) : todo'[m] = p[m]
      /\ \A m \in 1 .. Len(p) + Len(q) : m > Len(p) => todo'[m] = q[m - Len(p)]
  <2>1. /\ p \o q \in Seq(Item) /\ Range(p \o q) = Range(p) \union Range(q)
        /\ Len(p) \in Nat /\ Len(q) \in Nat /\ DOMAIN p = 1 .. Len(p) /\ DOMAIN q = 1 .. Len(q)
        /\ DOMAIN (p \o q) = 1 .. Len(p) + Len(q)
        /\ \A m \in 1 .. Len(p) : (p \o q)[m] = p[m]
        /\ \A m \in 1 .. Len(p) + Len(q) : m > Len(p) => (p \o q)[m] = q[m - Len(p)]
    BY ConcatRange
  <2>2. todo' = p \o q
    BY <1>1, <1>3
  <2>. QED
    BY <2>1, <2>2
<1>5. TypeOK'
  <2>1. maps[i] \in Nat /\ maps[i] + 1 \in 0 .. MaxMaps
    BY <1>1, <1>2, LoadAssumption
  <2>2. maps' \in [Image -> 0 .. MaxMaps]
    BY <1>1, <1>2, <2>1
  <2>3. images' \subseteq Image
    BY <1>1, <1>2
  <2>4. phase' \in {"idle", "loop", "classes", "categories"}
    BY <1>1 DEF IInv, TypeOK
  <2>. QED
    BY <1>1, <1>4, <2>2, <2>3, <2>4 DEF IInv, TypeOK
<1>6. PhaseInv'
  <2>1. ~hasLoadMethods(i) => todo' = <<>>
    <3>1. ~hasLoadMethods(i) => p = <<>> /\ q = <<>>
      BY <1>3 DEF hasLoadMethods
    <3>2. p = <<>> /\ q = <<>> => p \o q = <<>>
      BY <1>3, ConcatEmptySeq
    <3>. QED
      BY <1>1, <1>3, <3>1, <3>2
  <2>. QED
    BY <1>1, <2>1 DEF IInv, PhaseInv
<1>7. TodoInv'
  <2>1. ASSUME NEW m \in 1 .. Len(p) + Len(q), NEW n \in 1 .. Len(p) + Len(q),
               todo'[m] = todo'[n], todo'[m] \in Category
        PROVE  m = n
    <3>1. \A k \in 1 .. Len(p) + Len(q) : todo'[k] \in Category => k > Len(p)
      <4>. SUFFICES ASSUME NEW k \in 1 .. Len(p) + Len(q), ~(k > Len(p))
                    PROVE  todo'[k] \notin Category
        OBVIOUS
      <4>1. k \in 1 .. Len(p)
        BY <1>4
      <4>2. todo'[k] \in Range(p)
        BY <1>4, <4>1 DEF Range
      <4>. QED
        BY <1>3, <4>2, Items
    <3>2. m > Len(p) /\ n > Len(p)
      BY <2>1, <3>1
    <3>3. m - Len(p) \in DOMAIN q /\ n - Len(p) \in DOMAIN q /\ q[m - Len(p)] = q[n - Len(p)]
      BY <1>4, <2>1, <3>2
    <3>4. m - Len(p) = n - Len(p)
      BY <1>3, <3>3
    <3>. QED
      BY <1>4, <3>4
  <2>2. \A k \in Range(todo') \intersect Category : k \in Range(q)
    BY <1>3, <1>4, Items
  <2>3. \A k \in Range(q) : k \in Loads /\ k \in catlist[i] /\ i \in images'
    BY <1>1, <1>3, Items
  <2>. QED
    <3>1. \A m, n \in DOMAIN todo' : todo'[m] = todo'[n] /\ todo'[m] \in Category => m = n
      BY <1>4, <2>1
    <3>2. \A k \in Range(todo') \intersect Category :
              k \in Loads /\ \E j \in images' : k \in catlist[j]
      BY <2>2, <2>3
    <3>. QED
      BY <3>1, <3>2 DEF TodoInv
<1>8. Range(todo) = {}
    BY <1>1, EmptyOnce
<1>9. LoadedInv'
  <2>1. \A j \in images' : clslist[j] \intersect Loads \subseteq RW_LOADED' \union Range(todo')
    <3>. SUFFICES ASSUME NEW j \in images', NEW c \in clslist[j] \intersect Loads
                  PROVE  c \in RW_LOADED' \union Range(todo')
      OBVIOUS
    <3>1. CASE j = i
      BY <1>3, <1>4, <3>1, Items
    <3>2. CASE j \in images
      BY <1>1, <1>8, <3>2 DEF IInv, LoadedInv
    <3>. QED
      BY <1>1, <3>1, <3>2
  <2>2. \A j \in images' : \A k \in catlist[j] :
            cls[k] # Nil => \E h \in images' : cls[k] \in clslist[h]
    <3>1. \A j \in images : \A k \in catlist[j] :
              cls[k] # Nil => \E h \in images : cls[k] \in clslist[h]
      BY DEF IInv, LoadedInv
    <3>2. \A k \in catlist[i] : cls[k] # Nil => \E h \in images' : cls[k] \in clslist[h]
      BY <1>1 DEF DependenciesLoaded
    <3>. QED
      BY <1>1, <3>1, <3>2
  <2>3. \A c \in RW_LOADED' : superclass[c] \in RW_LOADED' \union {Nil}
    BY <1>1 DEF IInv, LoadedInv
  <2>. QED
    BY <2>1, <2>2, <2>3 DEF LoadedInv
<1>10. Scheduled' = Scheduled
  <2>1. ASSUME NEW k \in Category, k \in Loads, cls[k] # Nil
        PROVE  (k \notin Range(todo') /\ \E j \in images' : k \in catlist[j])
                   <=> (k \notin Range(todo) /\ \E j \in images : k \in catlist[j])
    <3>1. CASE k \in catlist[i]
      <4>1. k \in Range(q)
        BY <1>3, <2>1, <3>1, Items
      <4>2. \A j \in images : j # i /\ j \in Image
        BY <1>1, <1>2
      <4>3. \A j \in images : k \notin catlist[j]
        BY <3>1, <4>2, LoadAssumption
      <4>. QED
        BY <1>4, <4>1, <4>3
    <3>2. CASE k \notin catlist[i]
      BY <1>1, <1>3, <1>4, <1>8, <2>1, <3>2, Items
    <3>. QED
      BY <3>1, <3>2
  <2>2. Scheduled' = Loads \intersect
            (RW_LOADED \union
             {k \in Category : /\ cls[k] # Nil /\ k \notin Range(todo')
                               /\ \E j \in images' : k \in catlist[j]})
    BY <1>1 DEF Scheduled
  <2>. QED
    BY <2>1, <2>2 DEF Scheduled
<1>11. ListInv'
    BY <1>1, <1>10 DEF IInv, ListInv, Loadable
<1>12. Careful => CallsInv' /\ OrderInv'
    BY <1>1, <1>10, SameCalls DEF IInv
<1>. QED
    BY <1>5, <1>6, <1>7, <1>9, <1>11, <1>12 DEF IInv

\* unmap_image.
LEMMA UnmapImageStep == ASSUME IInv, NEW i \in Image, unmap_image(i) PROVE IInv'
<1>1. /\ todo = <<>> /\ i \in images /\ Unused(i)
      /\ Careful => Range(detached) \intersect Of(i) = {}
      /\ images' = images \ {i} /\ RW_LOADED' = RW_LOADED \ Of(i)
      /\ loadable_classes' = NilOut(loadable_classes, Of(i))
      /\ loadable_categories' = NilOut(loadable_categories, Of(i))
      /\ calls' = [x \in Item |-> IF x \in Of(i) THEN 0 ELSE calls[x]]
      /\ UNCHANGED <<maps, todo, phase, detached, current>>
    BY DEF unmap_image, MayCall
<1>2. images \subseteq Image /\ RW_LOADED \subseteq Class /\ calls \in [Item -> Nat]
    BY DEF IInv, TypeOK
<1>3. /\ clslist[i] \subseteq Class /\ catlist[i] \subseteq Category
      /\ \A x \in Class : x \in Of(i) <=> x \in clslist[i]
      /\ \A x \in Category : x \in Of(i) <=> x \in catlist[i]
      /\ Nil \notin Of(i)
  <2>1. clslist[i] \subseteq Class /\ catlist[i] \subseteq Category
    BY LoadAssumption
  <2>. QED
    BY <2>1, Items DEF Of
<1>4. \A j \in images : j # i =>
          clslist[i] \intersect clslist[j] = {} /\ catlist[i] \intersect catlist[j] = {}
    BY <1>2, LoadAssumption
<1>5. /\ loadable_classes' \in Seq(Class \union {Nil}) /\ Once(loadable_classes')
      /\ Range(loadable_classes') \ {Nil} = Range(loadable_classes) \ (Of(i) \union {Nil})
      /\ loadable_classes = <<>> => loadable_classes' = <<>>
      /\ Sorted(loadable_classes) => Sorted(loadable_classes')
  <2>. DEFINE s == NilOut(loadable_classes, Of(i))
  <2>1. loadable_classes \in Seq(Class \union {Nil}) /\ Once(loadable_classes)
    BY Lists
  <2>2. /\ s \in Seq(Class \union {Nil})
        /\ Range(s) \ {Nil} = Range(loadable_classes) \ (Of(i) \union {Nil})
        /\ loadable_classes = <<>> => s = <<>>
    BY <2>1, NilOutRange
  <2>3. Once(s) /\ (Sorted(loadable_classes) => Sorted(s))
    BY <2>1, NilOutOnce
  <2>. QED
    BY <1>1, <2>2, <2>3
<1>6. /\ loadable_categories' \in Seq(Category \union {Nil}) /\ Once(loadable_categories')
      /\ Range(loadable_categories') \ {Nil} = Range(loadable_categories) \ (Of(i) \union {Nil})
      /\ loadable_categories = <<>> => loadable_categories' = <<>>
  <2>. DEFINE s == NilOut(loadable_categories, Of(i))
  <2>1. loadable_categories \in Seq(Category \union {Nil}) /\ Once(loadable_categories)
    BY Lists
  <2>2. /\ s \in Seq(Category \union {Nil})
        /\ Range(s) \ {Nil} = Range(loadable_categories) \ (Of(i) \union {Nil})
        /\ loadable_categories = <<>> => s = <<>>
    BY <2>1, NilOutRange
  <2>3. Once(s)
    BY <2>1, NilOutOnce
  <2>. QED
    BY <1>1, <2>2, <2>3
<1>7. /\ calls' \in [Item -> Nat]
      /\ \A x \in Item : calls'[x] = IF x \in Of(i) THEN 0 ELSE calls[x]
    BY <1>1, <1>2
<1>8. TypeOK'
    BY <1>1, <1>2, <1>5, <1>6, <1>7 DEF IInv, TypeOK
<1>9. PhaseInv'
    BY <1>1, <1>5, <1>6 DEF IInv, PhaseInv
<1>10. Range(todo) = {} /\ DOMAIN todo = {}
    BY <1>1, EmptyOnce
<1>11. TodoInv'
    BY <1>1, <1>10 DEF TodoInv
<1>12. \A c \in Class : c \in RW_LOADED /\ c \notin Of(i) => Ancestors[c] \intersect clslist[i] = {}
    BY <1>1, <1>3 DEF Unused
<1>13. LoadedInv'
  <2>1. ASSUME NEW c \in RW_LOADED' PROVE superclass[c] \in RW_LOADED' \union {Nil}
    <3>. SUFFICES ASSUME superclass[c] # Nil PROVE superclass[c] \in RW_LOADED'
      OBVIOUS
    <3>1. c \in Class /\ c \in RW_LOADED /\ c \notin Of(i)
      BY <1>1, <1>2
    <3>2. superclass[c] \in Class /\ superclass[c] \in Ancestors[c] /\ superclass[c] \in RW_LOADED
      BY <3>1, SuperIsAncestor DEF IInv, LoadedInv
    <3>. QED
      BY <1>1, <1>3, <1>12, <3>1, <3>2
  <2>2. ASSUME NEW j \in images', NEW c \in clslist[j] \intersect Loads
        PROVE  c \in RW_LOADED' \union Range(todo')
    <3>1. j \in images /\ j # i /\ c \in Class
      BY <1>1, <1>2, LoadAssumption
    <3>2. c \in RW_LOADED
      BY <1>10, <3>1 DEF IInv, LoadedInv
    <3>3. c \notin clslist[i]
      BY <1>4, <3>1
    <3>. QED
      BY <1>1, <1>3, <3>1, <3>2, <3>3
  <2>3. ASSUME NEW j \in images', NEW k \in catlist[j], cls[k] # Nil
        PROVE  \E h \in images' : cls[k] \in clslist[h]
    <3>1. j \in images \ {i}
      BY <1>1
    <3>2. PICK h \in images : cls[k] \in clslist[h]
      BY <2>3, <3>1 DEF IInv, LoadedInv
    <3>3. h # i
      BY <1>1, <3>1, <3>2 DEF Unused
    <3>. QED
      BY <1>1, <3>2, <3>3
  <2>. QED
    BY <2>1, <2>2, <2>3 DEF LoadedInv
<1>14. Scheduled' = Scheduled \ Of(i)
  <2>1. ASSUME NEW k \in Category
        PROVE  (\E j \in images' : k \in catlist[j])
                   <=> (k \notin Of(i) /\ \E j \in images : k \in catlist[j])
    BY <1>1, <1>3, <1>4
  <2>2. Scheduled' = Loads \intersect
            ((RW_LOADED \ Of(i)) \union
             {k \in Category : /\ cls[k] # Nil /\ k \notin Range(todo)
                               /\ \E j \in images' : k \in catlist[j]})
    BY <1>1 DEF Scheduled
  <2>. QED
    BY <2>1, <2>2 DEF Scheduled
<1>15. Loadable' \ {Nil} = Loadable \ (Of(i) \union {Nil})
    BY <1>5, <1>6 DEF Loadable
<1>16. ListInv'
    BY <1>14, <1>15 DEF IInv, ListInv
<1>17. ASSUME Careful PROVE CallsInv' /\ OrderInv'
  <2>1. CallsInv /\ OrderInv
    BY <1>17 DEF IInv
  <2>2. Range(detached) \intersect Of(i) = {} /\ current \notin Of(i)
    BY <1>1, <1>17 DEF Unused
  <2>3. CallsInv'
    <3>1. ASSUME NEW x \in Item
          PROVE  IF calls'[x] = 0
                 THEN current # x /\ (x \in Scheduled' => x \in Range(detached) \union Loadable')
                 ELSE calls'[x] = 1 /\ x \in Scheduled' /\ x \notin Range(detached) \union Loadable'
      <4>1. x # Nil
        BY Items
      <4>2. CASE x \in Of(i)
        BY <1>7, <1>14, <2>2, <4>2
      <4>3. CASE x \notin Of(i)
        <5>1. calls'[x] = calls[x] /\ (x \in Scheduled' <=> x \in Scheduled)
              /\ (x \in Loadable' <=> x \in Loadable)
          BY <1>7, <1>14, <1>15, <4>1, <4>3
        <5>. QED
          BY <2>1, <5>1 DEF CallsInv
      <4>. QED
        BY <4>2, <4>3
    <3>2. Range(detached) \intersect Loadable' \subseteq {Nil}
      BY <1>15, <2>1 DEF CallsInv
    <3>3. Range(detached) \ {Nil} \subseteq Scheduled'
      BY <1>14, <2>1, <2>2 DEF CallsInv
    <3>. QED
      BY <1>1, <3>1, <3>2, <3>3 DEF CallsInv
  <2>4. ASSUME NEW c \in Class \intersect (Range(detached) \union {current})
        PROVE  Ancestors[c] \intersect Range(loadable_classes)' = {}
    <3>1. Nil \notin Ancestors[c]
      BY LoadAssumption DEF Ancestors
    <3>. QED
      BY <1>5, <2>1, <3>1 DEF OrderInv
  <2>5. ASSUME NEW k \in Category \intersect (Range(detached) \union {current}), cls[k] \in Loads
        PROVE  calls'[cls[k]] = 1
    <3>1. calls[cls[k]] = 1 /\ cls[k] \in Item
      BY <2>1, <2>5, Items DEF OrderInv
    <3>2. k \in Scheduled /\ k \notin Of(i)
      BY <2>1, <2>2, LoadAssumption, Items DEF CallsInv
    <3>3. PICK j \in images : k \in catlist[j]
      BY <3>2, ClassesLoaded
    <3>4. j # i
      BY <1>3, <3>2, <3>3
    <3>5. cls[k] \notin clslist[i]
      BY <1>1, <3>3, <3>4 DEF Unused
    <3>6. cls[k] \in Class \union {Nil} /\ cls[k] # Nil
      BY <3>1, LoadAssumption, Items
    <3>. QED
      BY <1>3, <1>7, <3>1, <3>5, <3>6
  <2>6. OrderInv'
    BY <1>1, <1>5, <2>1, <2>4, <2>5 DEF OrderInv
  <2>. QED
    BY <2>3, <2>6
<1>. QED
    BY <1>8, <1>9, <1>11, <1>13, <1>16, <1>17 DEF IInv

-----------------------------------------------------------------------------
(* Theorems *)

\* The initial states satisfy the invariant.
LEMMA InvInit == Init => IInv
<1>. SUFFICES ASSUME Init PROVE IInv
    OBVIOUS
<1>1. Range(<<>>) = {} /\ Once(<<>>) /\ Sorted(<<>>) /\ DOMAIN <<>> = {}
    BY EmptyOnce
<1>2. /\ images = {} /\ RW_LOADED = {} /\ loadable_classes = <<>> /\ loadable_categories = <<>>
      /\ todo = <<>> /\ phase = "idle" /\ detached = <<>> /\ current = Nil
      /\ calls = [x \in Item |-> 0] /\ maps = [j \in Image |-> 0]
    BY DEF Init
<1>3. TypeOK
  <2>1. maps \in [Image -> 0 .. MaxMaps] /\ calls \in [Item -> Nat]
    BY <1>2, LoadAssumption
  <2>2. /\ <<>> \in Seq(Class \union {Nil}) /\ <<>> \in Seq(Category \union {Nil})
        /\ <<>> \in Seq(Item) /\ <<>> \in Seq(Item \union {Nil})
    BY EmptySeq
  <2>. QED
    BY <1>1, <1>2, <2>1, <2>2 DEF TypeOK
<1>4. Scheduled = {} /\ Loadable = {}
    BY <1>1, <1>2 DEF Scheduled, Loadable
<1>5. PhaseInv /\ TodoInv /\ LoadedInv /\ ListInv
    BY <1>1, <1>2, <1>4 DEF PhaseInv, TodoInv, LoadedInv, ListInv
<1>6. CallsInv /\ OrderInv
  <2>1. Nil \notin Item /\ Nil \notin Class /\ Nil \notin Category
    BY LoadAssumption DEF Item
  <2>2. \A x \in Item : calls[x] = 0
    BY <1>2
  <2>3. CallsInv
    BY <1>1, <1>2, <1>4, <2>1, <2>2 DEF CallsInv
  <2>4. OrderInv
    BY <1>1, <1>2, <2>1 DEF OrderInv
  <2>. QED
    BY <2>3, <2>4
<1>. QED
    BY <1>3, <1>5, <1>6 DEF IInv

\* Every step preserves the invariant.
LEMMA InvNext == IInv /\ [Next]_vars => IInv'
<1>. SUFFICES ASSUME IInv, [Next]_vars PROVE IInv'
    OBVIOUS
<1>1. CASE Loop
    BY <1>1, DetachClassesStep, DetachCategoriesStep, SkipStep, CallLoadStep, ReturnsStep,
       EndClassesStep, EndCategoriesStep, ScheduleClassStep, ScheduleCategoryStep DEF Loop
<1>2. CASE \E i \in Image : load_images(i) \/ unmap_image(i)
    BY <1>2, LoadImagesStep, UnmapImageStep
<1>3. CASE UNCHANGED vars
  <2>1. /\ UNCHANGED <<images, maps, RW_LOADED, todo>>
        /\ UNCHANGED <<loadable_classes, loadable_categories, phase, detached, current, calls>>
    BY <1>3 DEF vars
  <2>2. TypeOK' /\ PhaseInv'
    BY <2>1 DEF IInv, TypeOK, PhaseInv
  <2>3. TodoInv' /\ LoadedInv' /\ Scheduled' = Scheduled /\ ListInv'
    BY <2>1, LoopStep DEF Loadable
  <2>4. Careful => CallsInv' /\ OrderInv'
    BY <2>1, <2>3, SameCalls DEF IInv
  <2>. QED
    BY <2>2, <2>3, <2>4 DEF IInv
<1>. QED
    BY <1>1, <1>2, <1>3 DEF Next

\* The invariant holds in every reachable state.
THEOREM Invariance == Spec => []IInv
BY InvInit, InvNext, PTL DEF Spec

\* The lists hold classes, or categories, and none of them twice, whatever image
\* is unmapped when.
THEOREM TypeCorrect == Spec => []TypeOK
<1>1. IInv => TypeOK
    BY DEF IInv
<1>. QED
    BY <1>1, Invariance, PTL

\* A superclass is loaded, and is neither in a list nor running.
LEMMA InvOrder == ASSUME Careful PROVE IInv => LoadOrder
<1>. SUFFICES ASSUME IInv PROVE LoadOrder
    OBVIOUS
<1>1. CallsInv /\ OrderInv /\ LoadedInv /\ RW_LOADED \subseteq Class
    BY DEF IInv, TypeOK
<1>2. ASSUME current \in Class, NEW a \in Ancestors[current], a \in Loads
      PROVE  calls[a] = 1 /\ current # a
  <2>1. current \in Item
    BY <1>2, Items
  <2>2. current \in RW_LOADED
    BY <1>1, <1>2, <2>1, ClassesLoaded DEF CallsInv
  <2>3. a \in RW_LOADED /\ a \in Class /\ a \in Item
    BY <1>1, <2>2, AncestorsLoaded, Items
  <2>4. a \in Scheduled
    BY <1>2, <2>3, ClassesLoaded
  <2>5. a \notin Range(loadable_classes) /\ a \notin Range(detached)
    BY <1>1, <1>2 DEF OrderInv
  <2>6. a \notin Range(loadable_categories)
    BY <2>3, Lists, Items
  <2>7. current # a
    BY <1>2, HierarchyAssumption
  <2>. QED
    BY <1>1, <2>3, <2>4, <2>5, <2>6, <2>7 DEF CallsInv, Loadable
<1>3. ASSUME current \in Category, cls[current] \in Loads
      PROVE  calls[cls[current]] = 1 /\ current # cls[current]
  <2>1. cls[current] \in Class
    BY <1>3, LoadAssumption, Items
  <2>. QED
    BY <1>1, <1>3, <2>1, Items DEF OrderInv
<1>. QED
    BY <1>2, <1>3 DEF LoadOrder, Returned

\* A +load method runs only when those of the superclasses, or of the class of the
\* category, have returned.
THEOREM SuperclassesFirst == ASSUME Careful PROVE Spec => []LoadOrder
BY InvOrder, Invariance, PTL

\* When the loop has ended there are no lists, so what was scheduled was sent +load.
LEMMA InvForgotten == ASSUME Careful PROVE IInv => NoneForgotten
<1>. SUFFICES ASSUME IInv PROVE NoneForgotten
    OBVIOUS
<1>1. CallsInv /\ OrderInv /\ LoadedInv /\ images \subseteq Image
    BY DEF IInv, TypeOK
<1>2. \A x \in Item : calls[x] = 0 \/ calls[x] = 1
    BY <1>1 DEF CallsInv
<1>3. ASSUME phase = "idle", NEW i \in images, NEW x \in Of(i), x \in Loads,
             ~(x \in Category /\ cls[x] = Nil)
      PROVE  calls[x] = 1
  <2>1. /\ loadable_classes = <<>> /\ loadable_categories = <<>> /\ todo = <<>>
        /\ detached = <<>>
    BY <1>3 DEF IInv, PhaseInv
  <2>2. Range(todo) = {} /\ Range(detached) = {} /\ Loadable = {}
    BY <2>1, EmptyOnce DEF Loadable
  <2>3. x \in Item
    BY <1>3, Items
  <2>4. x \in Scheduled
    <3>1. CASE x \in clslist[i]
      <4>1. x \in RW_LOADED /\ x \in Class
        BY <1>1, <1>3, <2>2, <3>1, Items DEF LoadedInv
      <4>. QED
        BY <1>3, <4>1, ClassesLoaded
    <3>2. CASE x \in catlist[i]
      <4>1. x \in Category
        BY <1>1, <3>2, Items
      <4>. QED
        BY <1>3, <2>2, <3>2, <4>1, ClassesLoaded
    <3>. QED
      BY <3>1, <3>2 DEF Of
  <2>. QED
    BY <1>1, <2>2, <2>3, <2>4 DEF CallsInv
<1>. QED
    BY <1>2, <1>3 DEF NoneForgotten

\* No +load method is forgotten, and none is called twice.
THEOREM EachLoadOnce == ASSUME Careful PROVE Spec => []NoneForgotten
BY InvForgotten, Invariance, PTL
=============================================================================
