----------------------- MODULE AutoreleasePoolRefinement -----------------------
(***************************************************************************)
(* AutoreleasePool.tla implements PoolStack.tla for any objects, size of a *)
(* page, modes and depth of pops: clients find one stack of entries,       *)
(* whatever pages it is cut into.                                          *)
(*                                                                         *)
(* The entries of the pages are put together, and those below a token are  *)
(* counted, by functions of the number of pages.  That there are such      *)
(* functions, and what they give, is shown by induction up to that number, *)
(* an argument about the least member of a set of numbers (Smallest,       *)
(* Upwards).  Then every action is a step of the stack, or none.           *)
(***************************************************************************)
EXTENDS AutoreleasePoolProofs

-----------------------------------------------------------------------------
(* Sequences of pages put together *)

\* A set of numbers has a least member.
LEMMA Smallest ==
    ASSUME NEW S \in SUBSET Nat, S # {}
    PROVE  \E x \in S : \A y \in S : x <= y
<1>. DEFINE To(x) == S \intersect (0 .. x)
            T == {To(x) : x \in S}
<1>1. ASSUME NEW x \in S PROVE To(x) \in FiniteSubsetsOf(S)
  <2>1. IsFiniteSet(0 .. x)
    BY FS_Interval
  <2>2. IsFiniteSet(To(x))
    BY <2>1, FS_Subset
  <2>. QED
    BY <2>2 DEF FiniteSubsetsOf
<1>2. T \subseteq FiniteSubsetsOf(S) /\ T # {}
    BY <1>1
<1>3. IsWellFoundedOn(StrictSubsetOrdering(S), FiniteSubsetsOf(S))
    BY FS_StrictSubsetOrderingWellFounded
<1>4. PICK B \in T : \A C \in T : ~(<<C, B>> \in StrictSubsetOrdering(S))
    BY <1>2, <1>3, WFMin
<1>5. PICK x \in S : B = To(x)
    BY <1>4
<1>6. ASSUME NEW y \in S, ~(x <= y) PROVE FALSE
  <2>1. To(y) \subseteq To(x) /\ x \in To(x) /\ x \notin To(y)
    BY <1>6
  <2>2. <<To(y), To(x)>> \in StrictSubsetOrdering(S)
    BY <2>1 DEF StrictSubsetOrdering
  <2>. QED
    BY <1>4, <1>5, <2>2
<1>. QED
    BY <1>6

\* Induction from m up, for a set of numbers.
LEMMA Upwards ==
    ASSUME NEW S \in SUBSET Nat, NEW m \in S, NEW n \in Nat,
           \A i \in m .. n - 1 : i \in S => i + 1 \in S
    PROVE  m .. n \subseteq S
<1>. DEFINE Out == {i \in m .. n : i \notin S}
<1>. SUFFICES ASSUME Out # {} PROVE FALSE
    OBVIOUS
<1>1. Out \in SUBSET Nat
    OBVIOUS
<1>2. PICK x \in Out : \A y \in Out : x <= y
    BY <1>1, Smallest
<1>3. x \in Nat /\ x > m /\ x - 1 \in m .. n - 1 /\ x - 1 \in m .. n
    OBVIOUS
<1>4. x - 1 \in S
    BY <1>2, <1>3
<1>5. (x - 1) + 1 \in S
    BY <1>3, <1>4
<1>. QED
    BY <1>3, <1>5

\* How many entries the first pages hold, and which: the functions that Depth and
\* FlattenSeq are made of.
Sums(ps) ==
    LET below[p \in 0 .. Len(ps)] ==
            IF p = 0 THEN 0 ELSE below[p - 1] + Len(ps[p])
    IN  below
Joins(ps) ==
    LET flatten[i \in 1 .. Len(ps)] ==
            IF i = 1 THEN ps[i] ELSE flatten[i - 1] \o ps[i]
    IN  flatten

\* The depth of a token is the sum of the lengths of the pages before it, and its place.
LEMMA DepthIsSum ==
    ASSUME NEW token
    PROVE  Depth(token) = IF token = Placeholder THEN 0
                          ELSE Sums(pages)[token.page - 1] + token.index - 1
BY DEF Depth, Sums

\* FlattenSeq gives the last of the joins.
LEMMA FlatIsJoin ==
    ASSUME NEW ps
    PROVE  FlattenSeq(ps) = IF Len(ps) = 0 THEN ps ELSE Joins(ps)[Len(ps)]
BY DEF FlattenSeq, Joins

\* There is a function as Sums says, so Sums is one.
LEMMA SumsExist ==
    ASSUME NEW ps \in Seq(Seq(Entry))
    PROVE  Sums(ps) = [p \in 0 .. Len(ps) |-> IF p = 0 THEN 0 ELSE Sums(ps)[p - 1] + Len(ps[p])]
<1>. DEFINE Good(n, g) == g = [p \in 0 .. n |-> IF p = 0 THEN 0 ELSE g[p - 1] + Len(ps[p])]
            S == {n \in Nat : \E g : Good(n, g)}
<1>1. S \in SUBSET Nat
    OBVIOUS
<1>2. 0 \in S
  <2>1. Good(0, [p \in 0 .. 0 |-> 0])
    OBVIOUS
  <2>. QED
    BY <2>1
<1>3. ASSUME NEW n \in 0 .. Len(ps) - 1, n \in S PROVE n + 1 \in S
  <2>1. n \in Nat
    BY <1>3
  <2>2. PICK g : Good(n, g)
    BY <1>3
  <2>3. PICK h : h = [p \in 0 .. n + 1 |-> IF p <= n THEN g[p] ELSE g[n] + Len(ps[n + 1])]
    OBVIOUS
  <2>4. ASSUME NEW p \in 0 .. n + 1
        PROVE  h[p] = IF p = 0 THEN 0 ELSE h[p - 1] + Len(ps[p])
    <3>1. CASE p = 0
        BY <2>1, <2>2, <2>3, <3>1
    <3>2. CASE p \in 1 .. n
        BY <2>1, <2>2, <2>3, <3>2
    <3>3. CASE p = n + 1
        BY <2>1, <2>2, <2>3, <3>3
    <3>. QED
        BY <2>1, <3>1, <3>2, <3>3
  <2>5. Good(n + 1, h)
    <3>1. h = [p \in 0 .. n + 1 |-> h[p]]
        BY <2>3
    <3>. QED
        BY <2>4, <3>1
  <2>6. n + 1 \in Nat
    BY <2>1
  <2>. HIDE DEF Good
  <2>. QED
    BY <2>5, <2>6
<1>4. Len(ps) \in Nat
    BY Elements
<1>5. Len(ps) \in S
  <2>. HIDE DEF S
  <2>1. 0 .. Len(ps) \subseteq S
    BY <1>1, <1>2, <1>3, <1>4, Upwards
  <2>. QED
    BY <1>4, <2>1
<1>6. \E g : Good(Len(ps), g)
    BY <1>5
<1>7. Good(Len(ps), CHOOSE g : Good(Len(ps), g))
  <2>. HIDE DEF Good
  <2>. QED
    BY <1>6
<1>. QED
    BY <1>7 DEF Sums

\* There is a function as Joins says, so Joins is one.
LEMMA JoinsExist ==
    ASSUME NEW ps \in Seq(Seq(Entry))
    PROVE  Joins(ps) = [i \in 1 .. Len(ps) |-> IF i = 1 THEN ps[i] ELSE Joins(ps)[i - 1] \o ps[i]]
<1>. DEFINE Good(n, g) == g = [i \in 1 .. n |-> IF i = 1 THEN ps[i] ELSE g[i - 1] \o ps[i]]
            S == {n \in Nat : \E g : Good(n, g)}
<1>1. S \in SUBSET Nat
    OBVIOUS
<1>2. 0 \in S
  <2>1. Good(0, [i \in 1 .. 0 |-> 0])
    OBVIOUS
  <2>. QED
    BY <2>1
<1>3. ASSUME NEW n \in 0 .. Len(ps) - 1, n \in S PROVE n + 1 \in S
  <2>1. n \in Nat
    BY <1>3
  <2>2. PICK g : Good(n, g)
    BY <1>3
  <2>3. PICK h : h = [i \in 1 .. n + 1 |->
                          IF i <= n THEN g[i] ELSE IF i = 1 THEN ps[i] ELSE g[n] \o ps[i]]
    OBVIOUS
  <2>4. ASSUME NEW i \in 1 .. n + 1
        PROVE  h[i] = IF i = 1 THEN ps[i] ELSE h[i - 1] \o ps[i]
    <3>1. CASE i \in 1 .. n
        <4>1. g[i] = IF i = 1 THEN ps[i] ELSE g[i - 1] \o ps[i]
            BY <2>2, <3>1
        <4>2. h[i] = g[i]
            BY <2>1, <2>3, <3>1
        <4>3. i # 1 => h[i - 1] = g[i - 1]
            BY <2>1, <2>3, <3>1
        <4>. QED
            BY <4>1, <4>2, <4>3
    <3>2. CASE i = n + 1
        BY <2>1, <2>2, <2>3, <3>2
    <3>. QED
        BY <2>1, <3>1, <3>2
  <2>5. Good(n + 1, h)
    <3>1. h = [i \in 1 .. n + 1 |-> h[i]]
        BY <2>3
    <3>. QED
        BY <2>4, <3>1
  <2>6. n + 1 \in Nat
    BY <2>1
  <2>. HIDE DEF Good
  <2>. QED
    BY <2>5, <2>6
<1>4. Len(ps) \in Nat
    BY Elements
<1>5. Len(ps) \in S
  <2>. HIDE DEF S
  <2>1. 0 .. Len(ps) \subseteq S
    BY <1>1, <1>2, <1>3, <1>4, Upwards
  <2>. QED
    BY <1>4, <2>1
<1>6. \E g : Good(Len(ps), g)
    BY <1>5
<1>7. Good(Len(ps), CHOOSE g : Good(Len(ps), g))
  <2>. HIDE DEF Good
  <2>. QED
    BY <1>6
<1>. QED
    BY <1>7 DEF Joins

\* The entries of the first n pages.
Joined(ps, n) == IF n = 0 THEN <<>> ELSE Joins(ps)[n]

\* They are entries, those of a page after those of the pages before it.
LEMMA JoinedPages ==
    ASSUME NEW ps \in Seq(Seq(Entry))
    PROVE  /\ Joined(ps, 0) = <<>>
           /\ \A n \in 0 .. Len(ps) : Joined(ps, n) \in Seq(Entry)
           /\ \A n \in 1 .. Len(ps) : Joined(ps, n) = Joined(ps, n - 1) \o ps[n]
<1>1. Len(ps) \in Nat /\ \A n \in 1 .. Len(ps) : ps[n] \in Seq(Entry)
    BY Elements
<1>2. Joined(ps, 0) = <<>> /\ Joined(ps, 0) \in Seq(Entry)
    BY EmptySeq DEF Joined
<1>3. ASSUME NEW n \in 1 .. Len(ps) PROVE Joined(ps, n) = Joined(ps, n - 1) \o ps[n]
  <2>1. Joins(ps)[n] = IF n = 1 THEN ps[n] ELSE Joins(ps)[n - 1] \o ps[n]
    BY JoinsExist
  <2>2. CASE n = 1
    <3>1. <<>> \o ps[1] = ps[1]
        BY <1>1, <2>2, ConcatEmptySeq
    <3>. QED
        BY <2>1, <2>2, <3>1 DEF Joined
  <2>3. CASE n # 1
    <3>1. n # 0 /\ n - 1 # 0
        BY <1>1, <2>3
    <3>2. Joined(ps, n) = Joins(ps)[n] /\ Joined(ps, n - 1) = Joins(ps)[n - 1]
        BY <3>1 DEF Joined
    <3>. QED
        BY <2>1, <2>3, <3>2
  <2>. QED
    BY <2>2, <2>3
<1>. DEFINE S == {n \in Nat : Joined(ps, n) \in Seq(Entry)}
<1>4. ASSUME NEW n \in 0 .. Len(ps) - 1, n \in S PROVE n + 1 \in S
  <2>1. n + 1 \in 1 .. Len(ps) /\ n + 1 \in Nat /\ (n + 1) - 1 = n
    BY <1>1
  <2>2. Joined(ps, n + 1) = Joined(ps, n) \o ps[n + 1]
    BY <1>3, <2>1
  <2>3. Joined(ps, n) \o ps[n + 1] \in Seq(Entry)
    BY <1>1, <1>4, <2>1, ConcatProperties
  <2>. QED
    BY <2>1, <2>2, <2>3
<1>5. S \in SUBSET Nat /\ 0 \in S
    BY <1>2
<1>6. 0 .. Len(ps) \subseteq S
  <2>. HIDE DEF S
  <2>. QED
    BY <1>1, <1>4, <1>5, Upwards
<1>. QED
    BY <1>2, <1>3, <1>6

\* FlattenSeq joins all the pages.
LEMMA FlatIsJoined ==
    ASSUME NEW ps \in Seq(Seq(Entry))
    PROVE  FlattenSeq(ps) = Joined(ps, Len(ps))
BY Elements, FlatIsJoin DEF Joined

\* Depth counts them.
LEMMA SumsAreLengths ==
    ASSUME NEW ps \in Seq(Seq(Entry)), NEW m \in 0 .. Len(ps)
    PROVE  Sums(ps)[m] = Len(Joined(ps, m))
<1>1. Len(ps) \in Nat /\ \A n \in 1 .. Len(ps) : ps[n] \in Seq(Entry)
    BY Elements
<1>. DEFINE S == {n \in Nat : Sums(ps)[n] = Len(Joined(ps, n))}
<1>2. S \in SUBSET Nat
    OBVIOUS
<1>3. 0 \in S
  <2>1. Sums(ps)[0] = 0
    <3>1. 0 \in 0 .. Len(ps)
        BY <1>1
    <3>. QED
        BY <3>1, SumsExist
  <2>2. Len(Joined(ps, 0)) = 0
    BY DEF Joined
  <2>. QED
    BY <2>1, <2>2
<1>4. ASSUME NEW n \in 0 .. Len(ps) - 1, n \in S PROVE n + 1 \in S
  <2>1. n + 1 \in 1 .. Len(ps) /\ n + 1 \in 0 .. Len(ps) /\ n + 1 # 0 /\ n + 1 \in Nat
        /\ (n + 1) - 1 = n /\ n \in 0 .. Len(ps)
    BY <1>1
  <2>2. Sums(ps)[n + 1] = Sums(ps)[n] + Len(ps[n + 1])
    BY <2>1, SumsExist
  <2>3. Joined(ps, n + 1) = Joined(ps, n) \o ps[n + 1] /\ Joined(ps, n) \in Seq(Entry)
    BY <2>1, JoinedPages
  <2>4. Len(Joined(ps, n) \o ps[n + 1]) = Len(Joined(ps, n)) + Len(ps[n + 1])
    BY <1>1, <2>1, <2>3, ConcatProperties
  <2>. QED
    BY <1>4, <2>1, <2>2, <2>3, <2>4
<1>5. 0 .. Len(ps) \subseteq S
  <2>. HIDE DEF S
  <2>. QED
    BY <1>1, <1>2, <1>3, <1>4, Upwards
<1>. QED
    BY <1>5

\* What the first pages hold does not depend on those after them.
LEMMA SameJoined ==
    ASSUME NEW ps \in Seq(Seq(Entry)), NEW qs \in Seq(Seq(Entry)),
           NEW m \in 0 .. Len(ps), m \in 0 .. Len(qs), \A p \in 1 .. m : ps[p] = qs[p],
           NEW n \in 0 .. m
    PROVE  Joined(ps, n) = Joined(qs, n)
<1>1. Len(ps) \in Nat /\ Len(qs) \in Nat /\ m \in Nat
    BY Elements
<1>. DEFINE S == {k \in Nat : Joined(ps, k) = Joined(qs, k)}
<1>2. S \in SUBSET Nat
    OBVIOUS
<1>3. 0 \in S
    BY DEF Joined
<1>4. ASSUME NEW k \in 0 .. m - 1, k \in S PROVE k + 1 \in S
  <2>1. k + 1 \in 1 .. m /\ k + 1 \in 1 .. Len(ps) /\ k + 1 \in 1 .. Len(qs) /\ k + 1 \in Nat
        /\ (k + 1) - 1 = k
    BY <1>1
  <2>2. Joined(ps, k + 1) = Joined(ps, k) \o ps[k + 1]
    BY <2>1, JoinedPages
  <2>3. Joined(qs, k + 1) = Joined(qs, k) \o qs[k + 1]
    BY <2>1, JoinedPages
  <2>. QED
    BY <1>4, <2>1, <2>2, <2>3
<1>5. 0 .. m \subseteq S
  <2>. HIDE DEF S
  <2>. QED
    BY <1>1, <1>2, <1>3, <1>4, Upwards
<1>. QED
    BY <1>5

\* Empty pages at the end add nothing.
LEMMA EmptyEnd ==
    ASSUME NEW ps \in Seq(Seq(Entry)), NEW m \in 0 .. Len(ps),
           \A p \in m + 1 .. Len(ps) : Len(ps[p]) = 0
    PROVE  FlattenSeq(ps) = Joined(ps, m)
<1>1. Len(ps) \in Nat /\ m \in Nat
    BY Elements
<1>. DEFINE S == {k \in Nat : Joined(ps, k) = Joined(ps, m)}
<1>2. S \in SUBSET Nat /\ m \in S
    BY <1>1
<1>4. ASSUME NEW k \in m .. Len(ps) - 1, k \in S PROVE k + 1 \in S
  <2>1. /\ k + 1 \in 1 .. Len(ps) /\ k + 1 \in m + 1 .. Len(ps) /\ k + 1 \in Nat
        /\ (k + 1) - 1 = k /\ k \in 0 .. Len(ps)
    BY <1>1
  <2>2. Joined(ps, k + 1) = Joined(ps, k) \o ps[k + 1] /\ Joined(ps, k) \in Seq(Entry)
    BY <2>1, JoinedPages
  <2>3. ps[k + 1] = <<>>
    BY <2>1, Elements
  <2>4. Joined(ps, k) \o <<>> = Joined(ps, k)
    BY <2>2, ConcatEmptySeq
  <2>. QED
    BY <1>4, <2>1, <2>2, <2>3, <2>4
<1>5. m .. Len(ps) \subseteq S
  <2>. HIDE DEF S
  <2>. QED
    BY <1>1, <1>2, <1>4, Upwards
<1>6. Len(ps) \in m .. Len(ps)
    BY <1>1
<1>. QED
    BY <1>5, <1>6, FlatIsJoined

\* More pages hold no fewer entries.
LEMMA JoinedGrows ==
    ASSUME NEW ps \in Seq(Seq(Entry)), NEW m \in 0 .. Len(ps), NEW n \in m .. Len(ps)
    PROVE  Len(Joined(ps, m)) <= Len(Joined(ps, n))
<1>1. Len(ps) \in Nat /\ m \in Nat
    BY Elements
<1>. DEFINE S == {k \in Nat : Len(Joined(ps, m)) <= Len(Joined(ps, k))}
<1>2. \A k \in 0 .. Len(ps) : Len(Joined(ps, k)) \in Nat
    BY JoinedPages, Elements
<1>3. S \in SUBSET Nat /\ m \in S
    BY <1>1, <1>2
<1>4. ASSUME NEW k \in m .. Len(ps) - 1, k \in S PROVE k + 1 \in S
  <2>1. /\ k + 1 \in 1 .. Len(ps) /\ k + 1 \in Nat /\ (k + 1) - 1 = k /\ k \in 0 .. Len(ps)
    BY <1>1
  <2>2. Joined(ps, k + 1) = Joined(ps, k) \o ps[k + 1] /\ Joined(ps, k) \in Seq(Entry)
    BY <2>1, JoinedPages
  <2>3. ps[k + 1] \in Seq(Entry) /\ Len(ps[k + 1]) \in Nat
    BY <2>1, Elements
  <2>4. Len(Joined(ps, k) \o ps[k + 1]) = Len(Joined(ps, k)) + Len(ps[k + 1])
    BY <2>2, <2>3, ConcatProperties
  <2>. QED
    BY <1>2, <1>4, <2>1, <2>2, <2>3, <2>4
<1>5. m .. Len(ps) \subseteq S
  <2>. HIDE DEF S
  <2>. QED
    BY <1>1, <1>3, <1>4, Upwards
<1>. QED
    BY <1>5

\* To append to the second of two sequences is to append to both.
LEMMA ConcatAppend ==
    ASSUME NEW T, NEW j \in Seq(T), NEW s \in Seq(T), NEW e \in T
    PROVE  j \o Append(s, e) = Append(j \o s, e)
<1>1. PICK x : x = <<e>>
    OBVIOUS
<1>2. x \in Seq(T)
    BY <1>1
<1>3. Append(s, e) = s \o x
    BY <1>1, AppendIsConcat
<1>4. j \o s \in Seq(T)
    BY ConcatProperties
<1>5. Append(j \o s, e) = (j \o s) \o x
    BY <1>1, <1>4, AppendIsConcat
<1>6. (j \o s) \o x = j \o (s \o x)
    BY <1>2, ConcatAssociative
<1>. QED
    BY <1>3, <1>5, <1>6

\* An entry at the end of the last page that is used is at the end of them all.
LEMMA EntryAtEnd ==
    ASSUME NEW ps \in Seq(Seq(Entry)), NEW qs \in Seq(Seq(Entry)), NEW u \in 1 .. Len(qs),
           NEW s \in Seq(Entry), NEW e \in Entry, qs[u] = Append(s, e),
           u - 1 <= Len(ps), \A p \in 1 .. u - 1 : qs[p] = ps[p],
           u <= Len(ps) => s = ps[u], u > Len(ps) => s = <<>>,
           \A p \in u + 1 .. Len(ps) : Len(ps[p]) = 0,
           \A p \in u + 1 .. Len(qs) : Len(qs[p]) = 0
    PROVE  /\ FlattenSeq(qs) = Append(FlattenSeq(ps), e)
           /\ Len(FlattenSeq(ps)) = Len(Joined(ps, u - 1)) + Len(s)
           /\ FlattenSeq(ps) \in Seq(Entry)
<1>1. Len(ps) \in Nat /\ Len(qs) \in Nat /\ u \in Nat /\ u - 1 \in 0 .. Len(ps)
      /\ u - 1 \in 0 .. Len(qs) /\ u \in 0 .. Len(qs)
    BY Elements
<1>2. PICK j : j = Joined(ps, u - 1)
    OBVIOUS
<1>3. j \in Seq(Entry) /\ Len(j) \in Nat /\ Len(s) \in Nat
    BY <1>1, <1>2, JoinedPages, Elements
<1>4. Joined(qs, u - 1) = j
  <2>1. u - 1 \in 0 .. u - 1 /\ \A p \in 1 .. u - 1 : ps[p] = qs[p]
    BY <1>1
  <2>. QED
    BY <1>1, <1>2, <2>1, SameJoined
<1>5. FlattenSeq(qs) = j \o Append(s, e)
  <2>1. FlattenSeq(qs) = Joined(qs, u)
    BY <1>1, EmptyEnd
  <2>2. Joined(qs, u) = Joined(qs, u - 1) \o qs[u]
    BY JoinedPages
  <2>. QED
    BY <1>4, <2>1, <2>2
<1>6. FlattenSeq(ps) = j \o s
  <2>1. CASE u <= Len(ps)
    <3>1. u \in 1 .. Len(ps) /\ u \in 0 .. Len(ps)
        BY <1>1, <2>1
    <3>2. FlattenSeq(ps) = Joined(ps, u)
        BY <3>1, EmptyEnd
    <3>3. Joined(ps, u) = Joined(ps, u - 1) \o ps[u]
        BY <3>1, JoinedPages
    <3>. QED
        BY <1>2, <2>1, <3>2, <3>3
  <2>2. CASE ~(u <= Len(ps))
    <3>1. u - 1 = Len(ps) /\ s = <<>>
        BY <1>1, <2>2
    <3>2. FlattenSeq(ps) = j
        BY <1>2, <3>1, FlatIsJoined
    <3>3. j \o <<>> = j
        BY <1>3, ConcatEmptySeq
    <3>. QED
        BY <3>1, <3>2, <3>3
  <2>. QED
    BY <2>1, <2>2
<1>7. j \o Append(s, e) = Append(j \o s, e)
    BY <1>3, ConcatAppend
<1>8. j \o s \in Seq(Entry) /\ Len(j \o s) = Len(j) + Len(s)
    BY <1>3, ConcatProperties
<1>. QED
    BY <1>2, <1>5, <1>6, <1>7, <1>8

-----------------------------------------------------------------------------
(* What the clients see *)

\* The stack, the depths of the open pools, and the pops, as PoolStack knows them.
Entries == IF tls = EMPTY_POOL_PLACEHOLDER THEN <<POOL_BOUNDARY>> ELSE FlattenSeq(pages)
Opens == [k \in 1 .. Len(tokens) |-> Depth(tokens[k])]
Drains == [i \in 1 .. Len(frames) |->
              [stop |-> Depth([page |-> frames[i].page, index |-> frames[i].stop + 1]),
               base |-> frames[i].base, callback |-> frames[i].callback]]
Drain == [stop : Int, base : Nat, callback : BOOLEAN]

\* The depth of a token among given pages.
DepthIn(ps, token) ==
    IF token = Placeholder THEN 0 ELSE Len(Joined(ps, token.page - 1)) + token.index - 1

\* Depth is that of the current pages.
LEMMA DepthIs ==
    ASSUME pages \in Seq(Seq(Entry)), NEW token,
           token = Placeholder \/ token.page - 1 \in 0 .. Len(pages)
    PROVE  Depth(token) = DepthIn(pages, token)
<1>1. CASE token = Placeholder
    BY <1>1, DepthIsSum DEF DepthIn
<1>2. CASE token # Placeholder
  <2>1. Sums(pages)[token.page - 1] = Len(Joined(pages, token.page - 1))
    BY <1>2, SumsAreLengths
  <2>. QED
    BY <1>2, <2>1, DepthIsSum DEF DepthIn
<1>. QED
    BY <1>1, <1>2

\* The pages of tokens and pops.
LEMMA PagesOf ==
    IInv => /\ \A k \in 1 .. Len(tokens) : tokens[k] = Placeholder \/ tokens[k].page \in 1 .. tls
            /\ \A i \in 1 .. Len(frames) : frames[i].page \in 1 .. tls
            /\ tls \in 1 .. Len(pages) \/ (tls < 1 /\ frames = <<>> /\ pages = <<>>)
          /\ tls \in Int
<1>. SUFFICES ASSUME IInv
              PROVE  /\ \A k \in 1 .. Len(tokens) : tokens[k] = Placeholder \/ tokens[k].page \in 1 .. tls
                     /\ \A i \in 1 .. Len(frames) : frames[i].page \in 1 .. tls
                     /\ tls \in 1 .. Len(pages) \/ (tls < 1 /\ frames = <<>> /\ pages = <<>>)
                     /\ tls \in Int
    OBVIOUS
<1>1. tls \in Int /\ Len(pages) \in Nat
    BY Typed DEF IInv
<1>2. ASSUME NEW i \in 1 .. Len(frames) PROVE frames[i].page \in 1 .. tls
  <2>1. PICK p \in Nat \ {0} : p = frames[i].page
    BY Framed
  <2>2. p <= tls
    BY <2>1, Framed
  <2>. QED
    BY <1>1, <2>1, <2>2
<1>3. ASSUME NEW k \in 1 .. Len(tokens), tokens[k] # Placeholder PROVE tokens[k].page \in 1 .. tls
  <2>1. CASE tls >= 1
    BY <1>3, <2>1, Tokened DEF Pos
  <2>2. CASE tls < 1
    <3>1. tokens = IF tls = Nil THEN <<>> ELSE <<Placeholder>>
        BY <2>2, NoPage
    <3>2. tokens # <<>>
        BY Typed DEF IInv
    <3>3. tokens = <<Placeholder>>
        BY <3>1, <3>2
    <3>. QED
        BY <1>3, <3>3
  <2>. QED
    BY <1>1, <2>1, <2>2
<1>4. tls \in 1 .. Len(pages) \/ (tls < 1 /\ frames = <<>> /\ pages = <<>>)
    BY <1>1, Hot, NoPage
<1>. QED
    BY <1>1, <1>2, <1>3, <1>4

\* The stack is one of entries.
LEMMA EntriesAre ==
    IInv => Entries \in Seq(Entry)
<1>. SUFFICES ASSUME IInv PROVE Entries \in Seq(Entry)
    OBVIOUS
<1>1. pages \in Seq(Seq(Entry)) /\ Len(pages) \in Nat
    BY Typed DEF IInv, TypeOK
<1>2. FlattenSeq(pages) \in Seq(Entry)
  <2>1. Len(pages) \in 0 .. Len(pages)
    BY <1>1
  <2>. QED
    BY <1>1, <2>1, FlatIsJoined, JoinedPages
<1>3. <<POOL_BOUNDARY>> \in Seq(Entry)
    BY DEF Entry
<1>. QED
    BY <1>2, <1>3 DEF Entries

\* The depths of the pools that are open.
LEMMA OpensAre ==
    IInv => /\ Opens \in Seq(Int) /\ Len(Opens) = Len(tokens)
            /\ \A k \in 1 .. Len(tokens) : Opens[k] = DepthIn(pages, tokens[k])
<1>. SUFFICES ASSUME IInv
              PROVE  /\ Opens \in Seq(Int) /\ Len(Opens) = Len(tokens)
                     /\ \A k \in 1 .. Len(tokens) : Opens[k] = DepthIn(pages, tokens[k])
    OBVIOUS
<1>1. pages \in Seq(Seq(Entry)) /\ Len(pages) \in Nat /\ Len(tokens) \in Nat /\ tls \in Int
      /\ tls <= Len(pages)
    BY Typed DEF IInv, TypeOK
<1>2. ASSUME NEW k \in 1 .. Len(tokens)
      PROVE  Depth(tokens[k]) = DepthIn(pages, tokens[k]) /\ DepthIn(pages, tokens[k]) \in Int
  <2>1. tokens[k].page \in Nat /\ tokens[k].index \in Nat
    BY Typed DEF IInv
  <2>2. tokens[k] = Placeholder \/ tokens[k].page - 1 \in 0 .. Len(pages)
    BY <1>1, PagesOf
  <2>3. Depth(tokens[k]) = DepthIn(pages, tokens[k])
    BY <1>1, <2>2, DepthIs
  <2>4. tokens[k] # Placeholder => Len(Joined(pages, tokens[k].page - 1)) \in Nat
    BY <1>1, <2>2, JoinedPages, Elements
  <2>. QED
    BY <2>1, <2>3, <2>4 DEF DepthIn
<1>3. Opens = [k \in 1 .. Len(tokens) |-> DepthIn(pages, tokens[k])]
    BY <1>2 DEF Opens
<1>4. Opens \in [1 .. Len(tokens) -> Int]
    BY <1>2, <1>3
<1>5. Opens \in Seq(Int) /\ Len(Opens) = Len(tokens)
    BY <1>1, <1>4, IsASeq
<1>. QED
    BY <1>3, <1>5

\* The pops.
LEMMA DrainsAre ==
    IInv => /\ Drains \in Seq(Drain) /\ Len(Drains) = Len(frames)
            /\ \A i \in 1 .. Len(frames) :
                   /\ Drains[i] \in Drain
                   /\ Drains[i].stop = Len(Joined(pages, frames[i].page - 1)) + frames[i].stop
                   /\ Drains[i].base = frames[i].base
                   /\ Drains[i].callback = frames[i].callback
<1>. SUFFICES ASSUME IInv
              PROVE  /\ Drains \in Seq(Drain) /\ Len(Drains) = Len(frames)
                     /\ \A i \in 1 .. Len(frames) :
                            /\ Drains[i] \in Drain
                            /\ Drains[i].stop = Len(Joined(pages, frames[i].page - 1)) + frames[i].stop
                            /\ Drains[i].base = frames[i].base
                            /\ Drains[i].callback = frames[i].callback
    OBVIOUS
<1>1. pages \in Seq(Seq(Entry)) /\ Len(pages) \in Nat /\ Len(frames) \in Nat /\ tls \in Int
      /\ tls <= Len(pages)
    BY Typed DEF IInv, TypeOK
<1>2. ASSUME NEW i \in 1 .. Len(frames)
      PROVE  LET at == [page |-> frames[i].page, index |-> frames[i].stop + 1]
             IN  /\ Depth(at) = Len(Joined(pages, frames[i].page - 1)) + frames[i].stop
                 /\ Depth(at) \in Int
  <2>. DEFINE at == [page |-> frames[i].page, index |-> frames[i].stop + 1]
  <2>1. frames[i].page \in Nat \ {0} /\ frames[i].stop \in Nat
    BY Typed DEF IInv
  <2>2. at.page = frames[i].page /\ at.index = frames[i].stop + 1 /\ at # Placeholder
    BY <2>1 DEF Placeholder
  <2>. HIDE DEF at
  <2>3. at.page - 1 \in 0 .. Len(pages)
    BY <1>1, <2>2, PagesOf
  <2>4. Depth(at) = Len(Joined(pages, frames[i].page - 1)) + (frames[i].stop + 1) - 1
    BY <1>1, <2>2, <2>3, DepthIs DEF DepthIn
  <2>5. Len(Joined(pages, frames[i].page - 1)) \in Nat
    BY <1>1, <2>2, <2>3, JoinedPages, Elements
  <2>6. Depth(at) = Len(Joined(pages, frames[i].page - 1)) + frames[i].stop /\ Depth(at) \in Int
    BY <2>1, <2>4, <2>5
  <2>. QED
    BY <2>6 DEF at
<1>3. ASSUME NEW i \in 1 .. Len(frames)
      PROVE  /\ Drains[i] \in Drain
             /\ Drains[i].stop = Len(Joined(pages, frames[i].page - 1)) + frames[i].stop
             /\ Drains[i].base = frames[i].base
             /\ Drains[i].callback = frames[i].callback
  <2>1. frames[i].base \in Nat /\ frames[i].callback \in BOOLEAN
    BY Typed DEF IInv
  <2>2. PICK d : d = Depth([page |-> frames[i].page, index |-> frames[i].stop + 1])
    OBVIOUS
  <2>3. d = Len(Joined(pages, frames[i].page - 1)) + frames[i].stop /\ d \in Int
    BY <1>2, <2>2
  <2>4. Drains[i] = [stop |-> d, base |-> frames[i].base, callback |-> frames[i].callback]
    BY <2>2 DEF Drains
  <2>. QED
    BY <2>1, <2>3, <2>4 DEF Drain
<1>4. Drains \in [1 .. Len(frames) -> Drain]
  <2>1. Drains = [i \in 1 .. Len(frames) |-> Drains[i]]
    BY DEF Drains
  <2>. QED
    BY <1>3, <2>1
<1>5. Drains \in Seq(Drain) /\ Len(Drains) = Len(frames)
    BY <1>1, <1>4, IsASeq
<1>. QED
    BY <1>3, <1>5

\* All this holds of the next state.
LEMMA NextSeen ==
    IInv' =>
        /\ \A k \in 1 .. Len(tokens') : tokens'[k] = Placeholder \/ tokens'[k].page \in 1 .. tls'
        /\ \A i \in 1 .. Len(frames') : frames'[i].page \in 1 .. tls'
        /\ tls' \in Int
        /\ Entries' \in Seq(Entry)
        /\ Opens' \in Seq(Int) /\ Len(Opens') = Len(tokens')
        /\ \A k \in 1 .. Len(tokens') : Opens'[k] = DepthIn(pages', tokens'[k])
        /\ Drains' \in Seq(Drain) /\ Len(Drains') = Len(frames')
        /\ \A i \in 1 .. Len(frames') :
               /\ Drains'[i] \in Drain
               /\ Drains'[i].stop = Len(Joined(pages', frames'[i].page - 1)) + frames'[i].stop
               /\ Drains'[i].base = frames'[i].base
               /\ Drains'[i].callback = frames'[i].callback
<1>1. (IInv => /\ \A k \in 1 .. Len(tokens) : tokens[k] = Placeholder \/ tokens[k].page \in 1 .. tls
               /\ \A i \in 1 .. Len(frames) : frames[i].page \in 1 .. tls
               /\ tls \in 1 .. Len(pages) \/ (tls < 1 /\ frames = <<>> /\ pages = <<>>)
               /\ tls \in Int)'
    BY PagesOf, PTL
<1>2. (IInv => Entries \in Seq(Entry))'
    BY EntriesAre, PTL
<1>3. (IInv => /\ Opens \in Seq(Int) /\ Len(Opens) = Len(tokens)
               /\ \A k \in 1 .. Len(tokens) : Opens[k] = DepthIn(pages, tokens[k]))'
    BY OpensAre, PTL
<1>4. (IInv => /\ Drains \in Seq(Drain) /\ Len(Drains) = Len(frames)
               /\ \A i \in 1 .. Len(frames) :
                      /\ Drains[i] \in Drain
                      /\ Drains[i].stop = Len(Joined(pages, frames[i].page - 1)) + frames[i].stop
                      /\ Drains[i].base = frames[i].base
                      /\ Drains[i].callback = frames[i].callback)'
    BY DrainsAre, PTL
<1>. QED
    BY <1>1, <1>2, <1>3, <1>4

\* The innermost pop.
LEMMA TopSeen ==
    ASSUME IInv
    PROVE  /\ Len(Drains) = Len(frames) /\ Len(frames) \in Nat /\ (Drains = <<>> <=> frames = <<>>)
           /\ frames # <<>> =>
                  /\ Len(frames) \in 1 .. Len(frames) /\ Top = frames[Len(frames)]
                  /\ Drains[Len(Drains)].callback = Top.callback
                  /\ Drains[Len(Drains)].base = Top.base
                  /\ Drains[Len(Drains)].stop = Len(Joined(pages, Top.page - 1)) + Top.stop
           /\ Client => (Drains # <<>> => Drains[Len(Drains)].callback)
           /\ Releasing => Drains # <<>> /\ ~Drains[Len(Drains)].callback
<1>1. /\ Drains \in Seq(Drain) /\ Len(Drains) = Len(frames)
      /\ \A i \in 1 .. Len(frames) :
             /\ Drains[i].stop = Len(Joined(pages, frames[i].page - 1)) + frames[i].stop
             /\ Drains[i].base = frames[i].base
             /\ Drains[i].callback = frames[i].callback
    BY DrainsAre
<1>2. Len(frames) \in Nat /\ (frames = <<>> <=> Len(frames) = 0)
    BY Typed DEF IInv
<1>3. Drains = <<>> <=> frames = <<>>
    BY <1>1, <1>2, Elements
<1>4. frames # <<>> => Len(frames) \in 1 .. Len(frames) /\ Top = frames[Len(frames)]
    BY <1>2 DEF Top
<1>. QED
    BY <1>1, <1>2, <1>3, <1>4 DEF Client, Releasing

\* The first m pages stay as they are.
Agree(m) ==
    /\ m \in 0 .. Len(pages) /\ m \in 0 .. Len(pages')
    /\ \A p \in 1 .. m : pages[p] = pages'[p]

\* Pools and pops that stay are where they were, if the hot page is not beyond what changes.
LEMMA Kept ==
    ASSUME IInv, IInv', NEW m, Agree(m), tls' <= m + 1
    PROVE  /\ \A k \in 1 .. Len(tokens') :
                  k \in 1 .. Len(tokens) /\ tokens'[k] = tokens[k] => Opens'[k] = Opens[k]
           /\ \A i \in 1 .. Len(frames') :
                  i \in 1 .. Len(frames) /\ frames'[i].page = frames[i].page
                  /\ frames'[i].stop = frames[i].stop => Drains'[i].stop = Drains[i].stop
<1>1. /\ pages \in Seq(Seq(Entry)) /\ pages' \in Seq(Seq(Entry)) /\ tls' \in Int
      /\ Len(pages) \in Nat
  <2>1. tls' \in Int
    BY NextSeen
  <2>2. pages' \in Seq(Seq(Entry))
    BY DEF IInv, TypeOK
  <2>. QED
    BY <2>1, <2>2, Elements DEF IInv, TypeOK
<1>2. m \in Nat /\ m \in 0 .. Len(pages) /\ m \in 0 .. Len(pages')
      /\ \A p \in 1 .. m : pages[p] = pages'[p]
    BY <1>1 DEF Agree
<1>3. \A n \in 0 .. m : Joined(pages, n) = Joined(pages', n)
    BY <1>1, <1>2, SameJoined
<1>4. ASSUME NEW k \in 1 .. Len(tokens'), k \in 1 .. Len(tokens), tokens'[k] = tokens[k]
      PROVE  Opens'[k] = Opens[k]
  <2>1. tokens[k] = Placeholder \/ tokens[k].page \in 1 .. tls'
    BY <1>4, NextSeen
  <2>2. tokens[k] # Placeholder => tokens[k].page - 1 \in 0 .. m
    <3>. SUFFICES ASSUME tokens[k] # Placeholder PROVE tokens[k].page - 1 \in 0 .. m
        OBVIOUS
    <3>1. PICK p \in 1 .. tls' : p = tokens[k].page
        BY <2>1
    <3>2. p - 1 \in 0 .. m
        BY <1>1, <1>2, <3>1
    <3>. QED
        BY <3>1, <3>2
  <2>3. DepthIn(pages', tokens[k]) = DepthIn(pages, tokens[k])
    BY <1>3, <2>2 DEF DepthIn
  <2>4. Opens'[k] = DepthIn(pages', tokens'[k])
    BY NextSeen
  <2>5. Opens[k] = DepthIn(pages, tokens[k])
    BY <1>4, OpensAre
  <2>. QED
    BY <1>4, <2>3, <2>4, <2>5
<1>5. ASSUME NEW i \in 1 .. Len(frames'), i \in 1 .. Len(frames), frames'[i].page = frames[i].page,
             frames'[i].stop = frames[i].stop
      PROVE  Drains'[i].stop = Drains[i].stop
  <2>1. frames'[i].page \in 1 .. tls'
    BY NextSeen
  <2>2. frames[i].page - 1 \in 0 .. m
    BY <1>1, <1>2, <1>5, <2>1
  <2>3. Joined(pages, frames[i].page - 1) = Joined(pages', frames'[i].page - 1)
    BY <1>3, <1>5, <2>2
  <2>4. Drains'[i].stop = Len(Joined(pages', frames'[i].page - 1)) + frames'[i].stop
    BY NextSeen
  <2>5. Drains[i].stop = Len(Joined(pages, frames[i].page - 1)) + frames[i].stop
    BY <1>5, DrainsAre
  <2>. QED
    BY <1>5, <2>3, <2>4, <2>5
<1>. QED
    BY <1>4, <1>5

\* Those that are dropped excepted, the pools are the same.
LEMMA KeptOpens ==
    ASSUME IInv, IInv', NEW m, Agree(m), tls' <= m + 1, NEW n, Shrunk(n)
    PROVE  Opens' = SubSeq(Opens, 1, n)
<1>1. n \in 0 .. Len(tokens) /\ Len(tokens') = n
      /\ \A k \in 1 .. n : k \in 1 .. Len(tokens) /\ tokens'[k] = tokens[k]
    BY DEF Shrunk
<1>2. Opens \in Seq(Int) /\ Len(Opens) = Len(tokens)
    BY OpensAre
<1>3. Opens' \in Seq(Int) /\ Len(Opens') = n
    BY <1>1, NextSeen
<1>4. /\ SubSeq(Opens, 1, n) \in Seq(Int) /\ Len(SubSeq(Opens, 1, n)) = n
      /\ \A k \in 1 .. n : SubSeq(Opens, 1, n)[k] = Opens[k]
    BY <1>1, <1>2, Beginning
<1>5. \A k \in 1 .. n : Opens'[k] = Opens[k]
    BY <1>1, Kept
<1>. QED
    BY <1>3, <1>4, <1>5, SeqEqual

\* If none is dropped, all are the same.
LEMMA SameOpens ==
    ASSUME IInv, IInv', NEW m, Agree(m), tls' <= m + 1, tokens' = tokens
    PROVE  Opens' = Opens
<1>1. tokens \in Seq(Token) /\ Len(tokens) \in Nat
    BY Typed DEF IInv, TypeOK
<1>2. Opens \in Seq(Int) /\ Len(Opens) = Len(tokens)
    BY OpensAre
<1>3. Opens' \in Seq(Int) /\ Len(Opens') = Len(tokens)
    BY NextSeen
<1>4. \A k \in 1 .. Len(tokens) : Opens'[k] = Opens[k]
    BY Kept
<1>. QED
    BY <1>2, <1>3, <1>4, SeqEqual

\* A pop that stays is the same.
LEMMA KeptDrain ==
    ASSUME IInv, IInv', NEW m, Agree(m), tls' <= m + 1,
           NEW i \in 1 .. Len(frames'), i \in 1 .. Len(frames), frames'[i] = frames[i]
    PROVE  Drains'[i] = Drains[i]
<1>1. /\ Drains'[i] \in Drain /\ Drains'[i].base = frames'[i].base
      /\ Drains'[i].callback = frames'[i].callback
    BY NextSeen
<1>2. /\ Drains[i] \in Drain /\ Drains[i].base = frames[i].base
      /\ Drains[i].callback = frames[i].callback
    BY DrainsAre
<1>3. Drains'[i].stop = Drains[i].stop
    BY Kept
<1>. QED
    BY <1>1, <1>2, <1>3 DEF Drain

\* If no pop begins or ends, all pops are the same.
LEMMA SameDrains ==
    ASSUME IInv, IInv', NEW m, Agree(m), tls' <= m + 1, frames' = frames
    PROVE  Drains' = Drains
<1>1. Drains \in Seq(Drain) /\ Len(Drains) = Len(frames)
    BY DrainsAre
<1>2. Drains' \in Seq(Drain) /\ Len(Drains') = Len(frames)
    BY NextSeen
<1>3. \A i \in 1 .. Len(frames) : Drains'[i] = Drains[i]
    BY KeptDrain
<1>. QED
    BY <1>1, <1>2, <1>3, SeqEqual

\* The innermost pop begins to wait for a -dealloc, or goes on.
LEMMA MarkedDrains ==
    ASSUME IInv, IInv', NEW m, Agree(m), tls' <= m + 1, NEW c, Marked(c), frames # <<>>
    PROVE  Drains' = [Drains EXCEPT ![Len(Drains)].callback = c]
<1>1. /\ Drains \in Seq(Drain) /\ Len(Drains) = Len(frames)
      /\ \A i \in 1 .. Len(frames) :
             /\ Drains[i] \in Drain /\ Drains[i].base = frames[i].base
             /\ Drains[i].callback = frames[i].callback
    BY DrainsAre
<1>2. /\ Drains' \in Seq(Drain) /\ Len(Drains') = Len(frames')
      /\ \A i \in 1 .. Len(frames') :
             /\ Drains'[i] \in Drain /\ Drains'[i].base = frames'[i].base
             /\ Drains'[i].callback = frames'[i].callback
    BY NextSeen
<1>3. /\ Len(frames') = Len(frames)
      /\ \A i \in 1 .. Len(frames) :
             /\ frames'[i].page = frames[i].page /\ frames'[i].stop = frames[i].stop
             /\ frames'[i].base = frames[i].base
             /\ frames'[i].callback = IF i = Len(frames) THEN c ELSE frames[i].callback
    BY DEF Marked
<1>4. \A i \in 1 .. Len(frames) : Drains'[i].stop = Drains[i].stop
    BY <1>3, Kept
<1>5. Len(frames) \in Nat /\ Len(frames) \in 1 .. Len(frames)
    BY TopSeen
<1>6. c \in BOOLEAN
  <2>1. Drains'[Len(frames)].callback = c /\ Drains'[Len(frames)] \in Drain
    BY <1>2, <1>3, <1>5
  <2>. QED
    BY <2>1 DEF Drain
<1>7. PICK d : d = [Drains[Len(frames)] EXCEPT !.callback = c]
    OBVIOUS
<1>8. d \in Drain /\ d.stop = Drains[Len(frames)].stop /\ d.base = Drains[Len(frames)].base
      /\ d.callback = c
    BY <1>1, <1>5, <1>6, <1>7 DEF Drain
<1>9. PICK e : e = [Drains EXCEPT ![Len(frames)] = d]
    OBVIOUS
<1>10. /\ e \in Seq(Drain) /\ Len(e) = Len(frames)
       /\ \A i \in 1 .. Len(frames) : e[i] = IF i = Len(frames) THEN d ELSE Drains[i]
    BY <1>1, <1>5, <1>8, <1>9, ExceptSeq
<1>11. ASSUME NEW i \in 1 .. Len(frames) PROVE Drains'[i] = e[i]
  <2>1. /\ Drains'[i] \in Drain /\ Drains'[i].base = Drains[i].base /\ Drains'[i].stop = Drains[i].stop
        /\ i # Len(frames) => Drains'[i].callback = Drains[i].callback
        /\ i = Len(frames) => Drains'[i].callback = c
    BY <1>1, <1>2, <1>3, <1>4
  <2>2. CASE i = Len(frames)
    <3>1. Drains'[i] = d
        BY <1>8, <2>1, <2>2 DEF Drain
    <3>. QED
        BY <1>10, <2>2, <3>1
  <2>3. CASE i # Len(frames)
    <3>1. Drains'[i] = Drains[i]
        <4>1. Drains[i] \in Drain
            BY <1>1
        <4>. QED
            BY <2>1, <2>3, <4>1 DEF Drain
    <3>. QED
        BY <1>10, <2>3, <3>1
  <2>. QED
    BY <2>2, <2>3
<1>12. Drains' = e
    BY <1>2, <1>3, <1>10, <1>11, SeqEqual
<1>13. [Drains EXCEPT ![Len(Drains)].callback = c] = e
    BY <1>1, <1>7, <1>9
<1>. QED
    BY <1>12, <1>13

-----------------------------------------------------------------------------
(* The stack, as the pages change *)

\* There are no pages, or only one.
LEMMA FlatOfFew ==
    /\ FlattenSeq(<<>>) = <<>>
    /\ \A s \in Seq(Entry) : FlattenSeq(<<s>>) = s
<1>1. FlattenSeq(<<>>) = <<>>
  <2>1. Len(<<>>) = 0
    OBVIOUS
  <2>. QED
    BY <2>1, FlatIsJoin
<1>2. ASSUME NEW s \in Seq(Entry) PROVE FlattenSeq(<<s>>) = s
  <2>1. PICK ps : ps = <<s>>
    OBVIOUS
  <2>2. ps \in Seq(Seq(Entry)) /\ Len(ps) = 1 /\ ps[1] = s
    BY <2>1
  <2>3. Joined(ps, 0) = <<>> /\ Joined(ps, 1) = Joined(ps, 0) \o ps[1]
    <3>1. 1 \in 1 .. Len(ps) /\ 1 - 1 = 0
        BY <2>2
    <3>. QED
        BY <2>2, <3>1, JoinedPages
  <2>4. <<>> \o s = s
    BY ConcatEmptySeq
  <2>5. FlattenSeq(ps) = Joined(ps, 1)
    BY <2>2, FlatIsJoined
  <2>. QED
    BY <2>1, <2>2, <2>3, <2>4, <2>5
<1>. QED
    BY <1>1, <1>2

\* A hot page is not the placeholder.
LEMMA HotEntries ==
    /\ tls >= 0 => Entries = FlattenSeq(pages)
    /\ tls' >= 0 => Entries' = FlattenSeq(pages')
BY DEF Entries, EMPTY_POOL_PLACEHOLDER

\* An entry added to the hot page or the next is on top of the stack.
LEMMA GrownFlat ==
    ASSUME IInv, tls >= 1, NEW q, NEW n, NEW e \in Entry, Grown(q, n, e)
    PROVE  /\ Agree(q - 1) /\ tls' = q /\ q \in Nat /\ q - 1 \in 0 .. Len(pages') /\ n \in Nat
           /\ Entries' = Append(Entries, e)
           /\ Len(Entries) = Len(Joined(pages', q - 1)) + n
<1>1. /\ q \in 1 .. Len(pages') /\ q >= tls /\ q \in Nat /\ n \in Nat
      /\ Len(pages') \in Nat
      /\ \A p \in 1 .. Len(pages') : p # q => p \in 1 .. Len(pages)
    BY GrowKeeps
<1>2. /\ q \in {tls, tls + 1} /\ tls' = q
      /\ n = IF q <= Len(pages) THEN Len(pages[q]) ELSE 0
      /\ pages' \in Seq(Seq(Entry))
      /\ Len(pages') = IF q <= Len(pages) THEN Len(pages) ELSE q
      /\ Len(pages'[q]) = n + 1 /\ pages'[q][n + 1] = e
      /\ \A i \in 1 .. n : pages'[q][i] = pages[q][i]
      /\ \A p \in 1 .. Len(pages') : p # q => p \in 1 .. Len(pages) /\ pages'[p] = pages[p]
    BY DEF Grown
<1>3. /\ pages \in Seq(Seq(Entry)) /\ Len(pages) \in Nat /\ tls \in 1 .. Len(pages) /\ tls \in Int
      /\ \A p \in tls + 1 .. Len(pages) : Len(pages[p]) = 0
    BY Hot, Typed DEF IInv, TypeOK
<1>4. /\ q - 1 \in 0 .. Len(pages) /\ q - 1 \in 0 .. Len(pages')
      /\ \A p \in 1 .. q - 1 : pages'[p] = pages[p]
  <2>1. q - 1 \in 0 .. Len(pages) /\ q - 1 \in 0 .. Len(pages')
    BY <1>1, <1>2, <1>3
  <2>2. \A p \in 1 .. q - 1 : p \in 1 .. Len(pages') /\ p # q
    BY <1>1
  <2>. QED
    BY <1>2, <2>1, <2>2
<1>5. PICK s : s = IF q <= Len(pages) THEN pages[q] ELSE <<>>
    OBVIOUS
<1>6. s \in Seq(Entry) /\ Len(s) = n /\ (q <= Len(pages) => s = pages[q]) /\ (q > Len(pages) => s = <<>>)
  <2>1. CASE q <= Len(pages)
    <3>1. q \in 1 .. Len(pages)
        BY <1>1, <1>3, <2>1
    <3>2. s = pages[q] /\ pages[q] \in Seq(Entry)
        BY <1>3, <1>5, <2>1, <3>1, PageElements
    <3>. QED
        BY <1>1, <1>2, <1>3, <2>1, <3>2
  <2>2. CASE ~(q <= Len(pages))
    <3>1. s = <<>> /\ n = 0
        BY <1>2, <1>5, <2>2
    <3>2. <<>> \in Seq(Entry) /\ Len(<<>>) = 0
        BY EmptySeq
    <3>. QED
        BY <1>1, <1>3, <2>2, <3>1, <3>2
  <2>. QED
    BY <2>1, <2>2
<1>7. pages'[q] = Append(s, e)
  <2>1. pages'[q] \in Seq(Entry)
    BY <1>1, <1>2, PageElements
  <2>2. /\ Append(s, e) \in Seq(Entry) /\ Len(Append(s, e)) = n + 1
        /\ \A i \in 1 .. n : Append(s, e)[i] = s[i]
        /\ Append(s, e)[n + 1] = e
    BY <1>6, Appended
  <2>3. \A i \in 1 .. n : s[i] = pages[q][i]
    <3>1. CASE q <= Len(pages)
        BY <1>6, <3>1
    <3>2. CASE ~(q <= Len(pages))
        <4>1. n = 0
            BY <1>2, <3>2
        <4>. QED
            BY <4>1
    <3>. QED
        BY <3>1, <3>2
  <2>4. \A i \in 1 .. n + 1 : pages'[q][i] = Append(s, e)[i]
    <3>1. \A i \in 1 .. n + 1 : i \in 1 .. n \/ i = n + 1
        BY <1>1
    <3>. QED
        BY <1>2, <2>2, <2>3, <3>1
  <2>5. PICK t \in Seq(Entry) : t = pages'[q]
    BY <2>1
  <2>6. Len(t) = Len(Append(s, e))
    BY <1>2, <2>2, <2>5
  <2>7. \A i \in 1 .. Len(t) : t[i] = Append(s, e)[i]
    BY <2>2, <2>4, <2>5, <2>6
  <2>8. t = Append(s, e)
    BY <2>2, <2>6, <2>7, SeqEqual
  <2>. QED
    BY <2>5, <2>8
<1>8. \A p \in q + 1 .. Len(pages) : Len(pages[p]) = 0
    BY <1>1, <1>3
<1>9. \A p \in q + 1 .. Len(pages') : Len(pages'[p]) = 0
  <2>1. \A p \in q + 1 .. Len(pages') :
            p \in 1 .. Len(pages') /\ p # q /\ (p \in 1 .. Len(pages) => p \in q + 1 .. Len(pages))
    BY <1>1, <1>3
  <2>. QED
    BY <1>2, <1>8, <2>1
<1>10. q - 1 <= Len(pages)
    BY <1>1, <1>3, <1>4
<1>11. /\ FlattenSeq(pages') = Append(FlattenSeq(pages), e)
       /\ Len(FlattenSeq(pages)) = Len(Joined(pages, q - 1)) + Len(s)
    BY <1>1, <1>2, <1>3, <1>4, <1>6, <1>7, <1>8, <1>9, <1>10, EntryAtEnd
<1>12. Joined(pages', q - 1) = Joined(pages, q - 1)
  <2>1. q - 1 \in 0 .. q - 1
    BY <1>1
  <2>. QED
    BY <1>2, <1>3, <1>4, <2>1, SameJoined
<1>13. Agree(q - 1)
    BY <1>4 DEF Agree
<1>14. tls >= 0 /\ tls' >= 0
    BY <1>1, <1>2, <1>3
<1>. QED
    BY <1>1, <1>2, <1>4, <1>6, <1>11, <1>12, <1>13, <1>14, HotEntries

\* The entry that is released is the one on top, and lies above the end of the pop.
LEMMA ReleasedFlat ==
    ASSUME IInv, IInv', NEW u, NEW c, Released(u, c)
    PROVE  /\ Agree(u - 1) /\ tls' = u /\ u \in Nat
           /\ Entries' = SubSeq(Entries, 1, Len(Entries) - 1)
           /\ Entries[Len(Entries)] = pages[u][Len(pages[u])]
           /\ Len(Entries) > Drains[Len(Drains)].stop
<1>. DEFINE P == frames[Len(frames)].page
<1>1. /\ Len(frames) \in 1 .. Len(frames)
      /\ u \in P .. tls /\ u \in 1 .. Len(pages)
      /\ Len(pages[P]) > frames[Len(frames)].stop
      /\ Len(pages[u]) > 0 /\ \A p \in u + 1 .. Len(pages) : Len(pages[p]) = 0
      /\ tls' = u
      /\ pages' \in Seq(Seq(Entry)) /\ Len(pages') = Len(pages)
      /\ Len(pages'[u]) = Len(pages[u]) - 1
      /\ \A i \in 1 .. Len(pages[u]) - 1 : pages'[u][i] = pages[u][i]
      /\ \A p \in 1 .. Len(pages) : p # u => pages'[p] = pages[p]
    BY DEF Released
<1>2. /\ pages \in Seq(Seq(Entry)) /\ Len(pages) \in Nat /\ tls \in Int
      /\ P \in 1 .. Len(pages) /\ P \in Nat \ {0} /\ tls >= 1 /\ frames[Len(frames)].stop \in Nat
    BY <1>1, Framed, Typed DEF IInv, TypeOK
<1>3. u \in Nat /\ u >= P
    BY <1>1, <1>2
<1>4. /\ pages[u] \in Seq(Entry) /\ Len(pages[u]) \in Nat /\ pages'[u] \in Seq(Entry)
      /\ Len(pages[u]) \in 1 .. Len(pages[u])
  <2>1. pages[u] \in Seq(Entry) /\ Len(pages[u]) \in Nat
    BY <1>1, <1>2, PageElements
  <2>2. pages'[u] \in Seq(Entry)
    BY <1>1, PageElements
  <2>. QED
    BY <1>1, <2>1, <2>2
<1>5. PICK e \in Entry : e = pages[u][Len(pages[u])]
    BY <1>4, Elements
<1>6. PICK s \in Seq(Entry) : s = pages'[u]
    BY <1>4
<1>7. pages[u] = Append(s, e)
  <2>1. /\ Append(s, e) \in Seq(Entry) /\ Len(Append(s, e)) = Len(s) + 1
        /\ \A i \in 1 .. Len(s) : Append(s, e)[i] = s[i]
        /\ Append(s, e)[Len(s) + 1] = e
    BY Appended
  <2>2. Len(s) = Len(pages[u]) - 1 /\ Len(s) + 1 = Len(pages[u])
    BY <1>1, <1>4, <1>6
  <2>3. \A i \in 1 .. Len(pages[u]) : i \in 1 .. Len(s) \/ i = Len(s) + 1
    BY <1>4, <2>2
  <2>4. \A i \in 1 .. Len(pages[u]) : pages[u][i] = Append(s, e)[i]
    BY <1>1, <1>5, <1>6, <2>1, <2>2, <2>3
  <2>. QED
    BY <1>4, <2>1, <2>2, <2>4, SeqEqual
<1>8. /\ u - 1 \in 0 .. Len(pages) /\ u - 1 \in 0 .. Len(pages') /\ u \in 1 .. Len(pages')
      /\ u - 1 <= Len(pages') /\ ~(u > Len(pages')) /\ u <= Len(pages')
      /\ \A p \in 1 .. u - 1 : pages[p] = pages'[p]
  <2>1. \A p \in 1 .. u - 1 : p \in 1 .. Len(pages) /\ p # u
    BY <1>1, <1>2
  <2>. QED
    BY <1>1, <1>2, <2>1
<1>9. \A p \in u + 1 .. Len(pages') : Len(pages'[p]) = 0
  <2>1. \A p \in u + 1 .. Len(pages) : p \in 1 .. Len(pages) /\ p # u
    BY <1>1, <1>2
  <2>. QED
    BY <1>1, <2>1
<1>10. /\ FlattenSeq(pages) = Append(FlattenSeq(pages'), e)
       /\ Len(FlattenSeq(pages')) = Len(Joined(pages', u - 1)) + Len(s)
       /\ FlattenSeq(pages') \in Seq(Entry)
  <2>1. PICK ps \in Seq(Seq(Entry)) : ps = pages'
    BY <1>1
  <2>2. u <= Len(ps) /\ u - 1 <= Len(ps)
    BY <1>8, <2>1
  <2>5. \A p \in 1 .. u - 1 : pages[p] = ps[p]
    BY <1>8, <2>1
  <2>6. u <= Len(ps) => s = ps[u]
    BY <1>6, <2>1
  <2>7. u > Len(ps) => s = <<>>
    BY <1>8, <2>1
  <2>8. \A p \in u + 1 .. Len(ps) : Len(ps[p]) = 0
    BY <1>9, <2>1
  <2>9. u \in 1 .. Len(pages) /\ pages \in Seq(Seq(Entry)) /\ pages[u] = Append(s, e)
        /\ \A p \in u + 1 .. Len(pages) : Len(pages[p]) = 0
    BY <1>1, <1>2, <1>7
  <2>4. s \in Seq(Entry) /\ e \in Entry /\ ps \in Seq(Seq(Entry))
    OBVIOUS
  <2>3. /\ FlattenSeq(pages) = Append(FlattenSeq(ps), e)
        /\ Len(FlattenSeq(ps)) = Len(Joined(ps, u - 1)) + Len(s)
        /\ FlattenSeq(ps) \in Seq(Entry)
    BY <2>2, <2>4, <2>5, <2>6, <2>7, <2>8, <2>9, EntryAtEnd, ZenonT(60)
  <2>. QED
    BY <2>1, <2>3
<1>11. Entries = FlattenSeq(pages) /\ Entries' = FlattenSeq(pages')
    BY <1>1, <1>2, HotEntries
<1>12. PICK r \in Seq(Entry) : r = Entries'
    BY <1>10, <1>11
<1>13. Entries = Append(r, e) /\ Len(r) = Len(Joined(pages', u - 1)) + Len(s)
    BY <1>10, <1>11, <1>12
<1>14. /\ Len(Entries) = Len(r) + 1 /\ Len(r) \in Nat /\ Entries[Len(r) + 1] = e
       /\ Entries \in Seq(Entry) /\ \A i \in 1 .. Len(r) : Entries[i] = r[i]
    BY <1>13, Appended
<1>15. SubSeq(Entries, 1, Len(Entries) - 1) = r
  <2>1. Len(r) \in 0 .. Len(Entries) /\ Len(Entries) - 1 = Len(r)
    BY <1>14
  <2>2. /\ SubSeq(Entries, 1, Len(r)) \in Seq(Entry) /\ Len(SubSeq(Entries, 1, Len(r))) = Len(r)
        /\ \A i \in 1 .. Len(r) : SubSeq(Entries, 1, Len(r))[i] = Entries[i]
    BY <1>14, <2>1, Beginning
  <2>. QED
    BY <1>14, <2>1, <2>2, SeqEqual
<1>16. Len(Entries) > Drains[Len(Drains)].stop
  <2>1. Drains[Len(Drains)].stop = Len(Joined(pages, P - 1)) + frames[Len(frames)].stop
    BY <1>1, DrainsAre
  <2>2. Joined(pages', u - 1) = Joined(pages, u - 1)
    <3>1. u - 1 \in 0 .. u - 1
        BY <1>1, <1>3
    <3>. QED
        BY <1>1, <1>2, <1>8, <3>1, SameJoined
  <2>3. Len(Joined(pages, u - 1)) \in Nat /\ Len(Joined(pages, P - 1)) \in Nat
    <3>1. P - 1 \in 0 .. Len(pages)
        BY <1>2
    <3>. QED
        BY <1>2, <1>8, <3>1, JoinedPages, Elements
  <2>7. PICK j \in Nat : j = Len(Joined(pages, u - 1))
    BY <2>3
  <2>8. PICK l \in Nat : l = Len(pages[u])
    BY <1>4
  <2>4. Len(Entries) = j + l
    <3>1. Len(s) = l - 1
        BY <1>1, <1>6, <2>8
    <3>2. Len(r) = j + Len(s)
        BY <1>13, <2>2, <2>7
    <3>. QED
        BY <1>14, <2>7, <2>8, <3>1, <3>2
  <2>9. PICK o \in Nat : o = frames[Len(frames)].stop
    BY <1>2
  <2>10. j \in Nat /\ l \in Nat /\ o \in Nat
    OBVIOUS
  <2>5. CASE P = u
    <3>1. Drains[Len(Drains)].stop = j + o
        BY <2>1, <2>5, <2>7, <2>9
    <3>2. l > o
        BY <1>1, <2>5, <2>8, <2>9
    <3>3. j + l > j + o
        BY <2>10, <3>2
    <3>. QED
        BY <2>4, <3>1, <3>3
  <2>6. CASE P # u
    <3>1. P \in 0 .. Len(pages) /\ P <= u - 1 /\ u - 1 \in P .. Len(pages)
        BY <1>2, <1>3, <1>8, <2>6
    <3>2. Len(Joined(pages, P)) <= Len(Joined(pages, u - 1))
        BY <1>2, <3>1, JoinedGrows
    <3>3. Joined(pages, P) = Joined(pages, P - 1) \o pages[P] /\ Joined(pages, P - 1) \in Seq(Entry)
        <4>1. P - 1 \in 0 .. Len(pages)
            BY <1>2
        <4>. QED
            BY <1>2, <4>1, JoinedPages
    <3>4. pages[P] \in Seq(Entry) /\ Len(pages[P]) \in Nat
        BY <1>2, PageElements
    <3>5. Len(Joined(pages, P)) = Len(Joined(pages, P - 1)) + Len(pages[P])
        BY <3>3, <3>4, ConcatProperties
    <3>6. PICK i \in Nat : i = Len(Joined(pages, P - 1))
        BY <2>3
    <3>7. PICK h \in Nat : h = Len(pages[P])
        BY <3>4
    <3>8. i + h <= j /\ h > o /\ l > 0
        BY <1>1, <2>7, <2>8, <2>9, <3>2, <3>5, <3>6, <3>7
    <3>9. Drains[Len(Drains)].stop = i + o
        BY <2>1, <2>9, <3>6
    <3>10. j + l > i + o
        <4>1. i \in Nat /\ h \in Nat
            OBVIOUS
        <4>. QED
            BY <2>10, <3>8, <4>1
    <3>. QED
        BY <2>4, <3>9, <3>10
  <2>. QED
    BY <2>5, <2>6
<1>17. Agree(u - 1)
    BY <1>8 DEF Agree
<1>. QED
    BY <1>1, <1>3, <1>5, <1>12, <1>14, <1>15, <1>16, <1>17

\* Empty pages are freed: the stack is the same.
LEMMA FreedFlat ==
    ASSUME IInv, NEW n, Freed(n), \A p \in n + 1 .. Len(pages) : Len(pages[p]) = 0,
           tls >= 0, tls' >= 0
    PROVE  Agree(n) /\ Entries' = Entries
<1>1. /\ n \in 0 .. Len(pages) /\ pages' \in Seq(Seq(Entry)) /\ Len(pages') = n
      /\ \A p \in 1 .. n : pages'[p] = pages[p]
    BY DEF Freed
<1>2. pages \in Seq(Seq(Entry)) /\ Len(pages) \in Nat /\ n \in Nat /\ n \in 0 .. n
    BY <1>1, Typed DEF IInv, TypeOK
<1>3. FlattenSeq(pages) = Joined(pages, n)
    BY <1>1, <1>2, EmptyEnd
<1>4. FlattenSeq(pages') = Joined(pages', n)
    BY <1>1, FlatIsJoined
<1>5. Joined(pages, n) = Joined(pages', n)
    BY <1>1, <1>2, SameJoined
<1>6. Agree(n)
    BY <1>1, <1>2 DEF Agree
<1>. QED
    BY <1>3, <1>4, <1>5, <1>6, HotEntries

-----------------------------------------------------------------------------
(* The steps of PoolStack, in the terms of the mapping *)

\* The client calls.
Calls == Drains # <<>> => Drains[Len(Drains)].callback

\* An object is put on the stack.
LEMMA AutoreleaseMaps ==
    ASSUME NEW o, Calls, Entries' = Append(Entries, o), Opens' = Opens, Drains' = Drains
    PROVE  Stack!Autorelease(o)
BY DEF Stack!Autorelease, Stack!Client, Stack!Top, Calls, Entries, Opens, Drains

\* A pool is opened.
LEMMA PushMaps ==
    ASSUME Calls, Opens' = Append(Opens, Len(Entries)),
           Entries' = Append(Entries, POOL_BOUNDARY), Drains' = Drains
    PROVE  Stack!Push
BY DEF Stack!Push, Stack!Client, Stack!Top, Calls, Entries, Opens, Drains

\* A pop begins.
LEMMA PopMaps ==
    ASSUME NEW k, Calls,
           k \in (IF Drains = <<>> THEN 1 ELSE Drains[Len(Drains)].base + 1) .. Len(Opens),
           Drains' = Append(Drains, [stop |-> Opens[k], base |-> k - 1, callback |-> FALSE]),
           Opens' = SubSeq(Opens, 1, k - 1), Entries' = Entries
    PROVE  Stack!Pop(k)
BY DEF Stack!Pop, Stack!Own, Stack!Client, Stack!Top, Calls, Entries, Opens, Drains

\* A pool that was never used goes at once.
LEMMA PopUnusedMaps ==
    ASSUME NEW k, Calls,
           k \in (IF Drains = <<>> THEN 1 ELSE Drains[Len(Drains)].base + 1) .. Len(Opens),
           Opens[k] = Len(Entries) - 1, Entries' = SubSeq(Entries, 1, Opens[k]),
           Opens' = SubSeq(Opens, 1, k - 1), Drains' = Drains
    PROVE  Stack!PopUnused(k)
BY DEF Stack!PopUnused, Stack!Own, Stack!Client, Stack!Top, Calls, Entries, Opens, Drains

\* The entry on top goes.
LEMMA ReleaseMaps ==
    ASSUME Drains # <<>>, ~Drains[Len(Drains)].callback,
           Len(Entries) > Drains[Len(Drains)].stop,
           Entries' = SubSeq(Entries, 1, Len(Entries) - 1),
           Drains' = [Drains EXCEPT ![Len(Drains)].callback = Entries[Len(Entries)] # POOL_BOUNDARY],
           Opens' = Opens
    PROVE  Stack!Release
BY DEF Stack!Release, Stack!Top, Entries, Opens, Drains

\* A -dealloc returns.
LEMMA ReturnMaps ==
    ASSUME Drains # <<>>, Drains[Len(Drains)].callback,
           Drains' = [Drains EXCEPT ![Len(Drains)].callback = FALSE],
           Opens' = SubSeq(Opens, 1, Drains[Len(Drains)].base), Entries' = Entries
    PROVE  Stack!Return
BY DEF Stack!Return, Stack!Top, Entries, Opens, Drains

\* A pop ends.
LEMMA PoppedMaps ==
    ASSUME Drains # <<>>, ~Drains[Len(Drains)].callback,
           Len(Entries) = Drains[Len(Drains)].stop,
           Drains' = SubSeq(Drains, 1, Len(Drains) - 1), Entries' = Entries, Opens' = Opens
    PROVE  Stack!Popped
BY DEF Stack!Popped, Stack!Top, Entries, Opens, Drains

\* The thread ends.
LEMMA ExitMaps ==
    ASSUME Drains = <<>>, Opens' = <<>>,
           \/ Drains' = <<[stop |-> 0, base |-> 0, callback |-> FALSE]>> /\ Entries' = Entries
           \/ Entries \in {<<>>, <<POOL_BOUNDARY>>} /\ Entries' = <<>> /\ Drains' = Drains
    PROVE  Stack!Exit
BY DEF Stack!Exit, Entries, Opens, Drains

\* Nothing happens to the stack.
LEMMA NothingMaps ==
    ASSUME Entries' = Entries, Opens' = Opens, Drains' = Drains
    PROVE  UNCHANGED Stack!vars
BY DEF Stack!vars, Entries, Opens, Drains

-----------------------------------------------------------------------------
(* Every step of the pools is one of the stack's, or none *)

\* A pool is opened at the top of the stack.
LEMMA PushedOpens ==
    ASSUME IInv, IInv', NEW m, Agree(m), tls' <= m + 1, NEW t \in Token, tokens' = Append(tokens, t),
           DepthIn(pages', t) = Len(Entries)
    PROVE  Opens' = Append(Opens, Len(Entries))
<1>1. /\ Len(tokens') = Len(tokens) + 1 /\ Len(tokens) \in Nat
      /\ \A k \in 1 .. Len(tokens) : tokens'[k] = tokens[k]
      /\ tokens'[Len(tokens) + 1] = t
    BY Appended DEF IInv, TypeOK
<1>2. Opens \in Seq(Int) /\ Len(Opens) = Len(tokens)
    BY OpensAre
<1>3. /\ Opens' \in Seq(Int) /\ Len(Opens') = Len(tokens) + 1
      /\ Opens'[Len(tokens) + 1] = Len(Entries)
    BY <1>1, NextSeen
<1>4. Len(Entries) \in Int
    BY EntriesAre, Elements
<1>5. /\ Append(Opens, Len(Entries)) \in Seq(Int)
      /\ Len(Append(Opens, Len(Entries))) = Len(tokens) + 1
      /\ \A k \in 1 .. Len(tokens) : Append(Opens, Len(Entries))[k] = Opens[k]
      /\ Append(Opens, Len(Entries))[Len(tokens) + 1] = Len(Entries)
    BY <1>2, <1>4, Appended
<1>6. \A k \in 1 .. Len(tokens) : Opens'[k] = Opens[k]
  <2>1. \A k \in 1 .. Len(tokens) : k \in 1 .. Len(tokens')
    BY <1>1
  <2>. QED
    BY <1>1, <2>1, Kept
<1>7. \A k \in 1 .. Len(tokens) + 1 : k \in 1 .. Len(tokens) \/ k = Len(tokens) + 1
    BY <1>1
<1>8. \A k \in 1 .. Len(tokens) + 1 : Opens'[k] = Append(Opens, Len(Entries))[k]
    BY <1>3, <1>5, <1>6, <1>7
<1>. QED
    BY <1>3, <1>5, <1>8, SeqEqual

\* With no page, the entry makes the first page, or none, or no entry at all.
LEMMA NoPageFlat ==
    ASSUME IInv, tls < 1, NEW e \in Entry, AutoreleaseNoPage(e)
    PROVE  /\ Agree(0) /\ tls' <= 0 + 1
           /\ \/ /\ tls' = 1 /\ Entries' = Append(Entries, e)
                 /\ Len(pages'[1]) = Len(Entries) + 1 /\ Len(Entries) \in Nat
              \/ e = POOL_BOUNDARY /\ tls' = EMPTY_POOL_PLACEHOLDER
                 /\ Entries' = Append(Entries, e) /\ Len(Entries) = 0
              \/ e # POOL_BOUNDARY /\ Entries' = Entries
<1>1. tls \in {Nil, EMPTY_POOL_PLACEHOLDER} /\ pages = <<>>
    BY NoPage
<1>2. POOL_BOUNDARY \in Entry
    BY DEF Entry
<1>3. tls = Nil => Entries = <<>>
    BY <1>1, FlatOfFew DEF Entries, Nil, EMPTY_POOL_PLACEHOLDER
<1>4. tls = EMPTY_POOL_PLACEHOLDER => Entries = <<POOL_BOUNDARY>>
    BY DEF Entries
<1>5. ASSUME NEW s \in Seq(Entry), tls' = 1, pages' = <<s>>
      PROVE  Agree(0) /\ Entries' = s /\ pages'[1] = s
  <2>1. Len(pages) = 0 /\ Len(pages') = 1 /\ pages'[1] = s
    BY <1>1, <1>5
  <2>2. Agree(0)
    BY <2>1 DEF Agree
  <2>3. Entries' = s
    BY <1>5, FlatOfFew DEF Entries, EMPTY_POOL_PLACEHOLDER
  <2>. QED
    BY <2>1, <2>2, <2>3
<1>6. pages' = pages => Agree(0)
    BY <1>1 DEF Agree
<1>7. CASE tls = EMPTY_POOL_PLACEHOLDER /\ tls' = 1 /\ pages' = <<<<POOL_BOUNDARY, e>>>>
  <2>1. PICK s : s = <<POOL_BOUNDARY, e>>
    OBVIOUS
  <2>2. s \in Seq(Entry) /\ Len(s) = 2 /\ s = Append(<<POOL_BOUNDARY>>, e)
    BY <1>2, <2>1
  <2>3. Agree(0) /\ Entries' = s /\ pages'[1] = s
    BY <1>5, <1>7, <2>1, <2>2
  <2>4. Entries = <<POOL_BOUNDARY>> /\ Len(Entries) = 1
    BY <1>4, <1>7
  <2>. QED
    BY <1>7, <2>2, <2>3, <2>4
<1>8. CASE tls = Nil /\ e # POOL_BOUNDARY /\ UNCHANGED <<tls, pages>>
  <2>1. Entries' = Entries /\ tls' <= 0 + 1
    BY <1>8 DEF Entries, Nil
  <2>. QED
    BY <1>6, <1>8, <2>1
<1>9. CASE tls = Nil /\ e = POOL_BOUNDARY /\ tls' = EMPTY_POOL_PLACEHOLDER /\ UNCHANGED pages
  <2>1. Entries' = <<POOL_BOUNDARY>> /\ Entries = <<>>
    BY <1>3, <1>9 DEF Entries
  <2>2. Append(<<>>, POOL_BOUNDARY) = <<POOL_BOUNDARY>> /\ Len(<<>>) = 0
    OBVIOUS
  <2>3. tls' <= 0 + 1
    BY <1>9 DEF EMPTY_POOL_PLACEHOLDER
  <2>. QED
    BY <1>6, <1>9, <2>1, <2>2, <2>3
<1>10. CASE tls = Nil /\ tls' = 1 /\ pages' = <<<<e>>>>
  <2>1. PICK s : s = <<e>>
    OBVIOUS
  <2>2. s \in Seq(Entry) /\ Len(s) = 1 /\ s = Append(<<>>, e)
    BY <2>1
  <2>3. Agree(0) /\ Entries' = s /\ pages'[1] = s
    BY <1>5, <1>10, <2>1, <2>2
  <2>4. Entries = <<>> /\ Len(Entries) = 0
    BY <1>3, <1>10
  <2>. QED
    BY <1>10, <2>2, <2>3, <2>4
<1>. QED
    BY <1>7, <1>8, <1>9, <1>10 DEF AutoreleaseNoPage

\* Autorelease: the object is on top, or leaks.
LEMMA AutoreleaseImplements ==
    ASSUME IInv, IInv', NEW o \in Obj, Autorelease(o)
    PROVE  Stack!Autorelease(o) \/ UNCHANGED Stack!vars
<1>1. Client /\ AutoreleaseFast(o) /\ tokens' = tokens /\ frames' = frames
    BY DEF Autorelease, Room
<1>2. o \in Entry /\ o # POOL_BOUNDARY /\ tls \in Int
    BY BoundaryAssumption, Typed DEF Entry, IInv
<1>3. Calls
    BY <1>1, TopSeen DEF Calls
<1>4. CASE tls >= 1
  <2>1. PICK q, n : Grown(q, n, o)
    BY <1>1, <1>2, <1>4, FastGrows
  <2>2. Agree(q - 1) /\ tls' = q /\ q \in Nat /\ Entries' = Append(Entries, o)
    BY <1>2, <1>4, <2>1, GrownFlat
  <2>3. tls' <= (q - 1) + 1
    BY <2>2
  <2>4. Opens' = Opens /\ Drains' = Drains
    BY <1>1, <2>2, <2>3, SameOpens, SameDrains
  <2>. QED
    BY <1>3, <2>2, <2>4, AutoreleaseMaps
<1>5. CASE tls < 1
  <2>1. AutoreleaseNoPage(o)
    BY <1>1, <1>5, NoPage DEF AutoreleaseFast
  <2>2. Agree(0) /\ tls' <= 0 + 1 /\ (Entries' = Append(Entries, o) \/ Entries' = Entries)
    BY <1>2, <1>5, <2>1, NoPageFlat
  <2>3. Opens' = Opens /\ Drains' = Drains
    BY <1>1, <2>2, SameOpens, SameDrains
  <2>. QED
    BY <1>3, <2>2, <2>3, AutoreleaseMaps, NothingMaps
<1>. QED
    BY <1>2, <1>4, <1>5

\* Push: the boundary is on top, and the token is where it lies.
LEMMA PushImplements ==
    ASSUME IInv, IInv', Push
    PROVE  Stack!Push
<1>1. /\ Client /\ frames' = frames
      /\ IF env.DebugPoolAllocation THEN AutoreleaseNewPage(POOL_BOUNDARY)
                                    ELSE AutoreleaseFast(POOL_BOUNDARY)
      /\ tokens' = Append(tokens, IF tls' = EMPTY_POOL_PLACEHOLDER THEN Placeholder
                                  ELSE [page |-> tls', index |-> Len(pages'[tls'])])
    BY DEF Push, Room
<1>2. POOL_BOUNDARY \in Entry /\ tls \in Int
    BY Typed DEF Entry, IInv
<1>3. Calls
    BY <1>1, TopSeen DEF Calls
<1>4. CASE tls >= 1
  <2>1. hotPage = tls /\ hotPage # Nil
    BY <1>4, Hot DEF Nil
  <2>2. \E q, n : Grown(q, n, POOL_BOUNDARY)
    <3>1. CASE env.DebugPoolAllocation
        <4>1. AutoreleaseFullPage(POOL_BOUNDARY, tls)
            BY <1>1, <2>1, <3>1 DEF AutoreleaseNewPage
        <4>. QED
            BY <1>2, <1>4, <3>1, <4>1, FullPageGrows
    <3>2. CASE ~env.DebugPoolAllocation
        BY <1>1, <1>2, <1>4, <3>2, FastGrows
    <3>. QED
        BY <3>1, <3>2
  <2>3. PICK q, n : Grown(q, n, POOL_BOUNDARY)
    BY <2>2
  <2>4. /\ Agree(q - 1) /\ tls' = q /\ q \in Nat /\ q - 1 \in 0 .. Len(pages') /\ n \in Nat
        /\ Entries' = Append(Entries, POOL_BOUNDARY)
        /\ Len(Entries) = Len(Joined(pages', q - 1)) + n
    BY <1>2, <1>4, <2>3, GrownFlat
  <2>5. q >= tls /\ Len(pages'[q]) = n + 1
    BY <1>4, <2>3, GrowKeeps DEF Grown
  <2>6. PICK t : t = [page |-> q, index |-> n + 1]
    OBVIOUS
  <2>7. tokens' = Append(tokens, t)
    <3>1. tls' # EMPTY_POOL_PLACEHOLDER
        BY <1>2, <1>4, <2>4, <2>5 DEF EMPTY_POOL_PLACEHOLDER
    <3>. QED
        BY <1>1, <2>4, <2>5, <2>6, <3>1
  <2>8. t \in Token /\ t # Placeholder /\ t.page = q /\ t.index = n + 1
    BY <1>2, <1>4, <2>4, <2>5, <2>6 DEF Token, Placeholder
  <2>9. DepthIn(pages', t) = Len(Entries)
    <3>1. DepthIn(pages', t) = Len(Joined(pages', q - 1)) + (n + 1) - 1
        BY <2>8 DEF DepthIn
    <3>2. Len(Joined(pages', q - 1)) \in Nat
        <4>1. pages' \in Seq(Seq(Entry))
            BY DEF IInv, TypeOK
        <4>. QED
            BY <2>4, <4>1, JoinedPages, Elements
    <3>. QED
        BY <2>4, <3>1, <3>2
  <2>10. tls' <= (q - 1) + 1
    BY <2>4
  <2>11. Opens' = Append(Opens, Len(Entries))
    BY <2>4, <2>7, <2>8, <2>9, <2>10, PushedOpens
  <2>12. Drains' = Drains
    BY <1>1, <2>4, <2>10, SameDrains
  <2>. QED
    BY <1>3, <2>4, <2>11, <2>12, PushMaps
<1>5. CASE tls < 1
  <2>1. AutoreleaseNoPage(POOL_BOUNDARY)
    BY <1>1, <1>5, NoPage DEF AutoreleaseFast, AutoreleaseNewPage
  <2>2. /\ Agree(0) /\ tls' <= 0 + 1 /\ Entries' = Append(Entries, POOL_BOUNDARY)
        /\ \/ tls' = 1 /\ Len(pages'[1]) = Len(Entries) + 1 /\ Len(Entries) \in Nat
           \/ tls' = EMPTY_POOL_PLACEHOLDER /\ Len(Entries) = 0
    BY <1>2, <1>5, <2>1, NoPageFlat
  <2>3. Drains' = Drains
    BY <1>1, <2>2, SameDrains
  <2>4. CASE tls' = EMPTY_POOL_PLACEHOLDER /\ Len(Entries) = 0
    <3>1. tokens' = Append(tokens, Placeholder) /\ Placeholder \in Token
        BY <1>1, <2>4 DEF Placeholder, Token
    <3>2. DepthIn(pages', Placeholder) = Len(Entries)
        BY <2>4 DEF DepthIn
    <3>3. Opens' = Append(Opens, Len(Entries))
        BY <2>2, <3>1, <3>2, PushedOpens
    <3>. QED
        BY <1>3, <2>2, <2>3, <3>3, PushMaps
  <2>5. CASE tls' = 1 /\ Len(pages'[1]) = Len(Entries) + 1 /\ Len(Entries) \in Nat
    <3>1. PICK t : t = [page |-> 1, index |-> Len(Entries) + 1]
        OBVIOUS
    <3>2. tokens' = Append(tokens, t)
        BY <1>1, <2>5, <3>1 DEF EMPTY_POOL_PLACEHOLDER
    <3>3. t \in Token /\ t # Placeholder /\ t.page - 1 = 0 /\ t.index - 1 = Len(Entries)
        BY <2>5, <3>1 DEF Token, Placeholder
    <3>4. DepthIn(pages', t) = Len(Entries)
        <4>1. Len(Joined(pages', 0)) = 0
            BY DEF Joined
        <4>2. DepthIn(pages', t) = 0 + t.index - 1
            BY <3>3, <4>1 DEF DepthIn
        <4>3. 0 + t.index - 1 = t.index - 1
            BY <3>3 DEF Token
        <4>. QED
            BY <3>3, <4>2, <4>3
    <3>5. Opens' = Append(Opens, Len(Entries))
        BY <2>2, <3>2, <3>3, <3>4, PushedOpens
    <3>. QED
        BY <1>3, <2>2, <2>3, <3>5, PushMaps
  <2>. QED
    BY <2>2, <2>4, <2>5
<1>. QED
    BY <1>2, <1>4, <1>5

\* The pages, and with them the stack, are the same.
LEMMA SamePages ==
    ASSUME IInv, tls >= 0, UNCHANGED <<tls, pages>>
    PROVE  Agree(Len(pages)) /\ tls' <= Len(pages) + 1 /\ Entries' = Entries
<1>1. Len(pages) \in Nat /\ tls \in Int /\ tls <= Len(pages)
    BY Typed DEF IInv
<1>2. Agree(Len(pages))
    BY <1>1 DEF Agree
<1>. QED
    BY <1>1, <1>2 DEF Entries

\* The client has pushed the pool itself.
LEMMA OwnSeen ==
    ASSUME IInv, Client, NEW k \in Own
    PROVE  k \in (IF Drains = <<>> THEN 1 ELSE Drains[Len(Drains)].base + 1) .. Len(Opens)
<1>1. Len(Opens) = Len(tokens)
    BY OpensAre
<1>2. CASE frames = <<>>
  <2>1. Drains = <<>> /\ Own = 0 + 1 .. Len(tokens)
    BY <1>2, TopSeen DEF Own, Base
  <2>. QED
    BY <1>1, <2>1
<1>3. CASE frames # <<>>
  <2>1. Drains # <<>> /\ Drains[Len(Drains)].base = Top.base /\ Own = Top.base + 1 .. Len(tokens)
    BY <1>3, TopSeen DEF Own, Base
  <2>. QED
    BY <1>1, <2>1
<1>. QED
    BY <1>2, <1>3

\* Pop: a placeholder that was never used goes at once; else a pop begins.
LEMMA PopImplements ==
    ASSUME IInv, IInv', NEW k \in 1 .. Len(tokens), Pop(k)
    PROVE  k \in 1 .. Len(Opens) /\ (Stack!Pop(k) \/ Stack!PopUnused(k))
<1>1. /\ Client /\ k \in Own /\ tokens' = SubSeq(tokens, 1, k - 1) /\ pages' = pages
      /\ tls \in Int /\ Len(tokens) \in Nat /\ k - 1 \in 0 .. Len(tokens)
    BY Typed DEF Pop, IInv
<1>2. Calls /\ k \in (IF Drains = <<>> THEN 1 ELSE Drains[Len(Drains)].base + 1) .. Len(Opens)
    BY <1>1, TopSeen, OwnSeen DEF Calls
<1>3. Shrunk(k - 1)
    BY <1>1, TokensShrink
<1>4. k \in 1 .. Len(Opens) /\ Opens[k] = DepthIn(pages, tokens[k])
    BY OpensAre
<1>5. CASE tls < 1
  <2>1. /\ tls \in {Nil, EMPTY_POOL_PLACEHOLDER} /\ hotPage = Nil /\ pages = <<>>
        /\ tokens = IF tls = Nil THEN <<>> ELSE <<Placeholder>>
    BY <1>5, NoPage
  <2>2. tokens = <<Placeholder>> /\ tls = EMPTY_POOL_PLACEHOLDER
    BY <2>1
  <2>3. k = 1 /\ tokens[k] = Placeholder
    BY <2>2
  <2>4. tls' = Nil /\ frames' = frames
    BY <2>1, <2>3 DEF Pop
  <2>5. Opens[k] = 0
    BY <1>4, <2>3 DEF DepthIn
  <2>6. Entries = <<POOL_BOUNDARY>> /\ Entries' = <<>>
    BY <1>1, <2>1, <2>2, <2>4, FlatOfFew DEF Entries, Nil, EMPTY_POOL_PLACEHOLDER
  <2>7. Opens[k] = Len(Entries) - 1 /\ Entries' = SubSeq(Entries, 1, Opens[k])
    <3>1. Len(<<POOL_BOUNDARY>>) = 1 /\ SubSeq(<<POOL_BOUNDARY>>, 1, 0) = <<>>
        OBVIOUS
    <3>. QED
        BY <2>5, <2>6, <3>1
  <2>8. Agree(0) /\ tls' <= 0 + 1
    BY <1>1, <2>1, <2>4 DEF Agree, Nil
  <2>9. Drains' = Drains
    BY <2>4, <2>8, SameDrains
  <2>10. Opens' = SubSeq(Opens, 1, k - 1)
    BY <1>3, <2>8, KeptOpens
  <2>. QED
    BY <1>2, <1>4, <2>7, <2>9, <2>10, PopUnusedMaps
<1>6. CASE tls >= 1
  <2>1. hotPage # Nil
    BY <1>6, Hot DEF Nil
  <2>2. Start(tokens[k]) = Pos(tokens[k]) /\ Valid(Pos(tokens[k]))
    BY <1>6, PopStarts
  <2>3. /\ frames' = Append(frames, [page |-> Pos(tokens[k]).page, stop |-> Pos(tokens[k]).index - 1,
                                     base |-> k - 1, callback |-> FALSE, exit |-> FALSE])
        /\ tls' = tls
    BY <2>1, <2>2 DEF Pop
  <2>4. PICK f : f = [page |-> Pos(tokens[k]).page, stop |-> Pos(tokens[k]).index - 1,
                      base |-> k - 1, callback |-> FALSE, exit |-> FALSE]
    OBVIOUS
  <2>5. /\ f.page = Pos(tokens[k]).page /\ f.stop = Pos(tokens[k]).index - 1
        /\ f.base = k - 1 /\ f.callback = FALSE
    BY <2>4
  <2>6. Pos(tokens[k]).page \in Nat \ {0} /\ Pos(tokens[k]).index - 1 \in Nat
    <3>1. PICK p \in 1 .. tls : p = Pos(tokens[k]).page
        BY <1>6, Tokened
    <3>2. PICK i \in 1 .. Len(pages[p]) : i = Pos(tokens[k]).index
        BY <1>6, <3>1, Tokened
    <3>3. p \in Nat \ {0} /\ i - 1 \in Nat
        OBVIOUS
    <3>. QED
        BY <3>1, <3>2, <3>3
  <2>7. f \in Frame
    BY <1>1, <2>4, <2>6 DEF Frame
  <2>8. /\ Len(frames') = Len(frames) + 1 /\ Len(frames) \in Nat
        /\ \A i \in 1 .. Len(frames) : frames'[i] = frames[i]
        /\ frames'[Len(frames) + 1] = f
    <3>1. frames' = Append(frames, f) /\ frames \in Seq(Frame)
        BY <2>3, <2>4 DEF IInv, TypeOK
    <3>. QED
        BY <2>7, <3>1, Appended
  <2>9. Agree(Len(pages)) /\ tls' <= Len(pages) + 1 /\ Entries' = Entries
    BY <1>1, <1>6, <2>3, SamePages
  <2>10. Opens' = SubSeq(Opens, 1, k - 1)
    BY <1>3, <2>9, KeptOpens
  <2>11. PICK d : d = [stop |-> Opens[k], base |-> k - 1, callback |-> FALSE]
    OBVIOUS
  <2>12. d \in Drain /\ d.stop = Opens[k] /\ d.base = k - 1 /\ d.callback = FALSE
    <3>1. Opens[k] \in Int
        BY <1>4, OpensAre, Elements
    <3>. QED
        BY <1>1, <2>11, <3>1 DEF Drain
  <2>13. Drains \in Seq(Drain) /\ Len(Drains) = Len(frames)
    BY DrainsAre
  <2>14. /\ Append(Drains, d) \in Seq(Drain) /\ Len(Append(Drains, d)) = Len(frames) + 1
         /\ \A i \in 1 .. Len(frames) : Append(Drains, d)[i] = Drains[i]
         /\ Append(Drains, d)[Len(frames) + 1] = d
    BY <2>12, <2>13, Appended
  <2>15. Drains' \in Seq(Drain) /\ Len(Drains') = Len(frames) + 1
    BY <2>8, NextSeen
  <2>16. \A i \in 1 .. Len(frames) : Drains'[i] = Drains[i]
    <3>1. \A i \in 1 .. Len(frames) : i \in 1 .. Len(frames')
        BY <2>8
    <3>. QED
        BY <2>8, <2>9, <3>1, KeptDrain
  <2>17. Drains'[Len(frames) + 1] = d
    <3>1. PICK n \in 1 .. Len(frames') : n = Len(frames) + 1
        BY <2>8
    <3>2. /\ Drains'[n] \in Drain
          /\ Drains'[n].stop = Len(Joined(pages', frames'[n].page - 1)) + frames'[n].stop
          /\ Drains'[n].base = frames'[n].base
          /\ Drains'[n].callback = frames'[n].callback
        BY NextSeen
    <3>3. Drains'[n].base = k - 1 /\ Drains'[n].callback = FALSE
        BY <2>5, <2>8, <3>1, <3>2
    <3>4. Drains'[n].stop = Len(Joined(pages, Pos(tokens[k]).page - 1)) + (Pos(tokens[k]).index - 1)
        BY <1>1, <2>5, <2>8, <3>1, <3>2
    <3>5. Drains'[n].stop = Opens[k]
        <4>1. CASE tokens[k] = Placeholder
            <5>1. Pos(tokens[k]).page - 1 = 0 /\ Pos(tokens[k]).index - 1 = 0
                BY <4>1 DEF Pos
            <5>2. Len(Joined(pages, 0)) = 0
                BY DEF Joined
            <5>3. Opens[k] = 0
                BY <1>4, <4>1 DEF DepthIn
            <5>. QED
                BY <3>4, <5>1, <5>2, <5>3
        <4>2. CASE tokens[k] # Placeholder
            <5>1. Pos(tokens[k]) = tokens[k]
                BY <4>2 DEF Pos
            <5>2. Opens[k] = Len(Joined(pages, tokens[k].page - 1)) + tokens[k].index - 1
                BY <1>4, <4>2 DEF DepthIn
            <5>3. tokens[k].page - 1 \in 0 .. Len(pages) /\ tokens[k].index \in Nat
                <6>1. PICK p \in 1 .. tls : p = tokens[k].page
                    BY <1>6, <5>1, Tokened
                <6>2. p - 1 \in 0 .. Len(pages)
                    <7>1. tls <= Len(pages) /\ Len(pages) \in Nat
                        BY Typed DEF IInv
                    <7>. QED
                        BY <1>1, <7>1
                <6>. QED
                    BY <6>1, <6>2, Typed DEF IInv
            <5>4. Len(Joined(pages, tokens[k].page - 1)) \in Nat
                <6>1. pages \in Seq(Seq(Entry))
                    BY DEF IInv, TypeOK
                <6>. QED
                    BY <5>3, <6>1, JoinedPages, Elements
            <5>. QED
                BY <3>4, <5>1, <5>2, <5>3, <5>4
        <4>. QED
            BY <4>1, <4>2
    <3>6. Drains'[n] = d
        BY <2>12, <3>2, <3>3, <3>5 DEF Drain
    <3>. QED
        BY <3>1, <3>6
  <2>18. Drains' = Append(Drains, d)
    <3>1. \A i \in 1 .. Len(frames) + 1 : i \in 1 .. Len(frames) \/ i = Len(frames) + 1
        BY <2>8
    <3>2. \A i \in 1 .. Len(frames) + 1 : Drains'[i] = Append(Drains, d)[i]
        BY <2>14, <2>16, <2>17, <3>1
    <3>. QED
        BY <2>14, <2>15, <3>2, SeqEqual
  <2>19. Stack!Pop(k)
    BY <1>2, <2>9, <2>10, <2>11, <2>18, PopMaps
  <2>. QED
    BY <1>4, <2>19
<1>. QED
    BY <1>1, <1>5, <1>6

\* The return of a -dealloc.
LEMMA EndDeallocImplements ==
    ASSUME IInv, IInv', EndDealloc
    PROVE  Stack!Return
<1>1. /\ Client /\ frames # <<>> /\ tokens' = SubSeq(tokens, 1, Base)
      /\ frames' = [frames EXCEPT ![Len(frames)].callback = FALSE]
      /\ UNCHANGED <<tls, pages>>
    BY DEF EndDealloc
<1>2. Len(frames) \in 1 .. Len(frames) /\ Top = frames[Len(frames)] /\ Base = Top.base
    BY <1>1, TopSeen DEF Base
<1>3. Top.base \in 0 .. Len(tokens) /\ tls >= 1
  <2>1. Top.base \in Nat /\ Top.base <= Len(tokens) /\ tls >= 1
    BY <1>2, Framed
  <2>2. Len(tokens) \in Nat
    BY Typed DEF IInv
  <2>. QED
    BY <2>1, <2>2
<1>4. Marked(FALSE)
    BY <1>1, MarkTop
<1>5. Shrunk(Top.base)
    BY <1>1, <1>2, <1>3, TokensShrink
<1>6. Agree(Len(pages)) /\ tls' <= Len(pages) + 1 /\ Entries' = Entries
  <2>1. tls >= 0
    BY <1>3, Typed DEF IInv
  <2>. QED
    BY <1>1, <2>1, SamePages
<1>7. Drains' = [Drains EXCEPT ![Len(Drains)].callback = FALSE]
    BY <1>1, <1>4, <1>6, MarkedDrains
<1>8. Opens' = SubSeq(Opens, 1, Drains[Len(Drains)].base)
    BY <1>1, <1>5, <1>6, KeptOpens, TopSeen
<1>9. Drains # <<>> /\ Drains[Len(Drains)].callback
    BY <1>1, TopSeen
<1>. QED
    BY <1>6, <1>7, <1>8, <1>9, ReturnMaps

\* The release of an entry.
LEMMA ReleaseNextImplements ==
    ASSUME IInv, IInv', ReleaseNext
    PROVE  Stack!Release
<1>1. /\ Releasing /\ tls' = LastUsed /\ tokens' = tokens
      /\ frames' = [frames EXCEPT ![Len(frames)].callback =
                        pages[LastUsed][Len(pages[LastUsed])] # POOL_BOUNDARY]
    BY DEF ReleaseNext
<1>2. PICK u, c : Released(u, c) /\ Marked(c)
    BY NextReleases
<1>3. /\ Agree(u - 1) /\ tls' = u /\ u \in Nat
      /\ Entries' = SubSeq(Entries, 1, Len(Entries) - 1)
      /\ Entries[Len(Entries)] = pages[u][Len(pages[u])]
      /\ Len(Entries) > Drains[Len(Drains)].stop
    BY <1>2, ReleasedFlat
<1>4. tls' <= (u - 1) + 1
    BY <1>3
<1>5. frames # <<>>
    BY <1>1 DEF Releasing
<1>6. Drains' = [Drains EXCEPT ![Len(Drains)].callback = c]
    BY <1>2, <1>3, <1>4, <1>5, MarkedDrains
<1>7. PICK b \in BOOLEAN : b = (pages[u][Len(pages[u])] # POOL_BOUNDARY)
    OBVIOUS
<1>8. c = b
  <2>1. frames' = [frames EXCEPT ![Len(frames)].callback = b]
    BY <1>1, <1>3, <1>7
  <2>2. Marked(b)
    BY <1>5, <1>7, <2>1, MarkTop
  <2>3. Len(frames) \in 1 .. Len(frames)
    BY <1>5, TopSeen
  <2>4. frames'[Len(frames)].callback = b
    BY <2>2, <2>3 DEF Marked
  <2>5. frames'[Len(frames)].callback = c
    BY <1>2, <2>3 DEF Marked
  <2>. QED
    BY <2>4, <2>5
<1>9. Drains' = [Drains EXCEPT ![Len(Drains)].callback = Entries[Len(Entries)] # POOL_BOUNDARY]
    BY <1>3, <1>6, <1>7, <1>8
<1>10. Opens' = Opens
    BY <1>1, <1>3, <1>4, SameOpens
<1>11. Drains # <<>> /\ ~Drains[Len(Drains)].callback
    BY <1>1, TopSeen
<1>. QED
    BY <1>3, <1>9, <1>10, <1>11, ReleaseMaps

\* The end of a pop.  No -dealloc of a process that debugs the allocation of pools may leave
\* a pool open, for then pages that are freed would not be empty.
LEMMA EndPopImplements ==
    ASSUME \A m \in UnbalancedModes : ~m.DebugPoolAllocation, IInv, IInv', EndPop
    PROVE  Stack!Popped
<1>. DEFINE L == Len(frames)
            P == frames[L].page
<1>1. /\ Releasing /\ frames # <<>>
      /\ Len(pages[Top.page]) = Top.stop
      /\ frames' = SubSeq(frames, 1, L - 1) /\ tokens' = tokens
      /\ Top.exit => tls' = Nil /\ pages' = IF Debugging THEN PagesLeft(Top.page) ELSE <<>>
      /\ ~Top.exit => /\ tls' = IF Top.page <= Len(PagesLeft(Top.page)) THEN Top.page ELSE Top.page - 1
                      /\ pages' = PagesLeft(Top.page)
    BY DEF EndPop, Releasing
<1>2. L \in 1 .. L /\ L \in Nat /\ Top = frames[L]
    BY <1>1, TopSeen
<1>3. Len(pages[P]) = frames[L].stop
    BY <1>1, <1>2
<1>4. /\ P \in 1 .. Len(pages) /\ P <= tls /\ tls >= 1 /\ P \in Nat \ {0} /\ frames[L].stop \in Nat
      /\ frames[L].exit => P = 1 /\ frames[L].stop = 0
    BY <1>2, Framed
<1>5. /\ pages \in Seq(Seq(Entry)) /\ Len(pages) \in Nat /\ tls \in Int
      /\ \A p \in 1 .. Len(pages) : Len(pages[p]) \in Nat /\ (Empty(p) <=> Len(pages[p]) = 0)
    BY Typed DEF IInv, TypeOK
<1>6. \A p \in P + 1 .. Len(pages) : Len(pages[p]) = 0
  <2>1. ReleaseUntilSound
    BY SoundFromInv
  <2>2. \A p \in P + 1 .. Len(pages) : Empty(p)
    BY <1>1, <1>2, <2>1 DEF ReleaseUntilSound, ChildrenEmpty
  <2>3. \A p \in P + 1 .. Len(pages) : p \in 1 .. Len(pages)
    BY <1>4, <1>5
  <2>. QED
    BY <1>5, <2>2, <2>3
<1>7. \A q \in Nat \ {0} : \E n \in 0 .. Len(pages) :
          /\ Kill(q) = SubSeq(pages, 1, n) /\ (n = q - 1 \/ (n = Len(pages) /\ n < q))
  <2>. SUFFICES ASSUME NEW q \in Nat \ {0}
                PROVE  \E n \in 0 .. Len(pages) :
                           Kill(q) = SubSeq(pages, 1, n) /\ (n = q - 1 \/ (n = Len(pages) /\ n < q))
    OBVIOUS
  <2>1. CASE q <= Len(pages)
    <3>1. q - 1 \in 0 .. Len(pages)
        BY <1>5, <2>1
    <3>. QED
        BY <2>1, <3>1 DEF Kill
  <2>2. CASE ~(q <= Len(pages))
    <3>1. SubSeq(pages, 1, Len(pages)) = pages
        BY <1>5, SubSeqFull
    <3>2. Len(pages) \in 0 .. Len(pages) /\ Len(pages) < q
        BY <1>5, <2>2
    <3>. QED
        BY <2>2, <3>1, <3>2 DEF Kill
  <2>. QED
    BY <2>1, <2>2
\* The pages that are left, and why the others are empty.
<1>8. \E n \in 0 .. Len(pages) :
          /\ pages' = SubSeq(pages, 1, n) /\ tls' <= n + 1 /\ tls' >= 0
          /\ n >= P \/ (n = P - 1 /\ frames[L].stop = 0)
  <2>. HIDE DEF L, P
  <2>1. ASSUME Empty(P) PROVE frames[L].stop = 0
    BY <1>3, <1>4, <1>5, <2>1
  <2>2. \E q \in Nat \ {0} : PagesLeft(P) = Kill(q) /\ q >= P /\ (q = P => Empty(P))
                             /\ (Debugging /\ P = 1 /\ Empty(P) => q = P)
    <3>1. P \in Nat \ {0} /\ P + 1 \in Nat \ {0} /\ P + 2 \in Nat \ {0}
          /\ P + 1 >= P /\ P + 2 >= P /\ P + 1 # P /\ P + 2 # P /\ P >= P
        BY <1>4
    <3>2. CASE Empty(P) /\ (env.DebugPoolAllocation \/ (env.DebugMissingPools /\ P = 1))
        <4>1. PagesLeft(P) = Kill(P)
            BY <3>2 DEF PagesLeft
        <4>. QED
            BY <3>1, <3>2, <4>1
    <3>3. CASE ~(Empty(P) /\ (env.DebugPoolAllocation \/ (env.DebugMissingPools /\ P = 1)))
        <4>1. PagesLeft(P) = Kill(P + 1) \/ PagesLeft(P) = Kill(P + 2)
            BY <3>3 DEF PagesLeft
        <4>2. ~(Debugging /\ P = 1 /\ Empty(P))
            BY <3>3 DEF Debugging
        <4>. QED
            BY <3>1, <4>1, <4>2
    <3>. QED
        BY <3>2, <3>3
  <2>3. PICK q \in Nat \ {0} : PagesLeft(P) = Kill(q) /\ q >= P /\ (q = P => Empty(P))
                               /\ (Debugging /\ P = 1 /\ Empty(P) => q = P)
    BY <2>2
  <2>4. PICK n \in 0 .. Len(pages) :
            Kill(q) = SubSeq(pages, 1, n) /\ (n = q - 1 \/ (n = Len(pages) /\ n < q))
    BY <1>7
  <2>5. n >= P \/ (n = P - 1 /\ Empty(P))
    <3>1. q \in Nat /\ n \in Nat /\ P <= Len(pages)
        BY <1>4, <1>5
    <3>. QED
        BY <1>4, <2>3, <2>4, <3>1
  <2>6. Len(SubSeq(pages, 1, n)) = n
    BY <1>5, Beginning
  <2>7. CASE ~frames[L].exit
    <3>1. tls' = (IF P <= n THEN P ELSE P - 1) /\ pages' = SubSeq(pages, 1, n)
        BY <1>1, <1>2, <2>3, <2>4, <2>6, <2>7 DEF P
    <3>2. P <= n => tls' = P
        BY <3>1
    <3>3. ~(P <= n) => tls' = P - 1
        BY <3>1
    <3>4. n \in Nat
        BY <1>5
    <3>5. tls' <= n + 1 /\ tls' >= 0
        BY <1>4, <2>5, <3>2, <3>3, <3>4
    <3>. QED
        BY <2>1, <2>5, <3>1, <3>5
  <2>8. CASE frames[L].exit
    <3>1. tls' = 0 /\ P = 1 /\ frames[L].stop = 0
        BY <1>1, <1>2, <1>4, <2>8 DEF Nil
    <3>2. Empty(P)
        BY <1>3, <1>4, <1>5, <3>1
    <3>3. SubSeq(pages, 1, 0) = <<>> /\ 0 \in 0 .. Len(pages)
        BY <1>5
    <3>4. pages' = SubSeq(pages, 1, 0)
        <4>1. CASE Debugging
            <5>1. q = 1
                BY <2>3, <3>1, <3>2, <4>1
            <5>2. Kill(1) = SubSeq(pages, 1, 0)
                BY <1>4, <3>1 DEF Kill
            <5>. QED
                BY <1>1, <1>2, <2>3, <2>8, <4>1, <5>1, <5>2 DEF P
        <4>2. CASE ~Debugging
            BY <1>1, <1>2, <2>8, <3>3, <4>2
        <4>. QED
            BY <4>1, <4>2
    <3>5. tls' <= 0 + 1 /\ tls' >= 0 /\ 0 = P - 1
        BY <3>1
    <3>. QED
        BY <3>1, <3>3, <3>4, <3>5
  <2>. QED
    BY <2>7, <2>8
<1>9. PICK n \in 0 .. Len(pages) :
          /\ pages' = SubSeq(pages, 1, n) /\ tls' <= n + 1 /\ tls' >= 0
          /\ n >= P \/ (n = P - 1 /\ frames[L].stop = 0)
    BY <1>8
<1>10. \A p \in n + 1 .. Len(pages) : Len(pages[p]) = 0
  <2>1. n \in Nat
    BY <1>5
  <2>2. CASE n >= P
    <3>1. \A p \in n + 1 .. Len(pages) : p \in P + 1 .. Len(pages)
        BY <1>4, <2>1, <2>2
    <3>. QED
        BY <1>6, <3>1
  <2>3. CASE n = P - 1 /\ frames[L].stop = 0
    <3>1. \A p \in n + 1 .. Len(pages) : p \in P + 1 .. Len(pages) \/ p = P
        BY <1>4, <2>1, <2>3
    <3>2. Len(pages[P]) = 0
        BY <1>3, <2>3
    <3>. QED
        BY <1>6, <3>1, <3>2
  <2>. QED
    BY <1>9, <2>2, <2>3
<1>11. Agree(n) /\ Entries' = Entries
  <2>1. Freed(n)
    BY <1>9, PagesFreed
  <2>2. tls >= 0
    BY <1>4, <1>5
  <2>. QED
    BY <1>9, <1>10, <2>1, <2>2, FreedFlat
<1>12. Opens' = Opens
    BY <1>1, <1>9, <1>11, SameOpens
<1>13. Drains' = SubSeq(Drains, 1, Len(Drains) - 1)
  <2>1. Drains \in Seq(Drain) /\ Len(Drains) = L
    BY DrainsAre
  <2>2. L - 1 \in 0 .. L /\ L - 1 \in 0 .. Len(Drains)
    BY <1>2, <2>1
  <2>3. Len(frames') = L - 1 /\ \A i \in 1 .. L - 1 : frames'[i] = frames[i]
    <3>1. frames \in Seq(Frame)
        BY DEF IInv, TypeOK
    <3>. QED
        BY <1>1, <2>2, <3>1, Beginning
  <2>4. Drains' \in Seq(Drain) /\ Len(Drains') = L - 1
    BY <2>3, NextSeen
  <2>5. ASSUME NEW i \in 1 .. L - 1 PROVE Drains'[i] = Drains[i]
    <3>1. i \in 1 .. Len(frames) /\ i \in 1 .. Len(frames') /\ frames'[i] = frames[i]
        BY <1>2, <2>3
    <3>. QED
        BY <1>9, <1>11, <3>1, KeptDrain
  <2>6. /\ SubSeq(Drains, 1, L - 1) \in Seq(Drain) /\ Len(SubSeq(Drains, 1, L - 1)) = L - 1
        /\ \A i \in 1 .. L - 1 : SubSeq(Drains, 1, L - 1)[i] = Drains[i]
    BY <2>1, <2>2, Beginning
  <2>7. Drains' = SubSeq(Drains, 1, L - 1)
    BY <2>4, <2>5, <2>6, SeqEqual
  <2>. QED
    BY <2>1, <2>7
<1>14. Len(Entries) = Drains[Len(Drains)].stop
  <2>1. P \in 0 .. Len(pages) /\ P - 1 \in 0 .. Len(pages)
    BY <1>4, <1>5
  <2>2. Entries = Joined(pages, P)
    <3>1. tls >= 0
        BY <1>4, <1>5
    <3>. QED
        BY <1>5, <1>6, <2>1, <3>1, EmptyEnd, HotEntries
  <2>3. Joined(pages, P) = Joined(pages, P - 1) \o pages[P] /\ Joined(pages, P - 1) \in Seq(Entry)
    BY <1>4, <1>5, <2>1, JoinedPages
  <2>4. pages[P] \in Seq(Entry)
    BY <1>4, <1>5, PageElements
  <2>5. Len(Entries) = Len(Joined(pages, P - 1)) + Len(pages[P])
    BY <2>2, <2>3, <2>4, ConcatProperties
  <2>6. Drains[Len(Drains)].stop = Len(Joined(pages, P - 1)) + frames[L].stop
    BY <1>1, <1>2, TopSeen
  <2>. QED
    BY <1>3, <2>5, <2>6
<1>15. Drains # <<>> /\ ~Drains[Len(Drains)].callback
    BY <1>1, TopSeen
<1>. QED
    BY <1>11, <1>12, <1>13, <1>14, <1>15, PoppedMaps

\* The end of the thread.
LEMMA ThreadExitImplements ==
    ASSUME IInv, IInv', ThreadExit
    PROVE  Stack!Exit
<1>1. frames = <<>> /\ tokens' = <<>> /\ tls # Nil
    BY DEF ThreadExit
<1>2. Drains = <<>> /\ Len(frames) = 0
    BY <1>1, TopSeen, EmptySeq
<1>3. Opens' = <<>>
  <2>1. Opens' \in Seq(Int) /\ Len(Opens') = 0
    BY <1>1, NextSeen, EmptySeq
  <2>. QED
    BY <2>1, Elements
<1>4. frames' = frames => Drains' = Drains
  <2>1. frames' = frames => Drains' \in Seq(Drain) /\ Len(Drains') = 0
    BY <1>2, NextSeen
  <2>. QED
    BY <1>2, <2>1, Elements
<1>5. tls \in Int /\ tls' \in Int
    BY NextSeen, Typed DEF IInv
<1>6. pages' = <<>> /\ tls' = Nil => Entries' = <<>>
    BY FlatOfFew DEF Entries, Nil, EMPTY_POOL_PLACEHOLDER
<1>7. CASE tls < 1
  <2>1. tls = EMPTY_POOL_PLACEHOLDER /\ hotPage = Nil /\ pages = <<>>
    BY <1>1, <1>7, NoPage
  <2>2. tls' = Nil /\ pages' = pages /\ frames' = frames
    BY <2>1 DEF ThreadExit
  <2>3. Entries = <<POOL_BOUNDARY>>
    BY <2>1 DEF Entries
  <2>. QED
    BY <1>2, <1>3, <1>4, <1>6, <2>1, <2>2, <2>3, ExitMaps
<1>8. CASE tls >= 1
  <2>1. /\ hotPage # Nil /\ tls \in 1 .. Len(pages) /\ pages # <<>>
        /\ \A p \in tls + 1 .. Len(pages) : Len(pages[p]) = 0
        /\ (~env.DebugPoolAllocation => \A p \in 1 .. tls - 1 : Len(pages[p]) = COUNT)
    BY <1>8, Hot DEF Nil
  <2>2. CASE ~Empty(1)
    <3>1. /\ frames' = <<[page |-> 1, stop |-> 0, base |-> 0, callback |-> FALSE, exit |-> TRUE]>>
          /\ UNCHANGED <<tls, pages>>
        BY <2>1, <2>2 DEF ThreadExit
    <3>2. /\ Len(frames') = 1 /\ frames'[1].page - 1 = 0 /\ frames'[1].stop = 0
          /\ frames'[1].base = 0 /\ frames'[1].callback = FALSE
        BY <3>1
    <3>3. /\ Drains' \in Seq(Drain) /\ Len(Drains') = 1 /\ Drains'[1] \in Drain
          /\ Drains'[1].stop = Len(Joined(pages', frames'[1].page - 1)) + frames'[1].stop
          /\ Drains'[1].base = frames'[1].base
          /\ Drains'[1].callback = frames'[1].callback
        <4>1. 1 \in 1 .. Len(frames')
            BY <3>2
        <4>. QED
            BY <3>2, <4>1, NextSeen
    <3>4. Len(Joined(pages', 0)) = 0
        BY DEF Joined
    <3>5. Drains'[1].stop = 0 /\ Drains'[1].base = 0 /\ Drains'[1].callback = FALSE
        BY <3>2, <3>3, <3>4
    <3>6. PICK d : d = [stop |-> 0, base |-> 0, callback |-> FALSE]
        OBVIOUS
    <3>7. Drains'[1] = d
        BY <3>3, <3>5, <3>6 DEF Drain
    <3>8. Drains' = <<d>>
        <4>1. d \in Drain
            BY <3>6 DEF Drain
        <4>2. <<d>> \in Seq(Drain) /\ Len(<<d>>) = 1 /\ <<d>>[1] = d
            BY <4>1
        <4>. QED
            BY <3>3, <3>7, <4>2, SeqEqual
    <3>9. Entries' = Entries
        BY <3>1 DEF Entries
    <3>. QED
        BY <1>2, <1>3, <3>6, <3>8, <3>9, ExitMaps
  <2>3. CASE Empty(1)
    <3>1. tls' = Nil /\ (pages' = IF Debugging THEN pages ELSE <<>>) /\ frames' = frames
        BY <2>1, <2>3 DEF ThreadExit
    <3>2. ~Debugging
        BY <1>1, <2>1, <2>3 DEF IInv, ColdInv
    <3>3. Entries' = <<>>
        BY <1>6, <3>1, <3>2
    <3>4. \A p \in 1 .. Len(pages) : Len(pages[p]) = 0
        <4>1. /\ COUNT \in Nat /\ COUNT >= 2 /\ Len(pages) \in Nat
              /\ 1 \in 1 .. Len(pages) => (Empty(1) <=> Len(pages[1]) = 0)
            BY Typed DEF IInv
        <4>2. Len(pages[1]) = 0 /\ 1 \in 1 .. Len(pages)
            BY <1>5, <2>1, <2>3, <4>1
        <4>3. tls = 1
            <5>1. 1 \in 1 .. tls - 1 => Len(pages[1]) = COUNT
                <6>1. ~env.DebugPoolAllocation
                    BY <3>2 DEF Debugging
                <6>. QED
                    BY <2>1, <6>1
            <5>. QED
                BY <1>5, <1>8, <4>1, <4>2, <5>1
        <4>4. \A p \in 1 .. Len(pages) : p = 1 \/ p \in tls + 1 .. Len(pages)
            BY <4>1, <4>3
        <4>. QED
            BY <2>1, <4>2, <4>4
    <3>5. Entries = <<>>
        <4>1. pages \in Seq(Seq(Entry)) /\ Len(pages) \in Nat /\ tls >= 0
            BY <1>5, <1>8, Typed DEF IInv, TypeOK
        <4>2. 0 \in 0 .. Len(pages) /\ \A p \in 0 + 1 .. Len(pages) : Len(pages[p]) = 0
            BY <3>4, <4>1
        <4>3. FlattenSeq(pages) = Joined(pages, 0)
            BY <4>1, <4>2, EmptyEnd
        <4>. QED
            BY <4>1, <4>3, HotEntries DEF Joined
    <3>. QED
        BY <1>2, <1>3, <1>4, <3>1, <3>3, <3>5, ExitMaps
  <2>. QED
    BY <2>2, <2>3
<1>. QED
    BY <1>5, <1>7, <1>8

-----------------------------------------------------------------------------
(* The refinement *)

\* The first state is the stack's.
LEMMA InitImplements ==
    Init => Stack!Init
<1>. SUFFICES ASSUME Init PROVE Stack!Init
    OBVIOUS
<1>1. tls = Nil /\ pages = <<>> /\ tokens = <<>> /\ frames = <<>> /\ IInv
    BY InvInit DEF Init
<1>2. Entries = <<>>
    BY <1>1, FlatOfFew DEF Entries, Nil, EMPTY_POOL_PLACEHOLDER
<1>3. Opens = <<>> /\ Drains = <<>>
  <2>1. Opens \in Seq(Int) /\ Len(Opens) = 0
    BY <1>1, OpensAre, EmptySeq
  <2>2. Drains = <<>>
    BY <1>1, TopSeen
  <2>. QED
    BY <2>1, <2>2, Elements
<1>. QED
    BY <1>2, <1>3 DEF Stack!Init, Entries, Opens, Drains

\* Every step is one of the stack's, or none.
LEMMA NextImplements ==
    ASSUME \A m \in UnbalancedModes : ~m.DebugPoolAllocation
    PROVE  IInv /\ IInv' /\ [Next]_vars => [Stack!Next]_(Stack!vars)
<1>. SUFFICES ASSUME IInv, IInv', [Next]_vars
              PROVE  Stack!Next \/ UNCHANGED Stack!vars
    OBVIOUS
<1>1. ASSUME NEW o \in Obj, Autorelease(o) PROVE Stack!Next \/ UNCHANGED Stack!vars
    BY <1>1, AutoreleaseImplements DEF Stack!Next
<1>2. ASSUME Push PROVE Stack!Next
    BY <1>2, PushImplements DEF Stack!Next
<1>3. ASSUME NEW k \in 1 .. Len(tokens), Pop(k) PROVE Stack!Next
  <2>1. k \in 1 .. Len(Opens) /\ (Stack!Pop(k) \/ Stack!PopUnused(k))
    BY <1>3, PopImplements
  <2>. QED
    BY <2>1 DEF Stack!Next, Opens
<1>4. ASSUME ThreadExit PROVE Stack!Next
    BY <1>4, ThreadExitImplements DEF Stack!Next
<1>5. ASSUME ReleaseNext PROVE Stack!Next
    BY <1>5, ReleaseNextImplements DEF Stack!Next
<1>6. ASSUME EndDealloc PROVE Stack!Next
    BY <1>6, EndDeallocImplements DEF Stack!Next
<1>7. ASSUME EndPop PROVE Stack!Next
    BY <1>7, EndPopImplements DEF Stack!Next
<1>8. ASSUME UNCHANGED vars PROVE UNCHANGED Stack!vars
  <2>1. tls' = tls /\ pages' = pages /\ tokens' = tokens /\ frames' = frames
    BY <1>8 DEF vars
  <2>2. Entries' = Entries
    BY <2>1 DEF Entries
  <2>3. Agree(Len(pages)) /\ tls' <= Len(pages) + 1
    <3>1. Len(pages) \in Nat /\ tls \in Int /\ tls <= Len(pages)
        BY Typed DEF IInv
    <3>. QED
        BY <2>1, <3>1 DEF Agree
  <2>4. Opens' = Opens /\ Drains' = Drains
    BY <2>1, <2>3, SameOpens, SameDrains
  <2>. QED
    BY <2>2, <2>4, NothingMaps
<1>. QED
    BY <1>1, <1>2, <1>3, <1>4, <1>5, <1>6, <1>7, <1>8 DEF Next, ClientStep, PoolStep

\* The pages, the placeholder and the pages kept for later cannot be told from one stack:
\* what is autoreleased is released once, last in first out, by the pop of the innermost pool
\* around it, if no -dealloc of a process that debugs the allocation of pools leaves a pool
\* open.
THEOREM PoolsAreAStack ==
    ASSUME \A m \in UnbalancedModes : ~m.DebugPoolAllocation
    PROVE  Spec => ImplementsStack
<1>1. Init => Stack!Init
    BY InitImplements
<1>2. IInv /\ IInv' /\ [Next]_vars => [Stack!Next]_(Stack!vars)
    BY NextImplements
<1>. QED
    BY <1>1, <1>2, Invariance, PTL DEF Spec, ImplementsStack, Stack!Spec
=============================================================================
