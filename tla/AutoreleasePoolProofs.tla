------------------------- MODULE AutoreleasePoolProofs -------------------------
(***************************************************************************)
(* Safety of AutoreleasePool.tla for any objects, size of a page, modes    *)
(* and depth of pops: the inductive invariant IInv, a lemma for every      *)
(* action that says it preserves IInv, and the theorems that follow.       *)
(* Tokens come in the order of the stack (TokenInv), and a pop that runs   *)
(* separates those that stay from those pushed inside it (FrameInv).  In   *)
(* each mode there is a reason of its own why a page is not freed under an *)
(* outer pop (PerPoolInv, MissingInv), and why pages are not left empty    *)
(* between others (PageInv, ColdInv).                                      *)
(***************************************************************************)
EXTENDS AutoreleasePool, SequenceTheorems, FiniteSetTheorems, WellFoundedInduction, TLAPS

-----------------------------------------------------------------------------
(* The inductive invariant *)

\* Where a token points to: the placeholder stands for the start of the first page.
Pos(token) == IF token = Placeholder THEN [page |-> 1, index |-> 1] ELSE token

\* The order of the entries.
Before(a, b) == a.page < b.page \/ (a.page = b.page /\ a.index < b.index)

\* An entry that a pop is to release, if it is there.
Above(at, frame) == at.page > frame.page \/ (at.page = frame.page /\ at.index > frame.stop)

\* What is beyond the hot page is empty; below it, pages are full.
PageInv ==
    /\ tls \in {Nil, EMPTY_POOL_PLACEHOLDER} =>
           /\ pages = <<>> /\ frames = <<>>
           /\ tokens = IF tls = Nil THEN <<>> ELSE <<Placeholder>>
    /\ tls \notin {Nil, EMPTY_POOL_PLACEHOLDER} =>
           /\ \A p \in tls + 1 .. Len(pages) : Empty(p)
           /\ ~env.DebugPoolAllocation => \A p \in 1 .. tls - 1 : Full(p)
           /\ frames = <<>> => Len(pages) <= tls + 1

\* A token points to a boundary that is there; tokens come in the order of the stack.
TokenInv ==
    /\ pages # <<>> => \A k \in 1 .. Len(tokens) :
           /\ Pos(tokens[k]).page \in 1 .. Len(pages)
           /\ Pos(tokens[k]).index \in 1 .. Len(pages[Pos(tokens[k]).page])
           /\ pages[Pos(tokens[k]).page][Pos(tokens[k]).index] = POOL_BOUNDARY
    /\ \A j, k \in 1 .. Len(tokens) : j < k => Before(Pos(tokens[j]), Pos(tokens[k]))
    /\ env.DebugPoolAllocation => \A k \in 1 .. Len(tokens) : tokens[k].index = 1

\* What a pop is to release has not been released by the pops inside it, and it will
\* not release the pools below it.
FrameInv ==
    \A i \in 1 .. Len(frames) :
        LET f == frames[i]
        IN  /\ f.page <= tls /\ f.stop <= Len(pages[f.page]) /\ f.stop < COUNT
            /\ f.exit => i = 1 /\ f.page = 1 /\ f.stop = 0
            /\ f.base <= Len(tokens)
            /\ \A k \in 1 .. Len(tokens) : k <= f.base <=> ~Above(Pos(tokens[k]), f)
            /\ i < Len(frames) => f.callback
            /\ i = Len(frames) /\ ~f.callback => Len(tokens) = f.base
            /\ \A j \in i + 1 .. Len(frames) :
                   /\ f.page <= frames[j].page
                   /\ f.page = frames[j].page => f.stop <= frames[j].stop
                   /\ f.base <= frames[j].base

\* With a page for each pool, a pop inside another is on another page.
PerPoolInv ==
    env.DebugPoolAllocation =>
        \A i \in 1 .. Len(frames) :
            /\ frames[i].stop = 0
            /\ \A k \in frames[i].base + 1 .. Len(tokens) : tokens[k].page > frames[i].page
            /\ \A j \in i + 1 .. Len(frames) : frames[j].page > frames[i].page
            /\ frames[i].page > 1 =>
                   IF Empty(frames[i].page)
                   THEN i = Len(frames) /\ ~frames[i].callback /\ tls = frames[i].page
                   ELSE pages[frames[i].page][1] = POOL_BOUNDARY

\* When missing pools are looked for, the stack starts with a pool.
MissingInv ==
    env.DebugMissingPools =>
        /\ pages # <<>> => IF Empty(1) THEN Len(frames) = 1 /\ ~frames[1].callback
                                       ELSE pages[1][1] = POOL_BOUNDARY
        /\ \A i \in 1 .. Len(frames) : \A k \in frames[i].base + 1 .. Len(tokens) :
               Pos(tokens[k]) # [page |-> 1, index |-> 1]
        /\ \A i \in 2 .. Len(frames) : frames[i].page > 1 \/ frames[i].stop > 0

\* The first page is empty only in the pop that frees it.
ColdInv ==
    /\ Debugging /\ pages # <<>> /\ Empty(1) => frames # <<>> /\ frames[1].page = 1
    /\ env.DebugPoolAllocation /\ env \notin UnbalancedModes /\ tls > 1 /\ Empty(1) =>
           \/ tokens # <<>> /\ tokens[1].page = 2
           \/ Len(frames) > 1 /\ frames[2].page = 2

\* All of it.
IInv == TypeOK /\ ~bad /\ PageInv /\ TokenInv /\ FrameInv /\ PerPoolInv /\ MissingInv /\ ColdInv

-----------------------------------------------------------------------------
(* Sequences, pages and positions *)

\* The elements of a sequence.
LEMMA Elements ==
    ASSUME NEW T, NEW s \in Seq(T)
    PROVE  /\ Len(s) \in Nat /\ DOMAIN s = 1 .. Len(s)
           /\ \A i \in 1 .. Len(s) : s[i] \in T
           /\ s = <<>> <=> Len(s) = 0
BY LenProperties, EmptySeq, ElementOfSeq

\* A page and its entries.
LEMMA PageElements ==
    ASSUME NEW ps \in Seq(Seq(Entry)), NEW p \in 1 .. Len(ps)
    PROVE  /\ ps[p] \in Seq(Entry) /\ Len(ps[p]) \in Nat
           /\ \A i \in 1 .. Len(ps[p]) : ps[p][i] \in Entry
           /\ ps[p] = <<>> <=> Len(ps[p]) = 0
<1>1. ps[p] \in Seq(Entry)
    BY Elements
<1>. QED
    BY <1>1, Elements

\* A sequence is made longer.
LEMMA Appended ==
    ASSUME NEW T, NEW s \in Seq(T), NEW e \in T
    PROVE  /\ Append(s, e) \in Seq(T) /\ Len(Append(s, e)) = Len(s) + 1 /\ Len(s) \in Nat
           /\ \A i \in 1 .. Len(s) : Append(s, e)[i] = s[i]
           /\ Append(s, e)[Len(s) + 1] = e
BY AppendProperties, LenProperties

\* The beginning of a sequence.
LEMMA Beginning ==
    ASSUME NEW T, NEW s \in Seq(T), NEW n \in 0 .. Len(s)
    PROVE  /\ SubSeq(s, 1, n) \in Seq(T) /\ Len(SubSeq(s, 1, n)) = n
           /\ \A i \in 1 .. n : SubSeq(s, 1, n)[i] = s[i]
<1>1. n \in Nat /\ \A i \in 1 .. n : s[i] \in T
    BY Elements
<1>. QED
    BY <1>1, SubSeqProperties, Elements

\* One page is replaced.
LEMMA PageReplaced ==
    ASSUME NEW ps \in Seq(Seq(Entry)), NEW p \in 1 .. Len(ps), NEW s \in Seq(Entry)
    PROVE  LET new == [ps EXCEPT ![p] = s]
           IN  /\ new \in Seq(Seq(Entry)) /\ Len(new) = Len(ps)
               /\ new[p] = s /\ \A q \in 1 .. Len(ps) : q # p => new[q] = ps[q]
BY ExceptSeq, Elements

\* page->add(obj).
LEMMA Added ==
    ASSUME NEW ps \in Seq(Seq(Entry)), NEW p \in 1 .. Len(ps), NEW e \in Entry
    PROVE  /\ Add(ps, p, e) \in Seq(Seq(Entry)) /\ Len(Add(ps, p, e)) = Len(ps)
           /\ Len(Add(ps, p, e)[p]) = Len(ps[p]) + 1
           /\ Add(ps, p, e)[p][Len(ps[p]) + 1] = e
           /\ \A i \in 1 .. Len(ps[p]) : Add(ps, p, e)[p][i] = ps[p][i]
           /\ \A q \in 1 .. Len(ps) : q # p => Add(ps, p, e)[q] = ps[q]
<1>1. ps[p] \in Seq(Entry)
    BY Elements
<1>2. Append(ps[p], e) \in Seq(Entry) /\ Len(Append(ps[p], e)) = Len(ps[p]) + 1
      /\ \A i \in 1 .. Len(ps[p]) : Append(ps[p], e)[i] = ps[p][i]
      /\ Append(ps[p], e)[Len(ps[p]) + 1] = e
    BY <1>1, Appended
<1>3. Add(ps, p, e) = [ps EXCEPT ![p] = Append(ps[p], e)]
    BY DEF Add
<1>. QED
    BY <1>2, <1>3, PageReplaced

-----------------------------------------------------------------------------
(* The state *)

\* What the types say of the elements of the variables.
LEMMA Typed ==
    ASSUME TypeOK
    PROVE  /\ COUNT \in Nat /\ COUNT >= 2 /\ tls \in Int /\ tls >= -1 /\ tls <= Len(pages)
           /\ Len(pages) \in Nat /\ (pages = <<>> <=> Len(pages) = 0)
           /\ \A p \in 1 .. Len(pages) :
                  /\ pages[p] \in Seq(Entry) /\ Len(pages[p]) \in Nat /\ Len(pages[p]) <= COUNT
                  /\ Empty(p) <=> Len(pages[p]) = 0
           /\ Len(tokens) \in Nat /\ (tokens = <<>> <=> Len(tokens) = 0)
           /\ \A k \in 1 .. Len(tokens) :
                  /\ tokens[k].page \in Nat /\ tokens[k].index \in Nat
                  /\ Pos(tokens[k]).page \in Nat /\ Pos(tokens[k]).index \in Nat
           /\ Len(frames) \in Nat /\ (frames = <<>> <=> Len(frames) = 0)
           /\ \A i \in 1 .. Len(frames) :
                  /\ frames[i].page \in Nat \ {0} /\ frames[i].stop \in Nat /\ frames[i].base \in Nat
                  /\ frames[i].callback \in BOOLEAN /\ frames[i].exit \in BOOLEAN
<1>1. COUNT \in Nat /\ COUNT >= 2
    BY PageAssumption
<1>2. Len(pages) \in Nat /\ (pages = <<>> <=> Len(pages) = 0)
    BY Elements DEF TypeOK
<1>3. ASSUME NEW p \in 1 .. Len(pages)
      PROVE  /\ pages[p] \in Seq(Entry) /\ Len(pages[p]) \in Nat /\ Len(pages[p]) <= COUNT
             /\ Empty(p) <=> Len(pages[p]) = 0
    BY PageElements DEF TypeOK, Empty
<1>4. Len(tokens) \in Nat /\ (tokens = <<>> <=> Len(tokens) = 0)
      /\ \A k \in 1 .. Len(tokens) : tokens[k] \in Token
    BY Elements DEF TypeOK
<1>5. \A k \in 1 .. Len(tokens) :
          /\ tokens[k].page \in Nat /\ tokens[k].index \in Nat
          /\ Pos(tokens[k]).page \in Nat /\ Pos(tokens[k]).index \in Nat
    BY <1>4 DEF Token, Pos
<1>6. Len(frames) \in Nat /\ (frames = <<>> <=> Len(frames) = 0)
      /\ \A i \in 1 .. Len(frames) : frames[i] \in Frame
    BY Elements DEF TypeOK
<1>7. \A i \in 1 .. Len(frames) :
          /\ frames[i].page \in Nat \ {0} /\ frames[i].stop \in Nat /\ frames[i].base \in Nat
          /\ frames[i].callback \in BOOLEAN /\ frames[i].exit \in BOOLEAN
    BY <1>6 DEF Frame
<1>8. tls \in Int /\ tls >= -1 /\ tls <= Len(pages)
    BY <1>2 DEF TypeOK, EMPTY_POOL_PLACEHOLDER
<1>. QED
    BY <1>1, <1>2, <1>3, <1>4, <1>5, <1>6, <1>7, <1>8

\* What the client has in its pages if there is a hot one.
LEMMA Hot ==
    ASSUME IInv, tls >= 1
    PROVE  /\ hotPage = tls /\ coldPage = 1 /\ tls \in 1 .. Len(pages) /\ pages # <<>>
           /\ \A p \in tls + 1 .. Len(pages) : Len(pages[p]) = 0
           /\ ~env.DebugPoolAllocation => \A p \in 1 .. tls - 1 : Len(pages[p]) = COUNT
           /\ frames = <<>> => Len(pages) <= tls + 1
<1>1. TypeOK /\ PageInv
    BY DEF IInv
<1>2. tls \notin {Nil, EMPTY_POOL_PLACEHOLDER} /\ tls \in Int
    BY <1>1, Typed DEF Nil, EMPTY_POOL_PLACEHOLDER
<1>3. hotPage = tls /\ coldPage = 1
    BY <1>2 DEF hotPage, coldPage
<1>4. tls \in 1 .. Len(pages) /\ pages # <<>>
    BY <1>1, Typed
<1>5. /\ \A p \in tls + 1 .. Len(pages) : Empty(p)
      /\ ~env.DebugPoolAllocation => \A p \in 1 .. tls - 1 : Full(p)
      /\ frames = <<>> => Len(pages) <= tls + 1
    BY <1>1, <1>2 DEF PageInv
<1>6. \A p \in tls + 1 .. Len(pages) : p \in 1 .. Len(pages)
    BY <1>4
<1>. QED
    BY <1>1, <1>3, <1>4, <1>5, <1>6, Typed DEF Full

\* What the client has if there is none.
LEMMA NoPage ==
    ASSUME IInv, tls < 1
    PROVE  /\ tls \in {Nil, EMPTY_POOL_PLACEHOLDER} /\ hotPage = Nil
           /\ pages = <<>> /\ frames = <<>> /\ tokens = IF tls = Nil THEN <<>> ELSE <<Placeholder>>
<1>1. TypeOK /\ PageInv
    BY DEF IInv
<1>2. tls \in {Nil, EMPTY_POOL_PLACEHOLDER}
    BY <1>1, Typed DEF Nil, EMPTY_POOL_PLACEHOLDER
<1>. QED
    BY <1>1, <1>2 DEF PageInv, hotPage, Nil, EMPTY_POOL_PLACEHOLDER

-----------------------------------------------------------------------------
(* An entry is added *)

\* An entry is added to page q, the hot one or the next, which had n entries; the
\* token, if there is one, points to it.
Grown(q, n, e) ==
    /\ q \in {tls, tls + 1} /\ tls' = q
    /\ n = IF q <= Len(pages) THEN Len(pages[q]) ELSE 0
    /\ n < COUNT
    /\ q = tls + 1 => Full(tls) \/ env.DebugPoolAllocation
    /\ pages' \in Seq(Seq(Entry))
    /\ Len(pages') = IF q <= Len(pages) THEN Len(pages) ELSE q
    /\ Len(pages'[q]) = n + 1 /\ pages'[q][n + 1] = e
    /\ \A i \in 1 .. n : pages'[q][i] = pages[q][i]
    /\ \A p \in 1 .. Len(pages') : p # q => p \in 1 .. Len(pages) /\ pages'[p] = pages[p]

\* autoreleaseFullPage goes to the page after the hot one.
LEMMA FullPageGrows ==
    ASSUME IInv, tls >= 1, NEW e \in Entry, AutoreleaseFullPage(e, tls),
           Full(tls) \/ env.DebugPoolAllocation
    PROVE  Grown(tls + 1, 0, e)
<1>1. /\ tls \in 1 .. Len(pages) /\ \A p \in tls + 1 .. Len(pages) : Len(pages[p]) = 0
    BY Hot
<1>2. /\ pages \in Seq(Seq(Entry)) /\ Len(pages) \in Nat /\ COUNT \in Nat /\ COUNT >= 2 /\ tls \in Int
    BY Typed DEF IInv, TypeOK
<1>3. NextPage(tls) = tls + 1
  <2>1. \A p \in tls + 1 .. Len(pages) : ~Full(p)
    BY <1>1, <1>2 DEF Full
  <2>2. CASE tls + 1 <= Len(pages)
    <3>. DEFINE free == {r \in tls + 1 .. Len(pages) : ~Full(r)}
    <3>1. tls + 1 \in free /\ \A r \in free : tls + 1 <= r
        BY <1>1, <1>2, <2>1, <2>2
    <3>2. \A q \in free : (\A r \in free : q <= r) => q = tls + 1
        BY <1>2, <3>1
    <3>3. (CHOOSE q \in free : \A r \in free : q <= r) = tls + 1
        BY <3>1, <3>2
    <3>4. free # {}
        BY <3>1
    <3>. QED
        BY <3>3, <3>4 DEF NextPage
  <2>3. CASE ~(tls + 1 <= Len(pages))
    <3>1. {r \in tls + 1 .. Len(pages) : ~Full(r)} = {}
        BY <1>2, <2>3
    <3>2. NextPage(tls) = Len(pages) + 1
        BY <3>1 DEF NextPage
    <3>. QED
        BY <1>1, <1>2, <2>3, <3>2
  <2>. QED
    BY <2>2, <2>3
<1>. DEFINE ps == IF tls + 1 > Len(pages) THEN Append(pages, <<>>) ELSE pages
<1>4. tls' = tls + 1 /\ pages' = Add(ps, tls + 1, e)
    BY <1>3 DEF AutoreleaseFullPage
<1>5. /\ ps \in Seq(Seq(Entry))
      /\ Len(ps) = IF tls + 1 <= Len(pages) THEN Len(pages) ELSE tls + 1
      /\ \A p \in 1 .. Len(pages) : ps[p] = pages[p]
      /\ Len(ps[tls + 1]) = 0
      /\ tls + 1 \in 1 .. Len(ps)
      /\ \A p \in 1 .. Len(ps) : p # tls + 1 => p \in 1 .. Len(pages)
  <2>1. CASE tls + 1 <= Len(pages)
    BY <1>1, <1>2, <2>1
  <2>2. CASE ~(tls + 1 <= Len(pages))
    <3>1. ps = Append(pages, <<>>) /\ Len(pages) = tls
        BY <1>1, <1>2, <2>2
    <3>2. <<>> \in Seq(Entry) /\ Len(<<>>) = 0
        BY EmptySeq
    <3>3. ps \in Seq(Seq(Entry)) /\ Len(ps) = tls + 1 /\ ps[tls + 1] = <<>>
          /\ \A p \in 1 .. Len(pages) : ps[p] = pages[p]
        BY <1>2, <3>1, <3>2, Appended
    <3>. QED
        BY <1>1, <1>2, <2>2, <3>1, <3>2, <3>3
  <2>. QED
    BY <2>1, <2>2
<1>. HIDE DEF ps
<1>6. /\ pages' \in Seq(Seq(Entry)) /\ Len(pages') = Len(ps)
      /\ Len(pages'[tls + 1]) = 1 /\ pages'[tls + 1][1] = e
      /\ \A p \in 1 .. Len(ps) : p # tls + 1 => pages'[p] = ps[p]
  <2>1. /\ Add(ps, tls + 1, e) \in Seq(Seq(Entry)) /\ Len(Add(ps, tls + 1, e)) = Len(ps)
        /\ Len(Add(ps, tls + 1, e)[tls + 1]) = Len(ps[tls + 1]) + 1
        /\ Add(ps, tls + 1, e)[tls + 1][Len(ps[tls + 1]) + 1] = e
        /\ \A q \in 1 .. Len(ps) : q # tls + 1 => Add(ps, tls + 1, e)[q] = ps[q]
    <3>1. PICK r \in 1 .. Len(ps) : r = tls + 1
        BY <1>5
    <3>2. PICK t \in Seq(Seq(Entry)) : t = ps
        BY <1>5
    <3>3. r \in 1 .. Len(t)
        BY <3>1, <3>2
    <3>4. /\ Add(t, r, e) \in Seq(Seq(Entry)) /\ Len(Add(t, r, e)) = Len(t)
          /\ Len(Add(t, r, e)[r]) = Len(t[r]) + 1
          /\ Add(t, r, e)[r][Len(t[r]) + 1] = e
          /\ \A q \in 1 .. Len(t) : q # r => Add(t, r, e)[q] = t[q]
        BY <3>3, Added
    <3>. QED
        BY <3>1, <3>2, <3>4
  <2>. QED
    BY <1>4, <1>5, <2>1
<1>7. (IF tls + 1 <= Len(pages) THEN Len(pages[tls + 1]) ELSE 0) = 0 /\ 0 < COUNT
    BY <1>1, <1>2
<1>8. Len(pages') = IF tls + 1 <= Len(pages) THEN Len(pages) ELSE tls + 1
    BY <1>5, <1>6
<1>9. \A p \in 1 .. Len(pages') : p # tls + 1 => p \in 1 .. Len(pages) /\ pages'[p] = pages[p]
    BY <1>5, <1>6
<1>10. Len(pages'[tls + 1]) = 0 + 1 /\ pages'[tls + 1][0 + 1] = e
    BY <1>6
<1>11. \A i \in 1 .. 0 : pages'[tls + 1][i] = pages[tls + 1][i]
    OBVIOUS
<1>. QED
    BY <1>4, <1>6, <1>7, <1>8, <1>9, <1>10, <1>11 DEF Grown

\* autoreleaseFast, if there is a hot page.
LEMMA FastGrows ==
    ASSUME IInv, tls >= 1, NEW e \in Entry, AutoreleaseFast(e)
    PROVE  \E q, n : Grown(q, n, e)
<1>1. /\ tls \in 1 .. Len(pages) /\ hotPage = tls /\ tls # Nil
    BY Hot DEF Nil
<1>2. /\ pages \in Seq(Seq(Entry)) /\ Len(pages) \in Nat /\ COUNT \in Nat /\ tls \in Int
      /\ Len(pages[tls]) \in Nat /\ Len(pages[tls]) <= COUNT
    BY <1>1, Typed DEF IInv, TypeOK
<1>3. CASE Full(tls) /\ AutoreleaseFullPage(e, tls)
    BY <1>3, FullPageGrows
<1>4. CASE ~Full(tls) /\ pages' = Add(pages, tls, e) /\ tls' = tls
  <2>1. /\ Add(pages, tls, e) \in Seq(Seq(Entry)) /\ Len(Add(pages, tls, e)) = Len(pages)
        /\ Len(Add(pages, tls, e)[tls]) = Len(pages[tls]) + 1
        /\ Add(pages, tls, e)[tls][Len(pages[tls]) + 1] = e
        /\ \A i \in 1 .. Len(pages[tls]) : Add(pages, tls, e)[tls][i] = pages[tls][i]
        /\ \A q \in 1 .. Len(pages) : q # tls => Add(pages, tls, e)[q] = pages[q]
    BY <1>1, <1>2, Added
  <2>2. Len(pages[tls]) < COUNT
    BY <1>2, <1>4 DEF Full
  <2>3. PICK n : n = Len(pages[tls])
    OBVIOUS
  <2>4. /\ n = IF tls <= Len(pages) THEN Len(pages[tls]) ELSE 0
        /\ n < COUNT /\ tls # tls + 1
        /\ Len(pages') = IF tls <= Len(pages) THEN Len(pages) ELSE tls
    BY <1>1, <1>2, <1>4, <2>1, <2>2, <2>3
  <2>5. /\ Len(pages'[tls]) = n + 1 /\ pages'[tls][n + 1] = e
        /\ \A i \in 1 .. n : pages'[tls][i] = pages[tls][i]
        /\ \A p \in 1 .. Len(pages') : p # tls => p \in 1 .. Len(pages) /\ pages'[p] = pages[p]
        /\ pages' \in Seq(Seq(Entry))
    BY <1>4, <2>1, <2>3
  <2>6. Grown(tls, n, e)
    BY <1>4, <2>4, <2>5 DEF Grown
  <2>. QED
    BY <2>6
<1>. QED
    BY <1>1, <1>3, <1>4 DEF AutoreleaseFast

\* What the invariant says of a pop that runs.
LEMMA Framed ==
    ASSUME IInv, NEW i \in 1 .. Len(frames)
    PROVE  /\ frames[i].page <= tls /\ tls >= 1 /\ frames[i].page \in 1 .. Len(pages)
           /\ frames[i].stop <= Len(pages[frames[i].page]) /\ frames[i].stop < COUNT
           /\ frames[i].exit => i = 1 /\ frames[i].page = 1 /\ frames[i].stop = 0
           /\ frames[i].base <= Len(tokens)
           /\ \A k \in 1 .. Len(tokens) : k <= frames[i].base <=> ~Above(Pos(tokens[k]), frames[i])
           /\ i < Len(frames) => frames[i].callback
           /\ i = Len(frames) /\ ~frames[i].callback => Len(tokens) = frames[i].base
           /\ \A j \in i + 1 .. Len(frames) :
                  /\ frames[i].page <= frames[j].page
                  /\ frames[i].page = frames[j].page => frames[i].stop <= frames[j].stop
                  /\ frames[i].base <= frames[j].base
           /\ frames[i].page \in Nat \ {0} /\ frames[i].stop \in Nat /\ frames[i].base \in Nat
<1>1. FrameInv /\ TypeOK
    BY DEF IInv
<1>2. frames[i].page \in Nat \ {0} /\ frames[i].stop \in Nat /\ frames[i].base \in Nat
    BY <1>1, Typed
<1>3. frames[i].page <= tls
    BY <1>1 DEF FrameInv
<1>4. tls >= 1 /\ frames[i].page \in 1 .. Len(pages)
    BY <1>1, <1>2, <1>3, Typed
<1>. QED
    BY <1>1, <1>2, <1>3, <1>4 DEF FrameInv

\* What the invariant says of a token.
LEMMA Tokened ==
    ASSUME IInv, tls >= 1, NEW k \in 1 .. Len(tokens)
    PROVE  /\ Pos(tokens[k]).page \in 1 .. tls
           /\ Pos(tokens[k]).index \in 1 .. Len(pages[Pos(tokens[k]).page])
           /\ pages[Pos(tokens[k]).page][Pos(tokens[k]).index] = POOL_BOUNDARY
           /\ \A j \in 1 .. Len(tokens) : j < k => Before(Pos(tokens[j]), Pos(tokens[k]))
           /\ env.DebugPoolAllocation => tokens[k].index = 1 /\ tokens[k] # Placeholder
<1>1. TokenInv /\ TypeOK
    BY DEF IInv
<1>2. pages # <<>> /\ tls \in 1 .. Len(pages) /\ \A p \in tls + 1 .. Len(pages) : Len(pages[p]) = 0
    BY Hot
<1>3. /\ Pos(tokens[k]).page \in 1 .. Len(pages)
      /\ Pos(tokens[k]).index \in 1 .. Len(pages[Pos(tokens[k]).page])
      /\ pages[Pos(tokens[k]).page][Pos(tokens[k]).index] = POOL_BOUNDARY
    BY <1>1, <1>2 DEF TokenInv
<1>4. Pos(tokens[k]).page \in 1 .. tls
    BY <1>1, <1>2, <1>3, Typed
<1>5. env.DebugPoolAllocation => tokens[k].index = 1 /\ tokens[k] # Placeholder
    BY <1>1 DEF TokenInv, Placeholder
<1>. QED
    BY <1>1, <1>3, <1>4, <1>5 DEF TokenInv

\* The boundary of a new pool, if it is one.
Pushed(q, n, e) ==
    \/ tokens' = tokens /\ (q = tls + 1 => Full(tls))
    \/ /\ tokens' = Append(tokens, [page |-> q, index |-> n + 1]) /\ e = POOL_BOUNDARY
       /\ env.DebugPoolAllocation => q = tls + 1

\* Nothing else is moved.
LEMMA GrowKeeps ==
    ASSUME IInv, tls >= 1, NEW q, NEW n, NEW e, Grown(q, n, e)
    PROVE  /\ q \in 1 .. Len(pages') /\ q >= tls /\ q \in Nat /\ n \in Nat /\ (q = tls + 1 => n = 0)
           /\ Len(pages') \in Nat /\ Len(pages) <= Len(pages')
           /\ \A p \in 1 .. Len(pages) :
                  /\ p \in 1 .. Len(pages') /\ Len(pages'[p]) \in Nat
                  /\ Len(pages[p]) <= Len(pages'[p])
                  /\ \A i \in 1 .. Len(pages[p]) : pages'[p][i] = pages[p][i]
           /\ \A p \in 1 .. Len(pages') :
                  Len(pages'[p]) = IF p = q THEN n + 1 ELSE Len(pages[p])
           /\ \A p \in 1 .. Len(pages') : p # q => p \in 1 .. Len(pages)
<1>1. /\ tls \in 1 .. Len(pages) /\ \A p \in tls + 1 .. Len(pages) : Len(pages[p]) = 0
    BY Hot
<1>2. /\ Len(pages) \in Nat /\ tls \in Int
      /\ \A p \in 1 .. Len(pages) : Len(pages[p]) \in Nat
    BY Typed DEF IInv
<1>3. /\ q \in 1 .. Len(pages') /\ q >= tls /\ q \in Nat
      /\ Len(pages') \in Nat /\ Len(pages) <= Len(pages')
    BY <1>1, <1>2 DEF Grown
<1>4. n \in Nat /\ (q = tls + 1 => n = 0)
    BY <1>1, <1>2 DEF Grown
<1>5. \A p \in 1 .. Len(pages') : Len(pages'[p]) = IF p = q THEN n + 1 ELSE Len(pages[p])
    BY DEF Grown
<1>6. ASSUME NEW p \in 1 .. Len(pages)
      PROVE  /\ p \in 1 .. Len(pages') /\ Len(pages'[p]) \in Nat
             /\ Len(pages[p]) <= Len(pages'[p])
             /\ \A i \in 1 .. Len(pages[p]) : pages'[p][i] = pages[p][i]
  <2>1. p \in 1 .. Len(pages')
    BY <1>2, <1>3
  <2>2. CASE p = q
    <3>1. n = Len(pages[q])
        BY <1>2, <2>2 DEF Grown
    <3>. QED
        BY <1>4, <2>1, <2>2, <3>1 DEF Grown
  <2>3. CASE p # q
    BY <1>2, <2>1, <2>3 DEF Grown
  <2>. QED
    BY <2>2, <2>3
<1>7. \A p \in 1 .. Len(pages') : p # q => p \in 1 .. Len(pages)
    BY DEF Grown
<1>. QED
    BY <1>3, <1>4, <1>5, <1>6, <1>7

\* What is added is beyond every token and every pop.
LEMMA NewIsLast ==
    ASSUME IInv, tls >= 1, NEW q, NEW n, NEW e, Grown(q, n, e)
    PROVE  LET new == [page |-> q, index |-> n + 1]
           IN  /\ \A k \in 1 .. Len(tokens) : Before(Pos(tokens[k]), new)
               /\ \A i \in 1 .. Len(frames) : Above(new, frames[i])
<1>1. /\ q \in Nat /\ q >= tls /\ n \in Nat /\ tls \in 1 .. Len(pages)
      /\ (q = tls \/ q = tls + 1) /\ (q = tls => n = Len(pages[tls]))
    BY GrowKeeps, Hot DEF Grown
<1>2. Len(pages) \in Nat
    BY Typed DEF IInv
<1>3. ASSUME NEW k \in 1 .. Len(tokens) PROVE Before(Pos(tokens[k]), [page |-> q, index |-> n + 1])
  <2>1. Pos(tokens[k]).page \in 1 .. tls /\ Pos(tokens[k]).index \in 1 .. Len(pages[Pos(tokens[k]).page])
    BY Tokened
  <2>2. Pos(tokens[k]).page < q \/ (Pos(tokens[k]).page = q /\ Pos(tokens[k]).index < n + 1)
    BY <1>1, <1>2, <2>1
  <2>. QED
    BY <2>2 DEF Before
<1>4. ASSUME NEW i \in 1 .. Len(frames) PROVE Above([page |-> q, index |-> n + 1], frames[i])
  <2>1. frames[i].page \in Nat /\ frames[i].page <= tls /\ frames[i].stop \in Nat
        /\ frames[i].stop <= Len(pages[frames[i].page])
    BY Framed
  <2>2. q > frames[i].page \/ (q = frames[i].page /\ n + 1 > frames[i].stop)
    BY <1>1, <1>2, <2>1
  <2>. QED
    BY <2>2 DEF Above
<1>. QED
    BY <1>3, <1>4

\* The tokens after it.
LEMMA TokensGrow ==
    ASSUME IInv, tls >= 1, NEW q, NEW n, NEW e, Grown(q, n, e), Pushed(q, n, e)
    PROVE  /\ tokens' \in Seq(Token) /\ Len(tokens') \in Nat /\ Len(tokens) <= Len(tokens')
           /\ \A k \in 1 .. Len(tokens) : tokens'[k] = tokens[k]
           /\ \A k \in 1 .. Len(tokens') :
                  \/ k \in 1 .. Len(tokens)
                  \/ /\ k = Len(tokens) + 1 /\ e = POOL_BOUNDARY
                     /\ tokens'[k] = [page |-> q, index |-> n + 1] /\ Pos(tokens'[k]) = tokens'[k]
                     /\ env.DebugPoolAllocation => q = tls + 1
<1>1. q \in Nat /\ q >= tls /\ n \in Nat /\ tls \in Int /\ q # 0
    BY GrowKeeps, Typed DEF IInv
<1>2. [page |-> q, index |-> n + 1] \in Token
    BY <1>1 DEF Token
<1>3. tokens \in Seq(Token) /\ Len(tokens) \in Nat
    BY Typed DEF IInv, TypeOK
<1>4. CASE tokens' = tokens
    BY <1>3, <1>4
<1>5. CASE /\ tokens' = Append(tokens, [page |-> q, index |-> n + 1]) /\ e = POOL_BOUNDARY
           /\ env.DebugPoolAllocation => q = tls + 1
  <2>1. /\ tokens' \in Seq(Token) /\ Len(tokens') = Len(tokens) + 1
        /\ \A k \in 1 .. Len(tokens) : tokens'[k] = tokens[k]
        /\ tokens'[Len(tokens) + 1] = [page |-> q, index |-> n + 1]
    BY <1>2, <1>3, <1>5, Appended
  <2>2. Pos([page |-> q, index |-> n + 1]) = [page |-> q, index |-> n + 1]
    BY <1>1 DEF Pos, Placeholder
  <2>3. \A k \in 1 .. Len(tokens') : k \in 1 .. Len(tokens) \/ k = Len(tokens) + 1
    BY <1>3, <2>1
  <2>. QED
    BY <1>3, <1>5, <2>1, <2>2, <2>3
<1>. QED
    BY <1>4, <1>5 DEF Pushed

\* The invariant holds when an entry was added to the pages.
LEMMA GrowStep ==
    ASSUME IInv, Client, tls >= 1, NEW q, NEW n, NEW e \in Entry, Grown(q, n, e), Pushed(q, n, e),
           UNCHANGED <<env, frames, bad>>
    PROVE  IInv'
<1>. DEFINE new == [page |-> q, index |-> n + 1]
<1>1. /\ q \in 1 .. Len(pages') /\ q >= tls /\ q \in Nat /\ n \in Nat /\ (q = tls + 1 => n = 0)
      /\ Len(pages') \in Nat /\ Len(pages) <= Len(pages')
      /\ \A p \in 1 .. Len(pages) :
             /\ p \in 1 .. Len(pages') /\ Len(pages'[p]) \in Nat
             /\ Len(pages[p]) <= Len(pages'[p])
             /\ \A i \in 1 .. Len(pages[p]) : pages'[p][i] = pages[p][i]
      /\ \A p \in 1 .. Len(pages') : Len(pages'[p]) = IF p = q THEN n + 1 ELSE Len(pages[p])
      /\ \A p \in 1 .. Len(pages') : p # q => p \in 1 .. Len(pages)
    BY GrowKeeps
<1>20. /\ q \in 1 .. Len(pages') /\ q >= tls /\ q \in Nat /\ n \in Nat /\ (q = tls + 1 => n = 0)
       /\ Len(pages') \in Nat /\ Len(pages) <= Len(pages')
    BY <1>1
<1>21. \A p \in 1 .. Len(pages) :
           /\ p \in 1 .. Len(pages') /\ Len(pages'[p]) \in Nat
           /\ Len(pages[p]) <= Len(pages'[p])
           /\ \A i \in 1 .. Len(pages[p]) : pages'[p][i] = pages[p][i]
    BY <1>1
<1>22. \A p \in 1 .. Len(pages') : p # q => p \in 1 .. Len(pages) /\ Len(pages'[p]) = Len(pages[p])
    BY <1>1
<1>2. /\ \A k \in 1 .. Len(tokens) : Before(Pos(tokens[k]), new)
      /\ \A i \in 1 .. Len(frames) : Above(new, frames[i])
    BY NewIsLast
<1>3. /\ tokens' \in Seq(Token) /\ Len(tokens') \in Nat /\ Len(tokens) <= Len(tokens')
      /\ \A k \in 1 .. Len(tokens) : tokens'[k] = tokens[k]
      /\ \A k \in 1 .. Len(tokens') :
             \/ k \in 1 .. Len(tokens)
             \/ /\ k = Len(tokens) + 1 /\ e = POOL_BOUNDARY
                /\ tokens'[k] = new /\ Pos(tokens'[k]) = new
                /\ env.DebugPoolAllocation => q = tls + 1
    BY TokensGrow
<1>4. /\ tls' = q /\ n < COUNT /\ pages' \in Seq(Seq(Entry))
      /\ (q = tls \/ q = tls + 1)
      /\ Len(pages'[q]) = n + 1 /\ pages'[q][n + 1] = e
    BY DEF Grown
<1>5. /\ TypeOK /\ ~bad
      /\ COUNT \in Nat /\ COUNT >= 2 /\ tls \in Int
      /\ Len(pages) \in Nat /\ Len(tokens) \in Nat /\ Len(frames) \in Nat
      /\ \A p \in 1 .. Len(pages) : Len(pages[p]) \in Nat /\ Len(pages[p]) <= COUNT
    BY Typed DEF IInv
<1>6. /\ tls \in 1 .. Len(pages)
      /\ \A p \in tls + 1 .. Len(pages) : Len(pages[p]) = 0
      /\ ~env.DebugPoolAllocation => \A p \in 1 .. tls - 1 : Len(pages[p]) = COUNT
      /\ frames = <<>> => Len(pages) <= tls + 1
    BY Hot
<1>7. env' = env /\ frames' = frames /\ bad' = bad
    OBVIOUS
<1>8. new.page = q /\ new.index = n + 1
    OBVIOUS
<1>9. \A p \in 1 .. Len(pages') : Len(pages'[p]) \in Nat /\ (pages'[p] = <<>> <=> Len(pages'[p]) = 0)
    BY <1>4, PageElements
<1>10. pages' # <<>> /\ pages # <<>>
    BY <1>1, <1>4, <1>5, <1>6, Elements
<1>11. \A i \in 1 .. Len(frames) : i = Len(frames) => frames[i].callback
    BY <1>5, Elements DEF Client, Top, TypeOK
<1>. HIDE DEF new
<1>12. TypeOK'
  <2>1. tls' \in 0 .. Len(pages')
    BY <1>1, <1>4
  <2>2. ASSUME NEW p \in 1 .. Len(pages') PROVE Len(pages'[p]) <= COUNT
    <3>1. CASE p = q
        BY <1>4, <1>5, <1>20, <3>1
    <3>2. CASE p # q
        BY <1>5, <1>22, <3>2
    <3>. QED
        BY <3>1, <3>2
  <2>. QED
    BY <1>3, <1>4, <1>5, <1>7, <2>1, <2>2 DEF TypeOK
<1>13. ~bad'
    BY <1>5, <1>7
<1>14. PageInv'
  <2>1. tls' \notin {Nil, EMPTY_POOL_PLACEHOLDER}
    BY <1>1, <1>4 DEF Nil, EMPTY_POOL_PLACEHOLDER
  <2>2. ASSUME NEW p \in q + 1 .. Len(pages') PROVE Len(pages'[p]) = 0
    <3>1. p \in 1 .. Len(pages') /\ p # q /\ p > tls
        BY <1>5, <1>20
    <3>2. p \in tls + 1 .. Len(pages) /\ Len(pages'[p]) = Len(pages[p])
        BY <1>5, <1>22, <3>1
    <3>. QED
        BY <1>6, <3>2
  <2>3. ASSUME ~env.DebugPoolAllocation, NEW p \in 1 .. q - 1 PROVE Len(pages'[p]) = COUNT
    <3>1. p \in 1 .. Len(pages') /\ p # q /\ Len(pages'[p]) = Len(pages[p])
        BY <1>1
    <3>2. q = tls + 1 => Full(tls)
        BY <2>3 DEF Grown
    <3>. QED
        BY <1>4, <1>5, <1>6, <2>3, <3>1, <3>2 DEF Full
  <2>4. frames = <<>> => Len(pages') <= q + 1
    <3>1. Len(pages') = Len(pages) \/ Len(pages') = q
        BY DEF Grown
    <3>. QED
        BY <1>1, <1>4, <1>5, <1>6, <3>1
  <2>5. \A p \in q + 1 .. Len(pages') : p \in 1 .. Len(pages')
    BY <1>1
  <2>6. \A p \in q + 1 .. Len(pages') : Empty(p)'
    BY <2>2, <2>5, <1>9 DEF Empty
  <2>7. ~env.DebugPoolAllocation => \A p \in 1 .. q - 1 : Full(p)'
    BY <2>3 DEF Full
  <2>. QED
    BY <1>4, <1>7, <2>1, <2>4, <2>6, <2>7 DEF PageInv
<1>15. TokenInv'
  <2>1. ASSUME NEW k \in 1 .. Len(tokens')
        PROVE  /\ Pos(tokens'[k]).page \in 1 .. Len(pages')
               /\ Pos(tokens'[k]).index \in 1 .. Len(pages'[Pos(tokens'[k]).page])
               /\ pages'[Pos(tokens'[k]).page][Pos(tokens'[k]).index] = POOL_BOUNDARY
    <3>1. CASE k \in 1 .. Len(tokens)
        <4>1. /\ Pos(tokens[k]).page \in 1 .. tls
              /\ Pos(tokens[k]).index \in 1 .. Len(pages[Pos(tokens[k]).page])
              /\ pages[Pos(tokens[k]).page][Pos(tokens[k]).index] = POOL_BOUNDARY
            BY <3>1, Tokened
        <4>2. Pos(tokens[k]).page \in 1 .. Len(pages)
            BY <1>5, <1>6, <4>1
        <4>3. PICK p \in 1 .. Len(pages) : p = Pos(tokens[k]).page
            BY <4>2
        <4>4. PICK i \in 1 .. Len(pages[p]) : i = Pos(tokens[k]).index
            BY <4>1, <4>3
        <4>5. Len(pages[p]) \in Nat
            BY <1>5
        <4>6. p \in 1 .. Len(pages') /\ Len(pages'[p]) \in Nat /\ Len(pages[p]) <= Len(pages'[p])
              /\ pages'[p][i] = pages[p][i]
            BY <1>21
        <4>7. i \in 1 .. Len(pages'[p]) /\ pages'[p][i] = POOL_BOUNDARY
            BY <4>1, <4>3, <4>4, <4>5, <4>6
        <4>8. tokens'[k] = tokens[k]
            BY <1>3, <3>1
        <4>. QED
            BY <4>3, <4>4, <4>6, <4>7, <4>8
    <3>2. CASE e = POOL_BOUNDARY /\ Pos(tokens'[k]) = new
        <4>1. n + 1 \in 1 .. Len(pages'[q])
            BY <1>4, <1>20
        <4>. QED
            BY <1>4, <1>8, <1>20, <3>2, <4>1
    <3>. QED
        BY <1>3, <3>1, <3>2
  <2>2. ASSUME NEW j \in 1 .. Len(tokens'), NEW k \in 1 .. Len(tokens'), j < k
        PROVE  Before(Pos(tokens'[j]), Pos(tokens'[k]))
    <3>1. j \in 1 .. Len(tokens)
        BY <1>3, <1>5, <2>2
    <3>2. CASE k \in 1 .. Len(tokens)
        BY <1>3, <2>2, <3>1, <3>2, Tokened
    <3>3. CASE Pos(tokens'[k]) = new
        BY <1>2, <1>3, <3>1, <3>3
    <3>. QED
        BY <1>3, <3>2, <3>3
  <2>3. ASSUME env.DebugPoolAllocation, NEW k \in 1 .. Len(tokens') PROVE tokens'[k].index = 1
    <3>1. CASE k \in 1 .. Len(tokens)
        BY <1>3, <2>3, <3>1, Tokened
    <3>2. CASE tokens'[k] = new /\ q = tls + 1
        BY <1>1, <1>8, <3>2
    <3>. QED
        BY <1>3, <2>3, <3>1, <3>2
  <2>. QED
    BY <1>7, <2>1, <2>2, <2>3 DEF TokenInv
<1>16. FrameInv'
  <2>. SUFFICES ASSUME NEW i \in 1 .. Len(frames)
                PROVE  /\ frames[i].page <= tls' /\ frames[i].stop <= Len(pages'[frames[i].page])
                       /\ frames[i].stop < COUNT
                       /\ frames[i].exit => i = 1 /\ frames[i].page = 1 /\ frames[i].stop = 0
                       /\ frames[i].base <= Len(tokens')
                       /\ \A k \in 1 .. Len(tokens') :
                              k <= frames[i].base <=> ~Above(Pos(tokens'[k]), frames[i])
                       /\ i < Len(frames) => frames[i].callback
                       /\ i = Len(frames) /\ ~frames[i].callback => Len(tokens') = frames[i].base
                       /\ \A j \in i + 1 .. Len(frames) :
                              /\ frames[i].page <= frames[j].page
                              /\ frames[i].page = frames[j].page => frames[i].stop <= frames[j].stop
                              /\ frames[i].base <= frames[j].base
    BY <1>7 DEF FrameInv
  <2>1. /\ frames[i].page <= tls /\ frames[i].page \in 1 .. Len(pages)
        /\ frames[i].page \in Nat \ {0} /\ frames[i].stop \in Nat /\ frames[i].base \in Nat
        /\ frames[i].stop <= Len(pages[frames[i].page]) /\ frames[i].stop < COUNT
        /\ frames[i].exit => i = 1 /\ frames[i].page = 1 /\ frames[i].stop = 0
        /\ frames[i].base <= Len(tokens)
        /\ \A k \in 1 .. Len(tokens) : k <= frames[i].base <=> ~Above(Pos(tokens[k]), frames[i])
        /\ i < Len(frames) => frames[i].callback
        /\ \A j \in i + 1 .. Len(frames) :
               /\ frames[i].page <= frames[j].page
               /\ frames[i].page = frames[j].page => frames[i].stop <= frames[j].stop
               /\ frames[i].base <= frames[j].base
    BY Framed
  <2>2. frames[i].page <= tls'
    <3>1. frames[i].page <= tls /\ frames[i].page \in Nat
        BY <2>1
    <3>. QED
        BY <1>4, <1>5, <1>20, <3>1
  <2>3. frames[i].stop <= Len(pages'[frames[i].page])
    <3>1. PICK p \in 1 .. Len(pages) : p = frames[i].page
        BY <2>1
    <3>2. frames[i].stop <= Len(pages[p]) /\ frames[i].stop \in Nat
        BY <2>1, <3>1
    <3>3. Len(pages[p]) \in Nat /\ Len(pages[p]) <= Len(pages'[p]) /\ Len(pages'[p]) \in Nat
        BY <1>5, <1>21
    <3>. QED
        BY <3>1, <3>2, <3>3
  <2>4. frames[i].base <= Len(tokens')
    BY <1>3, <1>5, <2>1
  <2>5. ASSUME NEW k \in 1 .. Len(tokens')
        PROVE  k <= frames[i].base <=> ~Above(Pos(tokens'[k]), frames[i])
    <3>1. CASE k \in 1 .. Len(tokens)
        BY <1>3, <2>1, <3>1
    <3>2. CASE k = Len(tokens) + 1 /\ Pos(tokens'[k]) = new
        BY <1>2, <1>5, <2>1, <3>2
    <3>. QED
        BY <1>3, <3>1, <3>2
  <2>. QED
    BY <1>11, <2>1, <2>2, <2>3, <2>4, <2>5
<1>17. PerPoolInv'
  <2>. SUFFICES ASSUME env.DebugPoolAllocation, NEW i \in 1 .. Len(frames)
                PROVE  /\ frames[i].stop = 0
                       /\ \A k \in frames[i].base + 1 .. Len(tokens') : tokens'[k].page > frames[i].page
                       /\ \A j \in i + 1 .. Len(frames) : frames[j].page > frames[i].page
                       /\ frames[i].page > 1 =>
                              ~(pages'[frames[i].page] = <<>>) /\ pages'[frames[i].page][1] = POOL_BOUNDARY
    BY <1>7 DEF PerPoolInv, Empty
  <2>1. /\ frames[i].stop = 0
        /\ \A k \in frames[i].base + 1 .. Len(tokens) : tokens[k].page > frames[i].page
        /\ \A j \in i + 1 .. Len(frames) : frames[j].page > frames[i].page
        /\ frames[i].page > 1 =>
               IF Empty(frames[i].page)
               THEN i = Len(frames) /\ ~frames[i].callback /\ tls = frames[i].page
               ELSE pages[frames[i].page][1] = POOL_BOUNDARY
    BY DEF IInv, PerPoolInv
  <2>2. frames[i].page <= tls /\ frames[i].page \in 1 .. Len(pages) /\ frames[i].base \in Nat
    BY Framed
  <2>3. ASSUME NEW k \in frames[i].base + 1 .. Len(tokens') PROVE tokens'[k].page > frames[i].page
    <3>1. k \in 1 .. Len(tokens')
        BY <1>3, <2>2
    <3>2. CASE k \in 1 .. Len(tokens)
        <4>1. k \in frames[i].base + 1 .. Len(tokens)
            BY <1>3, <1>5, <2>2, <3>2
        <4>. QED
            BY <1>3, <2>1, <3>2, <4>1
    <3>3. CASE tokens'[k] = new /\ q = tls + 1
        BY <1>1, <1>5, <1>8, <2>2, <3>3
    <3>. QED
        BY <1>3, <3>1, <3>2, <3>3
  <2>4. ASSUME frames[i].page > 1
        PROVE  pages'[frames[i].page] # <<>> /\ pages'[frames[i].page][1] = POOL_BOUNDARY
    <3>1. ~Empty(frames[i].page) /\ pages[frames[i].page][1] = POOL_BOUNDARY
        BY <1>11, <2>1, <2>4
    <3>2. Len(pages[frames[i].page]) \in Nat \ {0}
        BY <1>5, <2>2, <3>1, Typed DEF IInv
    <3>3. 1 \in 1 .. Len(pages[frames[i].page])
        BY <3>2
    <3>4. pages'[frames[i].page][1] = pages[frames[i].page][1] /\ Len(pages'[frames[i].page]) # 0
        BY <1>1, <2>2, <3>2, <3>3
    <3>. QED
        BY <1>1, <1>9, <2>2, <3>1, <3>4
  <2>. QED
    BY <2>1, <2>3, <2>4
<1>18. MissingInv'
  <2>. SUFFICES ASSUME env.DebugMissingPools
                PROVE  /\ pages'[1] # <<>> /\ pages'[1][1] = POOL_BOUNDARY
                       /\ \A i \in 1 .. Len(frames) : \A k \in frames[i].base + 1 .. Len(tokens') :
                              Pos(tokens'[k]) # [page |-> 1, index |-> 1]
                       /\ \A i \in 2 .. Len(frames) : frames[i].page > 1 \/ frames[i].stop > 0
    BY <1>7, <1>10 DEF MissingInv, Empty
  <2>1. /\ IF Empty(1) THEN Len(frames) = 1 /\ ~frames[1].callback ELSE pages[1][1] = POOL_BOUNDARY
        /\ \A i \in 1 .. Len(frames) : \A k \in frames[i].base + 1 .. Len(tokens) :
               Pos(tokens[k]) # [page |-> 1, index |-> 1]
        /\ \A i \in 2 .. Len(frames) : frames[i].page > 1 \/ frames[i].stop > 0
    BY <1>10 DEF IInv, MissingInv
  <2>2. ~Empty(1) /\ pages[1][1] = POOL_BOUNDARY
    BY <1>11, <2>1
  <2>3. 1 \in 1 .. Len(pages)
    BY <1>5, <1>6
  <2>4. Len(pages[1]) \in Nat \ {0} /\ 1 \in 1 .. Len(pages[1])
    BY <1>5, <2>2, <2>3, Typed
  <2>5. pages'[1] # <<>> /\ pages'[1][1] = POOL_BOUNDARY
    BY <1>1, <1>9, <2>2, <2>3, <2>4
  <2>6. ASSUME NEW i \in 1 .. Len(frames), NEW k \in frames[i].base + 1 .. Len(tokens')
        PROVE  Pos(tokens'[k]) # [page |-> 1, index |-> 1]
    <3>1. frames[i].base \in Nat /\ k \in 1 .. Len(tokens')
        BY <1>3, Framed
    <3>2. CASE k \in 1 .. Len(tokens)
        BY <1>3, <1>5, <2>1, <3>1, <3>2
    <3>3. CASE Pos(tokens'[k]) = new
        <4>1. q = 1 => tls = 1 /\ n = Len(pages[1])
            BY <1>1, <1>4, <1>5, <1>6 DEF Grown
        <4>. QED
            BY <1>8, <2>4, <3>3, <4>1
    <3>. QED
        BY <1>3, <3>1, <3>2, <3>3
  <2>. QED
    BY <2>1, <2>5, <2>6
<1>19. ColdInv'
  <2>1. 1 \in 1 .. Len(pages) /\ 1 \in 1 .. Len(pages')
    BY <1>1, <1>5, <1>6
  <2>2. Empty(1)' => Empty(1) /\ q # 1
    <3>1. Empty(1)' => Len(pages'[1]) = 0
        BY <1>9, <2>1 DEF Empty
    <3>2. Len(pages'[1]) = 0 => Len(pages[1]) = 0
        BY <1>5, <1>21, <2>1
    <3>3. Len(pages'[1]) = 0 => q # 1
        BY <1>4, <1>20
    <3>4. Empty(1) <=> Len(pages[1]) = 0
        BY <1>5, <2>1, Typed
    <3>. QED
        BY <3>1, <3>2, <3>3, <3>4
  <2>3. Debugging /\ Empty(1) => frames # <<>> /\ frames[1].page = 1
    BY <1>10 DEF IInv, ColdInv
  <2>4. ASSUME env.DebugPoolAllocation, env \notin UnbalancedModes, q > 1, Empty(1)
        PROVE  \/ tokens' # <<>> /\ tokens'[1].page = 2
               \/ Len(frames) > 1 /\ frames[2].page = 2
    <3>1. CASE tls > 1
        <4>1. \/ tokens # <<>> /\ tokens[1].page = 2
              \/ Len(frames) > 1 /\ frames[2].page = 2
            BY <2>4, <3>1 DEF IInv, ColdInv
        <4>2. ASSUME tokens # <<>>, tokens[1].page = 2 PROVE tokens' # <<>> /\ tokens'[1].page = 2
            <5>1. 1 \in 1 .. Len(tokens) /\ Len(tokens') # 0
                BY <1>3, <1>5, <4>2, Typed
            <5>2. tokens' # <<>>
                BY <1>3, <5>1, Elements
            <5>. QED
                BY <1>3, <4>2, <5>1, <5>2
        <4>. QED
            BY <4>1, <4>2
    <3>2. CASE tls = 1
        <4>1. Len(pages[1]) = 0 /\ q = 2
            BY <1>4, <1>5, <2>1, <2>4, <3>2, Typed
        <4>2. ~Full(1)
            BY <1>5, <4>1 DEF Full
        <4>3. /\ tokens' = Append(tokens, [page |-> q, index |-> n + 1])
            BY <3>2, <4>1, <4>2 DEF Pushed
        <4>4. tokens = <<>>
            <5>. SUFFICES ASSUME tokens # <<>> PROVE FALSE
                OBVIOUS
            <5>1. 1 \in 1 .. Len(tokens)
                BY <1>5, Typed
            <5>2. Pos(tokens[1]).page \in 1 .. tls
                  /\ Pos(tokens[1]).index \in 1 .. Len(pages[Pos(tokens[1]).page])
                BY <1>6, <5>1, Tokened
            <5>3. Pos(tokens[1]).page = 1
                BY <3>2, <5>2
            <5>. QED
                BY <4>1, <5>2, <5>3
        <4>5. Len(tokens) = 0 /\ [page |-> q, index |-> n + 1] \in Token
            BY <1>5, <1>20, <4>4, Typed DEF Token
        <4>6. tokens' # <<>> /\ tokens'[1] = [page |-> q, index |-> n + 1]
            BY <4>3, <4>5, <1>5, Appended, Elements DEF TypeOK
        <4>. QED
            BY <4>1, <4>6
    <3>. QED
        BY <1>5, <1>6, <3>1, <3>2
  <2>5. Debugging' = Debugging
    BY <1>7 DEF Debugging
  <2>. QED
    BY <1>4, <1>7, <2>2, <2>3, <2>4, <2>5 DEF ColdInv
<1>. QED
    BY <1>12, <1>13, <1>14, <1>15, <1>16, <1>17, <1>18, <1>19 DEF IInv

\* The invariant holds when the first page was made.
LEMMA FreshStep ==
    ASSUME IInv, tls < 1, tls' = 1, UNCHANGED <<env, frames, bad>>,
           pages' \in Seq(Seq(Entry)), Len(pages') = 1, Len(pages'[1]) \in 1 .. COUNT,
           env.DebugMissingPools => pages'[1][1] = POOL_BOUNDARY,
           tokens' \in Seq(Token), TokenInv'
    PROVE  IInv'
<1>1. frames = <<>> /\ frames' = <<>> /\ env' = env
    BY NoPage
<1>2. TypeOK /\ ~bad /\ bad' = bad
    BY DEF IInv
<1>3. TypeOK'
  <2>1. \A p \in 1 .. Len(pages') : Len(pages'[p]) <= COUNT
    BY PageAssumption
  <2>. QED
    BY <1>1, <1>2, <2>1 DEF TypeOK
<1>4. pages'[1] # <<>> /\ 1 \in 1 .. Len(pages')
    BY PageElements
<1>5. PageInv'
    BY <1>1 DEF PageInv, Nil, EMPTY_POOL_PLACEHOLDER
<1>6. Len(frames') = 0
    BY <1>1, EmptySeq
<1>7. FrameInv' /\ PerPoolInv'
    BY <1>6 DEF FrameInv, PerPoolInv
<1>8. MissingInv'
    BY <1>1, <1>4, <1>6 DEF MissingInv, Empty
<1>9. ColdInv'
    BY <1>4 DEF ColdInv, Empty
<1>. QED
    BY <1>2, <1>3, <1>5, <1>7, <1>8, <1>9 DEF IInv

\* autoreleaseNoPage, for an object or for a pool.
LEMMA NoPageStep ==
    ASSUME IInv, tls < 1, NEW e \in Entry, AutoreleaseNoPage(e), UNCHANGED <<env, frames, bad>>,
           IF e = POOL_BOUNDARY
           THEN tokens' = Append(tokens, IF tls' = EMPTY_POOL_PLACEHOLDER THEN Placeholder
                                         ELSE [page |-> tls', index |-> Len(pages'[tls'])])
           ELSE tokens' = tokens
    PROVE  IInv'
<1>1. /\ tls \in {Nil, EMPTY_POOL_PLACEHOLDER}
      /\ pages = <<>> /\ frames = <<>> /\ tokens = IF tls = Nil THEN <<>> ELSE <<Placeholder>>
    BY NoPage
<1>2. TypeOK /\ TokenInv /\ ~bad /\ POOL_BOUNDARY \in Entry /\ COUNT \in Nat /\ COUNT >= 2
    BY PageAssumption DEF IInv, Entry
<1>3. Placeholder \in Token /\ Pos(Placeholder) = [page |-> 1, index |-> 1]
    BY DEF Placeholder, Token, Pos
<1>4. CASE tls = EMPTY_POOL_PLACEHOLDER /\ tls' = 1 /\ pages' = <<<<POOL_BOUNDARY, e>>>>
  <2>1. /\ pages' \in Seq(Seq(Entry)) /\ Len(pages') = 1 /\ Len(pages'[1]) = 2
        /\ pages'[1][1] = POOL_BOUNDARY /\ pages'[1][2] = e
    BY <1>2, <1>4
  <2>2. tokens = <<Placeholder>>
    BY <1>1, <1>4 DEF Nil, EMPTY_POOL_PLACEHOLDER
  <2>3. ~env.DebugPoolAllocation
    BY <1>2, <2>2 DEF TokenInv, Placeholder
  <2>4. CASE e = POOL_BOUNDARY
    <3>1. tokens' = <<Placeholder, [page |-> 1, index |-> 2]>>
        BY <1>4, <2>1, <2>2, <2>4 DEF EMPTY_POOL_PLACEHOLDER
    <3>2. /\ Len(tokens') = 2 /\ Pos(tokens'[1]) = [page |-> 1, index |-> 1]
          /\ Pos(tokens'[2]) = [page |-> 1, index |-> 2] /\ tokens' \in Seq(Token)
        BY <1>3, <3>1 DEF Pos, Placeholder, Token
    <3>3. /\ \A k \in 1 .. Len(tokens') :
                 /\ Pos(tokens'[k]).page \in 1 .. Len(pages')
                 /\ Pos(tokens'[k]).index \in 1 .. Len(pages'[Pos(tokens'[k]).page])
                 /\ pages'[Pos(tokens'[k]).page][Pos(tokens'[k]).index] = POOL_BOUNDARY
          /\ \A j, k \in 1 .. Len(tokens') : j < k => j = 1 /\ k = 2
      <4>1. \A k \in 1 .. Len(tokens') : k = 1 \/ k = 2
        BY <3>2
      <4>. QED
        BY <2>1, <2>4, <3>2, <4>1
    <3>4. TokenInv'
        BY <2>3, <3>2, <3>3 DEF TokenInv, Before
    <3>. QED
        BY <1>2, <1>4, <2>1, <3>2, <3>4, FreshStep
  <2>5. CASE e # POOL_BOUNDARY
    <3>1. /\ Len(tokens') = 1 /\ Pos(tokens'[1]) = [page |-> 1, index |-> 1]
          /\ tokens' \in Seq(Token)
        <4>1. tokens' = <<Placeholder>>
            BY <2>2, <2>5
        <4>2. Len(tokens') = 1 /\ tokens'[1] = Placeholder /\ tokens' \in Seq(Token)
            BY <1>3, <4>1
        <4>. QED
            BY <1>3, <4>2
    <3>2. /\ \A k \in 1 .. Len(tokens') :
                 /\ Pos(tokens'[k]).page \in 1 .. Len(pages')
                 /\ Pos(tokens'[k]).index \in 1 .. Len(pages'[Pos(tokens'[k]).page])
                 /\ pages'[Pos(tokens'[k]).page][Pos(tokens'[k]).index] = POOL_BOUNDARY
          /\ \A j, k \in 1 .. Len(tokens') : ~(j < k)
      <4>1. \A k \in 1 .. Len(tokens') : k = 1
        BY <3>1
      <4>. QED
        BY <2>1, <3>1, <4>1
    <3>3. TokenInv'
        BY <2>3, <3>2 DEF TokenInv
    <3>. QED
        BY <1>2, <1>4, <2>1, <3>1, <3>3, FreshStep
  <2>. QED
    BY <2>4, <2>5
<1>5. CASE e # POOL_BOUNDARY /\ UNCHANGED <<tls, pages>>
  <2>1. UNCHANGED vars
    BY <1>5 DEF vars
  <2>. QED
    BY <2>1 DEF vars, IInv, TypeOK, PageInv, TokenInv, FrameInv, PerPoolInv, MissingInv, ColdInv,
                Empty, Full, Debugging
<1>6. CASE /\ tls = Nil /\ e = POOL_BOUNDARY /\ ~env.DebugPoolAllocation
           /\ tls' = EMPTY_POOL_PLACEHOLDER /\ UNCHANGED pages
  <2>1. tokens = <<>> /\ tokens' = <<Placeholder>> /\ pages' = <<>> /\ frames' = <<>> /\ env' = env
    BY <1>1, <1>6
  <2>2. tokens' \in Seq(Token) /\ Len(tokens') = 1 /\ Len(frames') = 0 /\ Len(pages') = 0
    BY <1>3, <2>1
  <2>3. TypeOK'
    BY <1>2, <1>6, <2>1, <2>2 DEF TypeOK
  <2>4. PageInv' /\ FrameInv' /\ PerPoolInv' /\ MissingInv' /\ ColdInv'
    BY <1>6, <2>1, <2>2 DEF PageInv, FrameInv, PerPoolInv, MissingInv, ColdInv, Nil,
                            EMPTY_POOL_PLACEHOLDER
  <2>5. TokenInv'
    BY <1>6, <2>1, <2>2 DEF TokenInv
  <2>. QED
    BY <1>2, <2>3, <2>4, <2>5 DEF IInv
<1>7. CASE /\ tls = Nil /\ tls' = 1 /\ pages' = <<<<e>>>>
           /\ IF e = POOL_BOUNDARY THEN env.DebugPoolAllocation ELSE ~env.DebugMissingPools
  <2>1. /\ pages' \in Seq(Seq(Entry)) /\ Len(pages') = 1 /\ Len(pages'[1]) = 1
        /\ pages'[1][1] = e
    BY <1>2, <1>7
  <2>2. tokens = <<>>
    BY <1>1, <1>7
  <2>3. CASE e = POOL_BOUNDARY
    <3>1. tokens' = <<[page |-> 1, index |-> 1]>>
        BY <1>7, <2>1, <2>2, <2>3 DEF EMPTY_POOL_PLACEHOLDER
    <3>2. /\ Len(tokens') = 1 /\ Pos(tokens'[1]) = [page |-> 1, index |-> 1]
          /\ tokens' \in Seq(Token) /\ tokens'[1].index = 1
        BY <3>1 DEF Pos, Placeholder, Token
    <3>3. /\ \A k \in 1 .. Len(tokens') :
                 /\ Pos(tokens'[k]).page \in 1 .. Len(pages')
                 /\ Pos(tokens'[k]).index \in 1 .. Len(pages'[Pos(tokens'[k]).page])
                 /\ pages'[Pos(tokens'[k]).page][Pos(tokens'[k]).index] = POOL_BOUNDARY
                 /\ tokens'[k].index = 1
          /\ \A j, k \in 1 .. Len(tokens') : ~(j < k)
      <4>1. \A k \in 1 .. Len(tokens') : k = 1
        BY <3>2
      <4>. QED
        BY <2>1, <2>3, <3>2, <4>1
    <3>4. TokenInv'
        BY <3>3 DEF TokenInv
    <3>. QED
        BY <1>2, <1>7, <2>1, <2>3, <3>2, <3>4, FreshStep
  <2>4. CASE e # POOL_BOUNDARY
    <3>1. tokens' = <<>> /\ Len(tokens') = 0 /\ tokens' \in Seq(Token)
        BY <2>2, <2>4
    <3>2. TokenInv'
        BY <3>1 DEF TokenInv
    <3>. QED
        BY <1>2, <1>7, <2>1, <2>4, <3>1, <3>2, FreshStep
  <2>. QED
    BY <2>3, <2>4
<1>. QED
    BY <1>4, <1>5, <1>6, <1>7 DEF AutoreleaseNoPage

\* Autorelease.
LEMMA AutoreleaseStep ==
    ASSUME IInv, NEW o \in Obj, Autorelease(o)
    PROVE  IInv'
<1>1. Client /\ AutoreleaseFast(o) /\ UNCHANGED <<env, tokens, frames, bad>>
    BY DEF Autorelease, Room
<1>2. o \in Entry /\ o # POOL_BOUNDARY /\ tls \in Int
    BY BoundaryAssumption, Typed DEF Entry, IInv
<1>3. CASE tls >= 1
  <2>1. PICK q, n : Grown(q, n, o)
    BY <1>1, <1>2, <1>3, FastGrows
  <2>2. q = tls + 1 => Full(tls)
    <3>1. hotPage = tls /\ tls \in 1 .. Len(pages)
        BY <1>3, Hot
    <3>2. CASE ~Full(tls) /\ tls' = tls
        <4>1. tls' = q
            BY <2>1 DEF Grown
        <4>. QED
            BY <1>2, <3>2, <4>1
    <3>. QED
        BY <1>1, <1>2, <1>3, <3>1, <3>2 DEF AutoreleaseFast, Nil
  <2>3. Pushed(q, n, o)
    BY <1>1, <2>2 DEF Pushed
  <2>. QED
    BY <1>1, <1>2, <1>3, <2>1, <2>3, GrowStep
<1>4. CASE tls < 1
  <2>1. hotPage = Nil
    BY <1>4, NoPage
  <2>. QED
    BY <1>1, <1>2, <1>4, <2>1, NoPageStep DEF AutoreleaseFast
<1>. QED
    BY <1>2, <1>3, <1>4

\* Push.
LEMMA PushStep ==
    ASSUME IInv, Push
    PROVE  IInv'
<1>1. /\ Client /\ UNCHANGED <<env, frames, bad>>
      /\ IF env.DebugPoolAllocation THEN AutoreleaseNewPage(POOL_BOUNDARY)
                                    ELSE AutoreleaseFast(POOL_BOUNDARY)
      /\ tokens' = Append(tokens, IF tls' = EMPTY_POOL_PLACEHOLDER THEN Placeholder
                                  ELSE [page |-> tls', index |-> Len(pages'[tls'])])
    BY DEF Push, Room
<1>2. POOL_BOUNDARY \in Entry /\ tls \in Int
    BY Typed DEF Entry, IInv
<1>3. CASE tls >= 1
  <2>1. hotPage = tls /\ hotPage # Nil
    BY <1>3, Hot DEF Nil
  <2>2. \E q, n : Grown(q, n, POOL_BOUNDARY) /\ (env.DebugPoolAllocation => q = tls + 1)
    <3>1. CASE env.DebugPoolAllocation
        <4>1. AutoreleaseFullPage(POOL_BOUNDARY, tls)
            BY <1>1, <2>1, <3>1 DEF AutoreleaseNewPage
        <4>. QED
            BY <1>2, <1>3, <3>1, <4>1, FullPageGrows
    <3>2. CASE ~env.DebugPoolAllocation
        BY <1>1, <1>2, <1>3, <3>2, FastGrows
    <3>. QED
        BY <3>1, <3>2
  <2>3. PICK q, n : Grown(q, n, POOL_BOUNDARY) /\ (env.DebugPoolAllocation => q = tls + 1)
    BY <2>2
  <2>4. tls' = q /\ q # EMPTY_POOL_PLACEHOLDER /\ Len(pages'[q]) = n + 1
    BY <1>2, <1>3, <2>3 DEF Grown, EMPTY_POOL_PLACEHOLDER
  <2>5. tokens' = Append(tokens, [page |-> q, index |-> n + 1])
    BY <1>1, <2>4
  <2>6. Pushed(q, n, POOL_BOUNDARY)
    BY <2>3, <2>5 DEF Pushed
  <2>. QED
    BY <1>1, <1>2, <1>3, <2>3, <2>6, GrowStep
<1>4. CASE tls < 1
  <2>1. hotPage = Nil
    BY <1>4, NoPage
  <2>2. AutoreleaseNoPage(POOL_BOUNDARY)
    BY <1>1, <2>1 DEF AutoreleaseFast, AutoreleaseNewPage
  <2>. QED
    BY <1>1, <1>2, <1>4, <2>2, NoPageStep
<1>. QED
    BY <1>2, <1>3, <1>4

-----------------------------------------------------------------------------
(* The pops *)

\* Pools are popped, or forgotten by the -dealloc that pushed them.
Shrunk(m) ==
    /\ m \in 0 .. Len(tokens)
    /\ tokens' \in Seq(Token) /\ Len(tokens') = m
    /\ \A k \in 1 .. m : k \in 1 .. Len(tokens) /\ tokens'[k] = tokens[k]

\* So it is with what SubSeq leaves.
LEMMA TokensShrink ==
    ASSUME IInv, NEW m \in 0 .. Len(tokens), tokens' = SubSeq(tokens, 1, m)
    PROVE  Shrunk(m)
<1>1. tokens \in Seq(Token) /\ Len(tokens) \in Nat
    BY Typed DEF IInv, TypeOK
<1>2. \A k \in 1 .. m : k \in 1 .. Len(tokens)
    BY <1>1
<1>. QED
    BY <1>1, <1>2, Beginning DEF Shrunk

\* The tokens that are left still point to what is there.
LEMMA FewerTokens ==
    ASSUME IInv, NEW m, Shrunk(m), UNCHANGED <<env, pages>>
    PROVE  TokenInv'
<1>1. /\ Len(tokens') = m /\ env' = env /\ pages' = pages
      /\ \A k \in 1 .. m : k \in 1 .. Len(tokens) /\ tokens'[k] = tokens[k]
    BY DEF Shrunk
<1>2. TokenInv
    BY DEF IInv
<1>3. ASSUME pages # <<>>, NEW k \in 1 .. m
      PROVE  /\ Pos(tokens'[k]).page \in 1 .. Len(pages)
             /\ Pos(tokens'[k]).index \in 1 .. Len(pages[Pos(tokens'[k]).page])
             /\ pages[Pos(tokens'[k]).page][Pos(tokens'[k]).index] = POOL_BOUNDARY
    BY <1>1, <1>2, <1>3 DEF TokenInv
<1>4. \A j, k \in 1 .. m : j < k => Before(Pos(tokens'[j]), Pos(tokens'[k]))
    BY <1>1, <1>2 DEF TokenInv
<1>5. env.DebugPoolAllocation => \A k \in 1 .. m : tokens'[k].index = 1
    BY <1>1, <1>2 DEF TokenInv
<1>. QED
    BY <1>1, <1>3, <1>4, <1>5 DEF TokenInv

\* In the middle of a -dealloc the pages of the pops have their boundaries.
LEMMA ClientPages ==
    ASSUME IInv, Client
    PROVE  /\ \A i \in 1 .. Len(frames) : frames[i].callback
           /\ env.DebugPoolAllocation =>
                  \A i \in 1 .. Len(frames) : frames[i].page > 1 =>
                      ~Empty(frames[i].page) /\ pages[frames[i].page][1] = POOL_BOUNDARY
           /\ env.DebugMissingPools /\ pages # <<>> => ~Empty(1) /\ pages[1][1] = POOL_BOUNDARY
<1>1. Len(frames) \in Nat /\ (frames = <<>> <=> Len(frames) = 0)
    BY Typed DEF IInv
<1>2. \A i \in 1 .. Len(frames) : frames[i].callback
    BY <1>1, Framed DEF Client, Top
<1>3. ASSUME env.DebugPoolAllocation, NEW i \in 1 .. Len(frames), frames[i].page > 1
      PROVE  ~Empty(frames[i].page) /\ pages[frames[i].page][1] = POOL_BOUNDARY
    BY <1>2, <1>3 DEF IInv, PerPoolInv
<1>4. ASSUME env.DebugMissingPools, pages # <<>>
      PROVE  ~Empty(1) /\ pages[1][1] = POOL_BOUNDARY
  <2>1. IF Empty(1) THEN Len(frames) = 1 /\ ~frames[1].callback ELSE pages[1][1] = POOL_BOUNDARY
    BY <1>4 DEF IInv, MissingInv
  <2>. QED
    BY <1>1, <1>2, <2>1
<1>. QED
    BY <1>2, <1>3, <1>4

\* The invariant holds when the thread has no pool and no page.
LEMMA NothingLeft ==
    ASSUME IInv, tls' = Nil, tokens' = <<>>, pages' = <<>>, frames' = <<>>, UNCHANGED <<env, bad>>
    PROVE  IInv'
<1>1. tls' = 0
    BY DEF Nil
<1>2. Len(frames') = 0 /\ Len(pages') = 0 /\ Len(tokens') = 0 /\ tokens' \in Seq(Token)
    OBVIOUS
<1>3. TypeOK'
    BY <1>1, <1>2 DEF IInv, TypeOK
<1>4. PageInv' /\ TokenInv' /\ FrameInv' /\ PerPoolInv' /\ MissingInv' /\ ColdInv'
    BY <1>1, <1>2 DEF PageInv, TokenInv, FrameInv, PerPoolInv, MissingInv, ColdInv, Nil,
                      EMPTY_POOL_PLACEHOLDER
<1>. QED
    BY <1>3, <1>4 DEF IInv

\* A token that is popped is where pop looks for it, and is accepted.
LEMMA PopStarts ==
    ASSUME IInv, tls >= 1, NEW k \in 1 .. Len(tokens)
    PROVE  Start(tokens[k]) = Pos(tokens[k]) /\ Valid(Pos(tokens[k]))
<1>1. coldPage = 1 /\ tls \in 1 .. Len(pages)
    BY Hot
<1>2. Start(tokens[k]) = Pos(tokens[k])
    BY <1>1 DEF Start, Pos
<1>3. /\ Pos(tokens[k]).page \in 1 .. tls
      /\ Pos(tokens[k]).index \in 1 .. Len(pages[Pos(tokens[k]).page])
      /\ pages[Pos(tokens[k]).page][Pos(tokens[k]).index] = POOL_BOUNDARY
    BY Tokened
<1>4. Len(pages) \in Nat /\ Pos(tokens[k]).page \in 1 .. Len(pages)
    BY <1>1, <1>3, Typed DEF IInv
<1>5. Len(pages[Pos(tokens[k]).page]) \in Nat
    BY <1>4, Typed DEF IInv
<1>. QED
    BY <1>2, <1>3, <1>4, <1>5 DEF Valid

\* A pop begins: `f` is added to those that run.
Begun(k, f) ==
    /\ f \in Frame /\ ~f.callback /\ ~f.exit /\ f.base = k - 1
    /\ f.page = Pos(tokens[k]).page /\ f.stop = Pos(tokens[k]).index - 1
    /\ frames' \in Seq(Frame) /\ Len(frames') = Len(frames) + 1
    /\ frames'[Len(frames) + 1] = f
    /\ \A i \in 1 .. Len(frames) : frames'[i] = frames[i]

\* The token is the client's own: no pop that runs is to keep it.
LEMMA OwnToken ==
    ASSUME IInv, Client, NEW k \in Own
    PROVE  k \in 1 .. Len(tokens) /\ \A i \in 1 .. Len(frames) : frames[i].base < k
<1>1. Len(frames) \in Nat /\ Len(tokens) \in Nat /\ (frames = <<>> <=> Len(frames) = 0)
      /\ \A i \in 1 .. Len(frames) : frames[i].base \in Nat
    BY Typed DEF IInv
<1>2. CASE frames = <<>>
  <2>1. Own = 0 + 1 .. Len(tokens)
    BY <1>2 DEF Own, Base
  <2>. QED
    BY <1>1, <1>2, <2>1
<1>3. CASE frames # <<>>
  <2>1. Len(frames) \in 1 .. Len(frames) /\ Base = frames[Len(frames)].base
    BY <1>1, <1>3 DEF Base, Top
  <2>2. k \in frames[Len(frames)].base + 1 .. Len(tokens)
    BY <2>1 DEF Own
  <2>3. \A i \in 1 .. Len(frames) : i = Len(frames) \/ frames[i].base <= frames[Len(frames)].base
    BY <1>1, Framed
  <2>4. k \in 1 .. Len(tokens) /\ frames[Len(frames)].base < k
    BY <1>1, <2>1, <2>2
  <2>5. ASSUME NEW i \in 1 .. Len(frames) PROVE frames[i].base < k
    BY <1>1, <2>1, <2>3, <2>4
  <2>. QED
    BY <2>4, <2>5
<1>. QED
    BY <1>2, <1>3

\* The invariant holds when a pop has begun.
LEMMA BegunStep ==
    ASSUME IInv, Client, tls >= 1, NEW k \in Own, NEW f, Begun(k, f), Shrunk(k - 1),
           UNCHANGED <<env, tls, pages, bad>>
    PROVE  IInv'
<1>. DEFINE L == Len(frames)
            at == Pos(tokens[k])
<1>0. tls' = tls /\ pages' = pages /\ env' = env /\ bad' = bad
    OBVIOUS
<1>1. /\ TypeOK /\ ~bad /\ COUNT \in Nat
      /\ L \in Nat /\ Len(tokens) \in Nat /\ Len(pages) \in Nat
      /\ (frames = <<>> <=> L = 0)
      /\ \A p \in 1 .. Len(pages) : Len(pages[p]) \in Nat /\ Len(pages[p]) <= COUNT
    BY Typed DEF IInv
<1>2. \A i \in 1 .. L : frames[i].callback /\ frames[i].base \in Nat
    BY ClientPages, Framed
<1>3. k \in 1 .. Len(tokens) /\ k \in Nat /\ \A i \in 1 .. L : frames[i].base < k
    BY <1>1, OwnToken
<1>4. /\ at.page \in 1 .. tls /\ at.index \in 1 .. Len(pages[at.page])
      /\ pages[at.page][at.index] = POOL_BOUNDARY
      /\ \A j \in 1 .. Len(tokens) : j < k => Before(Pos(tokens[j]), at)
      /\ env.DebugPoolAllocation => tokens[k].index = 1 /\ tokens[k] # Placeholder
    BY <1>3, Tokened
<1>5. tls \in 1 .. Len(pages) /\ pages # <<>>
    BY Hot
<1>6. at.page \in 1 .. Len(pages) /\ at.page \in Nat \ {0} /\ Len(pages[at.page]) \in Nat
      /\ Len(pages[at.page]) <= COUNT /\ at.index \in Nat \ {0} /\ at.index - 1 \in Nat
  <2>1. at.page \in 1 .. Len(pages) /\ at.page \in Nat \ {0}
    BY <1>1, <1>4, <1>5
  <2>2. Len(pages[at.page]) \in Nat /\ Len(pages[at.page]) <= COUNT
    BY <1>1, <2>1
  <2>. QED
    BY <1>4, <2>1, <2>2
<1>8. /\ f.page = at.page /\ f.stop = at.index - 1 /\ f.base = k - 1
      /\ ~f.callback /\ ~f.exit
    BY DEF Begun
<1>9. frames' \in Seq(Frame) /\ Len(frames') = L + 1 /\ frames'[L + 1] = f
      /\ \A i \in 1 .. L : frames'[i] = frames[i]
    BY DEF Begun
<1>11. /\ tokens' \in Seq(Token) /\ Len(tokens') = k - 1
       /\ \A j \in 1 .. k - 1 : j \in 1 .. Len(tokens) /\ tokens'[j] = tokens[j]
    BY DEF Shrunk
<1>12. \A i \in 1 .. Len(frames') : i \in 1 .. L \/ i = L + 1
    BY <1>1, <1>9
<1>13. frames' # <<>>
    BY <1>1, <1>9, Elements
<1>. HIDE DEF at, L
<1>14. TypeOK'
    BY <1>1, <1>9, <1>11 DEF TypeOK
<1>15. PageInv'
  <2>1. tls' \notin {Nil, EMPTY_POOL_PLACEHOLDER}
    BY <1>5 DEF Nil, EMPTY_POOL_PLACEHOLDER
  <2>. QED
    BY <1>13, <2>1 DEF IInv, PageInv, Empty, Full
<1>16. TokenInv'
    BY FewerTokens
<1>17. FrameInv'
  <2>1. ASSUME NEW i \in 1 .. L
        PROVE  /\ frames'[i].page <= tls' /\ frames'[i].stop <= Len(pages'[frames'[i].page])
               /\ frames'[i].stop < COUNT
               /\ frames'[i].exit => i = 1 /\ frames'[i].page = 1 /\ frames'[i].stop = 0
               /\ frames'[i].base <= Len(tokens')
               /\ \A j \in 1 .. Len(tokens') :
                      j <= frames'[i].base <=> ~Above(Pos(tokens'[j]), frames'[i])
               /\ frames'[i].callback /\ i # Len(frames')
               /\ \A j \in i + 1 .. Len(frames') :
                      /\ frames'[i].page <= frames'[j].page
                      /\ frames'[i].page = frames'[j].page => frames'[i].stop <= frames'[j].stop
                      /\ frames'[i].base <= frames'[j].base
    <3>1. /\ frames[i].page <= tls
          /\ frames[i].stop <= Len(pages[frames[i].page]) /\ frames[i].stop < COUNT
          /\ frames[i].exit => i = 1 /\ frames[i].page = 1 /\ frames[i].stop = 0
          /\ \A j \in 1 .. Len(tokens) : j <= frames[i].base <=> ~Above(Pos(tokens[j]), frames[i])
          /\ \A j \in i + 1 .. L :
                 /\ frames[i].page <= frames[j].page
                 /\ frames[i].page = frames[j].page => frames[i].stop <= frames[j].stop
                 /\ frames[i].base <= frames[j].base
          /\ frames[i].page \in Nat \ {0} /\ frames[i].stop \in Nat /\ frames[i].base \in Nat
        BY Framed DEF L
    <3>2. frames'[i] = frames[i] /\ frames[i].base < k
        BY <1>3, <1>9 DEF L
    <3>3. frames[i].base <= k - 1
        BY <1>3, <3>1, <3>2
    <3>4. \A j \in 1 .. Len(tokens') :
              j <= frames[i].base <=> ~Above(Pos(tokens'[j]), frames[i])
        BY <1>11, <3>1
    <3>5. Above(at, frames[i])
        BY <1>3, <3>1, <3>2 DEF at
    <3>6. frames[i].page <= f.page /\ (frames[i].page = f.page => frames[i].stop <= f.stop)
        BY <1>6, <1>8, <3>1, <3>5 DEF Above
    <3>7. ASSUME NEW j \in i + 1 .. Len(frames')
          PROVE  /\ frames[i].page <= frames'[j].page
                 /\ frames[i].page = frames'[j].page => frames[i].stop <= frames'[j].stop
                 /\ frames[i].base <= frames'[j].base
        <4>1. CASE j = L + 1
            BY <1>8, <1>9, <3>3, <3>6, <4>1
        <4>2. CASE j \in i + 1 .. L
          <5>1. frames'[j] = frames[j]
            BY <1>1, <1>9, <4>2
          <5>. QED
            BY <3>1, <4>2, <5>1
        <4>. QED
            BY <1>1, <1>9, <4>1, <4>2
    <3>8. frames[i].base <= Len(tokens') /\ frames[i].callback /\ i # Len(frames')
        BY <1>1, <1>2, <1>9, <1>11, <3>3
    <3>. QED
        BY <1>0, <3>1, <3>2, <3>4, <3>7, <3>8
  <2>2. /\ f.page <= tls /\ f.stop <= Len(pages[f.page]) /\ f.stop < COUNT /\ ~f.exit
        /\ f.base <= Len(tokens') /\ Len(tokens') = f.base
    <3>1. at.page <= tls /\ at.index - 1 <= Len(pages[at.page]) /\ at.index - 1 < COUNT
        BY <1>1, <1>4, <1>5, <1>6
    <3>2. k - 1 <= Len(tokens') /\ Len(tokens') = k - 1
        BY <1>3, <1>11
    <3>. QED
        BY <1>8, <3>1, <3>2
  <2>3. \A j \in 1 .. Len(tokens') : j <= f.base <=> ~Above(Pos(tokens'[j]), f)
    <3>. SUFFICES ASSUME NEW j \in 1 .. k - 1
                  PROVE  ~Above(Pos(tokens[j]), f)
        BY <1>8, <1>11
    <3>1. j \in 1 .. Len(tokens) /\ j < k
        BY <1>3, <1>11
    <3>2. Before(Pos(tokens[j]), at) /\ Pos(tokens[j]).page \in Nat /\ Pos(tokens[j]).index \in Nat
        BY <1>1, <1>4, <3>1, Typed
    <3>. QED
        BY <1>6, <1>8, <3>2 DEF Before, Above
  <2>4. \A j \in L + 2 .. Len(frames') : FALSE
    BY <1>1, <1>9
  <2>5. ASSUME NEW i \in 1 .. Len(frames')
        PROVE  /\ frames'[i].page <= tls' /\ frames'[i].stop <= Len(pages'[frames'[i].page])
               /\ frames'[i].stop < COUNT
               /\ frames'[i].exit => i = 1 /\ frames'[i].page = 1 /\ frames'[i].stop = 0
               /\ frames'[i].base <= Len(tokens')
               /\ \A j \in 1 .. Len(tokens') :
                      j <= frames'[i].base <=> ~Above(Pos(tokens'[j]), frames'[i])
               /\ i < Len(frames') => frames'[i].callback
               /\ i = Len(frames') /\ ~frames'[i].callback => Len(tokens') = frames'[i].base
               /\ \A j \in i + 1 .. Len(frames') :
                      /\ frames'[i].page <= frames'[j].page
                      /\ frames'[i].page = frames'[j].page => frames'[i].stop <= frames'[j].stop
                      /\ frames'[i].base <= frames'[j].base
    <3>1. CASE i \in 1 .. L
        BY <2>1, <3>1
    <3>2. CASE i = L + 1
        <4>1. frames'[i] = f /\ ~(i < Len(frames'))
            BY <1>1, <1>9, <3>2
        <4>2. \A j \in i + 1 .. Len(frames') : FALSE
            BY <1>1, <1>9, <3>2
        <4>. QED
            BY <1>0, <2>2, <2>3, <4>1, <4>2
    <3>. QED
        BY <1>12, <3>1, <3>2
  <2>. QED
    BY <2>5 DEF FrameInv
<1>18. PerPoolInv'
  <2>. SUFFICES ASSUME env.DebugPoolAllocation, NEW i \in 1 .. Len(frames')
                PROVE  /\ frames'[i].stop = 0
                       /\ \A j \in frames'[i].base + 1 .. Len(tokens') : tokens'[j].page > frames'[i].page
                       /\ \A j \in i + 1 .. Len(frames') : frames'[j].page > frames'[i].page
                       /\ frames'[i].page > 1 =>
                              ~Empty(frames'[i].page) /\ pages[frames'[i].page][1] = POOL_BOUNDARY
    BY <1>0 DEF PerPoolInv, Empty
  <2>1. tokens[k].index = 1 /\ at = tokens[k] /\ f.stop = 0 /\ at.index = 1
    BY <1>4, <1>8 DEF Pos, at
  <2>2. CASE i \in 1 .. L
    <3>1. /\ frames[i].stop = 0
          /\ \A j \in frames[i].base + 1 .. Len(tokens) : tokens[j].page > frames[i].page
          /\ \A j \in i + 1 .. L : frames[j].page > frames[i].page
        BY <2>2 DEF IInv, PerPoolInv, L
    <3>2. frames'[i] = frames[i] /\ frames[i].base \in Nat /\ frames[i].base < k
        BY <1>2, <1>3, <1>9, <2>2 DEF L
    <3>3. frames[i].page > 1 => ~Empty(frames[i].page) /\ pages[frames[i].page][1] = POOL_BOUNDARY
        BY <2>2, ClientPages DEF L
    <3>4. ASSUME NEW j \in frames[i].base + 1 .. Len(tokens') PROVE tokens'[j].page > frames[i].page
        <4>1. j \in 1 .. k - 1
            BY <1>3, <1>11, <3>2
        <4>2. j \in frames[i].base + 1 .. Len(tokens)
            BY <1>1, <1>11, <3>2, <4>1
        <4>. QED
            BY <1>11, <3>1, <4>1, <4>2
    <3>5. ASSUME NEW j \in i + 1 .. Len(frames') PROVE frames'[j].page > frames[i].page
        <4>1. CASE j = L + 1
          <5>1. k \in frames[i].base + 1 .. Len(tokens)
            BY <1>1, <1>3, <3>2
          <5>. QED
            BY <1>8, <1>9, <2>1, <3>1, <4>1, <5>1
        <4>2. CASE j \in i + 1 .. L
          <5>1. frames'[j] = frames[j]
            BY <1>1, <1>9, <2>2, <4>2
          <5>. QED
            BY <3>1, <4>2, <5>1
        <4>. QED
            BY <1>1, <1>9, <2>2, <4>1, <4>2
    <3>6. \A j \in frames'[i].base + 1 .. Len(tokens') : tokens'[j].page > frames'[i].page
        BY <3>2, <3>4
    <3>7. \A j \in i + 1 .. Len(frames') : frames'[j].page > frames'[i].page
        BY <3>2, <3>5
    <3>8. frames'[i].page > 1 => ~Empty(frames'[i].page) /\ pages[frames'[i].page][1] = POOL_BOUNDARY
        BY <3>2, <3>3
    <3>. QED
        BY <3>1, <3>2, <3>6, <3>7, <3>8
  <2>3. CASE i = L + 1
    <3>1. /\ \A j \in k .. Len(tokens') : FALSE
          /\ \A j \in L + 2 .. Len(frames') : FALSE
        BY <1>1, <1>3, <1>9, <1>11
    <3>2. ~Empty(at.page) /\ pages[at.page][1] = POOL_BOUNDARY
        <4>1. pages[at.page][1] = POOL_BOUNDARY /\ Len(pages[at.page]) # 0
            BY <1>4, <1>6, <2>1
        <4>2. Empty(at.page) <=> Len(pages[at.page]) = 0
            BY <1>1, <1>6, Typed
        <4>. QED
            BY <4>1, <4>2
    <3>. QED
        BY <1>1, <1>3, <1>8, <1>9, <2>1, <2>3, <3>1, <3>2
  <2>. QED
    BY <1>12, <2>2, <2>3
<1>19. MissingInv'
  <2>. SUFFICES ASSUME env.DebugMissingPools
                PROVE  /\ ~Empty(1) /\ pages[1][1] = POOL_BOUNDARY
                       /\ \A i \in 1 .. Len(frames') : \A j \in frames'[i].base + 1 .. Len(tokens') :
                              Pos(tokens'[j]) # [page |-> 1, index |-> 1]
                       /\ \A i \in 2 .. Len(frames') : frames'[i].page > 1 \/ frames'[i].stop > 0
    BY DEF MissingInv, Empty
  <2>1. ~Empty(1) /\ pages[1][1] = POOL_BOUNDARY
    BY <1>5, ClientPages
  <2>2. /\ \A i \in 1 .. L : \A j \in frames[i].base + 1 .. Len(tokens) :
               Pos(tokens[j]) # [page |-> 1, index |-> 1]
        /\ \A i \in 2 .. L : frames[i].page > 1 \/ frames[i].stop > 0
    BY DEF IInv, MissingInv, L
  <2>3. ASSUME NEW i \in 1 .. Len(frames'), NEW j \in frames'[i].base + 1 .. Len(tokens')
        PROVE  Pos(tokens'[j]) # [page |-> 1, index |-> 1]
    <3>1. CASE i \in 1 .. L
        <4>1. frames'[i] = frames[i] /\ frames[i].base \in Nat
            BY <1>2, <1>9, <3>1
        <4>2. j \in 1 .. k - 1 /\ j \in frames[i].base + 1 .. Len(tokens)
            BY <1>1, <1>3, <1>11, <4>1
        <4>. QED
            BY <1>11, <2>2, <3>1, <4>2
    <3>2. CASE i = L + 1
        BY <1>3, <1>8, <1>9, <1>11, <3>2
    <3>. QED
        BY <1>12, <3>1, <3>2
  <2>4. ASSUME NEW i \in 2 .. Len(frames') PROVE frames'[i].page > 1 \/ frames'[i].stop > 0
    <3>1. CASE i \in 2 .. L
        <4>1. frames'[i] = frames[i]
            BY <1>1, <1>9, <3>1
        <4>. QED
            BY <2>2, <3>1, <4>1
    <3>2. CASE i = L + 1
        <4>1. 1 \in 1 .. L
            BY <1>1, <3>2
        <4>2. k \in frames[1].base + 1 .. Len(tokens)
            BY <1>1, <1>2, <1>3, <4>1
        <4>3. at # [page |-> 1, index |-> 1]
            BY <2>2, <4>1, <4>2 DEF at
        <4>4. at = [page |-> at.page, index |-> at.index]
          <5>1. tokens[k] \in Token
            BY <1>1, <1>3, Elements DEF TypeOK
          <5>2. at \in Token
            BY <5>1 DEF Pos, Token, at
          <5>. QED
            BY <5>2 DEF Token
        <4>5. at.page > 1 \/ at.index > 1
            BY <1>6, <4>3, <4>4
        <4>. QED
            BY <1>6, <1>8, <1>9, <3>2, <4>5
    <3>. QED
        BY <1>1, <1>9, <3>1, <3>2
  <2>. QED
    BY <2>1, <2>3, <2>4
<1>20. ColdInv'
  <2>1. Debugging /\ Empty(1) => L >= 1 /\ frames[1].page = 1
    BY <1>1, <1>5 DEF IInv, ColdInv
  <2>2. Debugging /\ Empty(1) => frames'[1].page = 1
    BY <1>1, <1>9, <2>1
  <2>3. ASSUME env.DebugPoolAllocation, env \notin UnbalancedModes, tls > 1, Empty(1)
        PROVE  \/ tokens' # <<>> /\ tokens'[1].page = 2
               \/ Len(frames') > 1 /\ frames'[2].page = 2
    <3>1. \/ tokens # <<>> /\ tokens[1].page = 2
          \/ L > 1 /\ frames[2].page = 2
        BY <2>3 DEF IInv, ColdInv, L
    <3>2. CASE L > 1 /\ frames[2].page = 2
        BY <1>1, <1>9, <3>2
    <3>3. CASE tokens[1].page = 2 /\ k # 1
        <4>1. Len(tokens') # 0 /\ tokens'[1] = tokens[1]
            BY <1>3, <1>11, <3>3
        <4>2. tokens' # <<>>
            BY <1>11, <4>1, Elements
        <4>. QED
            BY <3>3, <4>1, <4>2
    <3>4. CASE tokens[1].page = 2 /\ k = 1
        <4>1. at = tokens[1]
            BY <1>4, <2>3, <3>4 DEF Pos, at
        <4>2. L >= 1 /\ frames[1].page = 1
            BY <2>1, <2>3 DEF Debugging
        <4>3. ~(L >= 2)
          <5>. SUFFICES ASSUME L >= 2 PROVE FALSE
            OBVIOUS
          <5>1. frames[2].page > frames[1].page /\ frames[2].page \in Nat
            BY <1>1, <2>3, Framed DEF IInv, PerPoolInv, L
          <5>2. tokens[1].page > frames[2].page
            <6>1. 2 \in 1 .. L
                BY <1>1
            <6>2. 1 \in frames[2].base + 1 .. Len(tokens)
                BY <1>1, <1>2, <1>3, <3>4, <6>1
            <6>. QED
                BY <2>3, <6>1, <6>2 DEF IInv, PerPoolInv, L
          <5>. QED
            BY <3>4, <4>2, <5>1, <5>2
        <4>4. L = 1
            BY <1>1, <4>2, <4>3
        <4>5. Len(frames') = 2 /\ frames'[2] = f
            BY <1>9, <4>4
        <4>. QED
            BY <1>8, <3>4, <4>1, <4>5
    <3>. QED
        BY <3>1, <3>2, <3>3, <3>4
  <2>. QED
    BY <1>13, <2>2, <2>3 DEF ColdInv, Debugging, Empty
<1>. QED
    BY <1>1, <1>14, <1>15, <1>16, <1>17, <1>18, <1>19, <1>20 DEF IInv

\* Pop.
LEMMA PopStep ==
    ASSUME IInv, NEW k \in 1 .. Len(tokens), Pop(k)
    PROVE  IInv'
<1>1. /\ Client /\ k \in Own /\ tokens' = SubSeq(tokens, 1, k - 1) /\ UNCHANGED <<env, pages>>
      /\ tls \in Int /\ Len(tokens) \in Nat
    BY Typed DEF Pop, IInv
<1>2. CASE tls < 1
  <2>1. /\ tls \in {Nil, EMPTY_POOL_PLACEHOLDER} /\ hotPage = Nil
        /\ tokens = IF tls = Nil THEN <<>> ELSE <<Placeholder>>
    BY <1>2, NoPage
  <2>2. tokens = <<Placeholder>>
    BY <2>1
  <2>3. k = 1 /\ tokens[k] = Placeholder
    BY <2>2
  <2>4. tokens' = <<>>
    BY <1>1, <2>3
  <2>5. tls' = Nil /\ UNCHANGED <<frames, bad>>
    BY <2>1, <2>3 DEF Pop
  <2>. QED
    BY <1>1, <1>2, <2>4, <2>5, NothingLeft, NoPage
<1>3. CASE tls >= 1
  <2>1. hotPage # Nil
    BY <1>3, Hot DEF Nil
  <2>2. Start(tokens[k]) = Pos(tokens[k]) /\ Valid(Pos(tokens[k]))
    BY <1>3, PopStarts
  <2>3. /\ frames' = Append(frames, [page |-> Pos(tokens[k]).page, stop |-> Pos(tokens[k]).index - 1,
                                     base |-> k - 1, callback |-> FALSE, exit |-> FALSE])
        /\ UNCHANGED <<tls, bad>>
    BY <2>1, <2>2 DEF Pop
  <2>4. PICK f : f = [page |-> Pos(tokens[k]).page, stop |-> Pos(tokens[k]).index - 1,
                      base |-> k - 1, callback |-> FALSE, exit |-> FALSE]
    OBVIOUS
  <2>5. Begun(k, f)
    <3>1. Pos(tokens[k]).page \in 1 .. tls
          /\ Pos(tokens[k]).index \in 1 .. Len(pages[Pos(tokens[k]).page])
        BY <1>3, Tokened
    <3>2. f \in Frame
        BY <1>1, <2>4, <3>1 DEF Frame
    <3>3. frames \in Seq(Frame)
        BY DEF IInv, TypeOK
    <3>4. frames' = Append(frames, f)
        BY <2>3, <2>4
    <3>5. frames' \in Seq(Frame) /\ Len(frames') = Len(frames) + 1
          /\ frames'[Len(frames) + 1] = f /\ \A i \in 1 .. Len(frames) : frames'[i] = frames[i]
        BY <3>2, <3>3, <3>4, Appended
    <3>. QED
        BY <2>4, <3>2, <3>5 DEF Begun
  <2>6. k - 1 \in 0 .. Len(tokens)
    BY <1>1
  <2>7. Shrunk(k - 1)
    BY <1>1, <2>6, TokensShrink
  <2>. QED
    BY <1>1, <1>3, <2>3, <2>5, <2>7, BegunStep
<1>. QED
    BY <1>1, <1>2, <1>3

\* Only whether the innermost pop waits for a -dealloc changes among the pops.
Marked(c) ==
    /\ frames' \in Seq(Frame) /\ Len(frames') = Len(frames)
    /\ \A i \in 1 .. Len(frames) :
           /\ frames'[i].page = frames[i].page /\ frames'[i].stop = frames[i].stop
           /\ frames'[i].base = frames[i].base /\ frames'[i].exit = frames[i].exit
           /\ frames'[i].callback = IF i = Len(frames) THEN c ELSE frames[i].callback

\* So it is in the two actions that do it.
LEMMA MarkTop ==
    ASSUME IInv, frames # <<>>, NEW c \in BOOLEAN,
           frames' = [frames EXCEPT ![Len(frames)].callback = c]
    PROVE  Marked(c)
<1>1. frames \in Seq(Frame) /\ Len(frames) \in Nat /\ Len(frames) \in 1 .. Len(frames)
    BY Typed DEF IInv, TypeOK
<1>2. PICK f : f = [frames[Len(frames)] EXCEPT !.callback = c]
    OBVIOUS
<1>3. frames[Len(frames)] \in Frame
    BY <1>1, Elements
<1>4. /\ f \in Frame /\ f.page = frames[Len(frames)].page /\ f.stop = frames[Len(frames)].stop
      /\ f.base = frames[Len(frames)].base /\ f.exit = frames[Len(frames)].exit /\ f.callback = c
    BY <1>2, <1>3 DEF Frame
<1>5. frames' = [frames EXCEPT ![Len(frames)] = f]
    BY <1>2
<1>6. /\ frames' \in Seq(Frame) /\ Len(frames') = Len(frames)
      /\ \A i \in 1 .. Len(frames) : frames'[i] = IF i = Len(frames) THEN f ELSE frames[i]
    BY <1>1, <1>4, <1>5, ExceptSeq
<1>. QED
    BY <1>4, <1>6 DEF Marked

\* The invariant holds when a -dealloc has returned.
LEMMA ReturnedStep ==
    ASSUME IInv, Client, frames # <<>>, Marked(FALSE), Shrunk(frames[Len(frames)].base),
           env \in UnbalancedModes \/ tokens' = tokens, UNCHANGED <<env, tls, pages, bad>>
    PROVE  IInv'
<1>. DEFINE L == Len(frames)
<1>0. tls' = tls /\ pages' = pages /\ env' = env /\ bad' = bad
    OBVIOUS
<1>1. /\ TypeOK /\ ~bad /\ COUNT \in Nat /\ L \in Nat /\ L >= 1 /\ L \in 1 .. L
      /\ Len(tokens) \in Nat /\ Len(pages) \in Nat
    BY Typed DEF IInv
<1>2. /\ frames' \in Seq(Frame) /\ Len(frames') = L
      /\ \A i \in 1 .. L :
             /\ frames'[i].page = frames[i].page /\ frames'[i].stop = frames[i].stop
             /\ frames'[i].base = frames[i].base /\ frames'[i].exit = frames[i].exit
             /\ frames'[i].callback = IF i = L THEN FALSE ELSE frames[i].callback
    BY DEF Marked
<1>3. /\ tokens' \in Seq(Token) /\ Len(tokens') = frames[L].base
      /\ \A k \in 1 .. Len(tokens') : k \in 1 .. Len(tokens) /\ tokens'[k] = tokens[k]
    BY DEF Shrunk
<1>4. frames[L].base <= Len(tokens) /\ frames[L].base \in Nat /\ tls >= 1
    BY <1>1, Framed
<1>5. frames' # <<>> /\ tls \in 1 .. Len(pages) /\ pages # <<>>
    BY <1>1, <1>2, <1>4, Hot, Elements
<1>. HIDE DEF L
<1>6. TypeOK'
    BY <1>0, <1>1, <1>2, <1>3 DEF TypeOK
<1>7. PageInv'
  <2>1. tls' \notin {Nil, EMPTY_POOL_PLACEHOLDER}
    BY <1>0, <1>5 DEF Nil, EMPTY_POOL_PLACEHOLDER
  <2>. QED
    BY <1>0, <1>5, <2>1 DEF IInv, PageInv, Empty, Full
<1>8. TokenInv'
    BY FewerTokens DEF L
<1>9. FrameInv'
  <2>1. ASSUME NEW i \in 1 .. L
        PROVE  /\ frames'[i].page <= tls' /\ frames'[i].stop <= Len(pages'[frames'[i].page])
               /\ frames'[i].stop < COUNT
               /\ frames'[i].exit => i = 1 /\ frames'[i].page = 1 /\ frames'[i].stop = 0
               /\ frames'[i].base <= Len(tokens')
               /\ \A k \in 1 .. Len(tokens') :
                      k <= frames'[i].base <=> ~Above(Pos(tokens'[k]), frames'[i])
               /\ i < L => frames'[i].callback
               /\ i = L => Len(tokens') = frames'[i].base
               /\ \A j \in i + 1 .. L :
                      /\ frames'[i].page <= frames'[j].page
                      /\ frames'[i].page = frames'[j].page => frames'[i].stop <= frames'[j].stop
                      /\ frames'[i].base <= frames'[j].base
    <3>1. /\ frames[i].page <= tls
          /\ frames[i].stop <= Len(pages[frames[i].page]) /\ frames[i].stop < COUNT
          /\ frames[i].exit => i = 1 /\ frames[i].page = 1 /\ frames[i].stop = 0
          /\ \A k \in 1 .. Len(tokens) : k <= frames[i].base <=> ~Above(Pos(tokens[k]), frames[i])
          /\ i < L => frames[i].callback
          /\ \A j \in i + 1 .. L :
                 /\ frames[i].page <= frames[j].page
                 /\ frames[i].page = frames[j].page => frames[i].stop <= frames[j].stop
                 /\ frames[i].base <= frames[j].base
          /\ frames[i].page \in Nat \ {0} /\ frames[i].stop \in Nat /\ frames[i].base \in Nat
        BY Framed DEF L
    <3>2. frames[i].base <= frames[L].base
        BY <1>1, <1>4, <3>1
    <3>3. ASSUME NEW j \in i + 1 .. L
          PROVE  /\ frames'[i].page <= frames'[j].page
                 /\ frames'[i].page = frames'[j].page => frames'[i].stop <= frames'[j].stop
                 /\ frames'[i].base <= frames'[j].base
        <4>1. j \in 1 .. L
            BY <1>1
        <4>. QED
            BY <1>2, <3>1, <4>1
    <3>4. \A k \in 1 .. Len(tokens') :
              k <= frames'[i].base <=> ~Above(Pos(tokens'[k]), frames'[i])
        BY <1>2, <1>3, <3>1 DEF Above
    <3>5. ASSUME i < L PROVE frames'[i].callback
        <4>1. i # L /\ frames[i].callback
            BY <1>1, <3>1, <3>5
        <4>2. frames'[i].callback = IF i = L THEN FALSE ELSE frames[i].callback
            BY <1>2
        <4>. QED
            BY <4>1, <4>2
    <3>. QED
        BY <1>0, <1>2, <1>3, <3>1, <3>2, <3>3, <3>4, <3>5
  <2>. QED
    BY <1>2, <2>1 DEF FrameInv
<1>10. PerPoolInv'
  <2>1. ASSUME env.DebugPoolAllocation, NEW i \in 1 .. L
        PROVE  /\ frames'[i].stop = 0
               /\ \A k \in frames'[i].base + 1 .. Len(tokens') : tokens'[k].page > frames'[i].page
               /\ \A j \in i + 1 .. L : frames'[j].page > frames'[i].page
               /\ frames'[i].page > 1 =>
                      ~Empty(frames'[i].page) /\ pages[frames'[i].page][1] = POOL_BOUNDARY
    <3>1. /\ frames[i].stop = 0
          /\ \A k \in frames[i].base + 1 .. Len(tokens) : tokens[k].page > frames[i].page
          /\ \A j \in i + 1 .. L : frames[j].page > frames[i].page
        BY <2>1 DEF IInv, PerPoolInv, L
    <3>2. frames[i].page > 1 => ~Empty(frames[i].page) /\ pages[frames[i].page][1] = POOL_BOUNDARY
        BY <2>1, ClientPages DEF L
    <3>3. frames[i].base \in Nat
        BY Framed DEF L
    <3>4. ASSUME NEW k \in frames'[i].base + 1 .. Len(tokens') PROVE tokens'[k].page > frames'[i].page
        <4>1. k \in frames[i].base + 1 .. frames[L].base
            BY <1>2, <1>3
        <4>2. k \in 1 .. frames[L].base /\ k \in frames[i].base + 1 .. Len(tokens)
            BY <1>1, <1>4, <3>3, <4>1
        <4>3. tokens'[k] = tokens[k]
            BY <1>3, <4>2
        <4>. QED
            BY <1>2, <3>1, <4>2, <4>3
    <3>5. ASSUME NEW j \in i + 1 .. L PROVE frames'[j].page > frames'[i].page
        <4>1. j \in 1 .. L
            BY <1>1
        <4>. QED
            BY <1>2, <3>1, <4>1
    <3>. QED
        BY <1>2, <3>1, <3>2, <3>4, <3>5
  <2>. QED
    BY <1>0, <1>2, <2>1 DEF PerPoolInv, Empty
<1>11. MissingInv'
  <2>1. ASSUME env.DebugMissingPools
        PROVE  /\ ~Empty(1) /\ pages[1][1] = POOL_BOUNDARY
               /\ \A i \in 1 .. L : \A k \in frames'[i].base + 1 .. Len(tokens') :
                      Pos(tokens'[k]) # [page |-> 1, index |-> 1]
               /\ \A i \in 2 .. L : frames'[i].page > 1 \/ frames'[i].stop > 0
    <3>1. /\ \A i \in 1 .. L : \A k \in frames[i].base + 1 .. Len(tokens) :
                 Pos(tokens[k]) # [page |-> 1, index |-> 1]
          /\ \A i \in 2 .. L : frames[i].page > 1 \/ frames[i].stop > 0
        BY <2>1 DEF IInv, MissingInv, L
    <3>2. ~Empty(1) /\ pages[1][1] = POOL_BOUNDARY
        BY <1>5, <2>1, ClientPages
    <3>3. ASSUME NEW i \in 1 .. L, NEW k \in frames'[i].base + 1 .. Len(tokens')
          PROVE  Pos(tokens'[k]) # [page |-> 1, index |-> 1]
        <4>1. frames[i].base \in Nat
            BY Framed DEF L
        <4>2. k \in frames[i].base + 1 .. frames[L].base
            BY <1>2, <1>3
        <4>3. k \in 1 .. frames[L].base /\ k \in frames[i].base + 1 .. Len(tokens)
            BY <1>1, <1>4, <4>1, <4>2
        <4>4. tokens'[k] = tokens[k]
            BY <1>3, <4>3
        <4>. QED
            BY <3>1, <4>3, <4>4
    <3>4. \A i \in 2 .. L : i \in 1 .. L
        BY <1>1
    <3>. QED
        BY <1>2, <3>1, <3>2, <3>3, <3>4
  <2>. QED
    BY <1>0, <1>2, <2>1 DEF MissingInv, Empty
<1>12. ColdInv'
  <2>1. Debugging /\ Empty(1) => frames'[1].page = 1
    <3>1. Debugging /\ Empty(1) => frames[1].page = 1
        BY <1>5 DEF IInv, ColdInv
    <3>2. 1 \in 1 .. L
        BY <1>1
    <3>3. frames'[1].page = frames[1].page
        BY <1>2, <3>2
    <3>. QED
        BY <3>1, <3>3
  <2>2. ASSUME env.DebugPoolAllocation, env \notin UnbalancedModes, tls > 1, Empty(1)
        PROVE  \/ tokens' # <<>> /\ tokens'[1].page = 2
               \/ Len(frames') > 1 /\ frames'[2].page = 2
    <3>1. tokens' = tokens
        BY <2>2
    <3>2. \/ tokens # <<>> /\ tokens[1].page = 2
          \/ L > 1 /\ frames[2].page = 2
        BY <2>2 DEF IInv, ColdInv, L
    <3>3. CASE tokens # <<>> /\ tokens[1].page = 2
        BY <3>1, <3>3
    <3>4. CASE L > 1 /\ frames[2].page = 2
        <4>1. 2 \in 1 .. L /\ Len(frames') > 1
            BY <1>1, <1>2, <3>4
        <4>2. frames'[2].page = frames[2].page
            BY <1>2, <4>1
        <4>. QED
            BY <3>4, <4>1, <4>2
    <3>. QED
        BY <3>2, <3>3, <3>4
  <2>. QED
    BY <1>0, <1>5, <2>1, <2>2 DEF ColdInv, Debugging, Empty
<1>. QED
    BY <1>0, <1>1, <1>6, <1>7, <1>8, <1>9, <1>10, <1>11, <1>12 DEF IInv

\* EndDealloc.
LEMMA EndDeallocStep ==
    ASSUME IInv, EndDealloc
    PROVE  IInv'
<1>1. /\ Client /\ frames # <<>> /\ (Len(tokens) > Base => env \in UnbalancedModes)
      /\ tokens' = SubSeq(tokens, 1, Base)
      /\ frames' = [frames EXCEPT ![Len(frames)].callback = FALSE]
      /\ UNCHANGED <<env, tls, pages, bad>>
    BY DEF EndDealloc
<1>2. Len(frames) \in 1 .. Len(frames) /\ Len(tokens) \in Nat /\ tokens \in Seq(Token)
    BY <1>1, Typed DEF IInv, TypeOK
<1>3. Base = frames[Len(frames)].base
    BY <1>1 DEF Base, Top
<1>4. frames[Len(frames)].base \in 0 .. Len(tokens)
    BY <1>2, Framed
<1>5. Marked(FALSE)
    BY <1>1, MarkTop
<1>6. Shrunk(frames[Len(frames)].base)
    BY <1>1, <1>3, <1>4, TokensShrink
<1>7. env \in UnbalancedModes \/ tokens' = tokens
    BY <1>1, <1>2, <1>3, <1>4, SubSeqFull
<1>. QED
    BY <1>1, <1>5, <1>6, <1>7, ReturnedStep

\* A bounded set of numbers has a greatest one.
LEMMA Largest ==
    ASSUME NEW n \in Nat, NEW S \in SUBSET (0 .. n), S # {}
    PROVE  \E x \in S : \A y \in S : y <= x
<1>. DEFINE From(x) == S \intersect (x .. n)
            T == {From(x) : x \in S}
<1>1. ASSUME NEW x \in S PROVE From(x) \in FiniteSubsetsOf(S)
  <2>1. IsFiniteSet(x .. n)
    BY FS_Interval
  <2>2. IsFiniteSet(From(x))
    BY <2>1, FS_Subset
  <2>. QED
    BY <2>2 DEF FiniteSubsetsOf
<1>2. T \subseteq FiniteSubsetsOf(S) /\ T # {}
    BY <1>1
<1>3. IsWellFoundedOn(StrictSubsetOrdering(S), FiniteSubsetsOf(S))
    BY FS_StrictSubsetOrderingWellFounded
<1>4. PICK B \in T : \A C \in T : ~(<<C, B>> \in StrictSubsetOrdering(S))
    BY <1>2, <1>3, WFMin
<1>5. PICK x \in S : B = From(x)
    BY <1>4
<1>6. ASSUME NEW y \in S, ~(y <= x) PROVE FALSE
  <2>1. From(y) \subseteq From(x) /\ x \in From(x) /\ x \notin From(y)
    BY <1>6
  <2>2. <<From(y), From(x)>> \in StrictSubsetOrdering(S)
    BY <2>1 DEF StrictSubsetOrdering
  <2>. QED
    BY <1>4, <1>5, <2>2
<1>. QED
    BY <1>6

\* While the loop has entries to release, it finds the last one at or above the page of
\* the pop, and what is beyond that page is empty.
LEMMA LastUsedPage ==
    ASSUME IInv, Releasing, Len(pages[Top.page]) # Top.stop
    PROVE  /\ Len(frames) \in 1 .. Len(frames) /\ Top = frames[Len(frames)]
           /\ LastUsed \in Top.page .. tls /\ LastUsed \in 1 .. Len(pages)
           /\ Len(pages[Top.page]) > Top.stop /\ Len(pages[LastUsed]) > 0
           /\ \A p \in LastUsed + 1 .. Len(pages) : Len(pages[p]) = 0
<1>1. Len(frames) \in 1 .. Len(frames) /\ Top = frames[Len(frames)]
    BY Typed DEF IInv, Releasing, Top
<1>2. /\ Top.page <= tls /\ tls >= 1 /\ Top.page \in 1 .. Len(pages) /\ Top.stop <= Len(pages[Top.page])
      /\ Top.page \in Nat \ {0} /\ Top.stop \in Nat
    BY <1>1, Framed, Typed DEF IInv
<1>3. /\ Len(pages) \in Nat /\ tls \in Int
      /\ \A p \in 1 .. Len(pages) : Len(pages[p]) \in Nat /\ (Empty(p) <=> Len(pages[p]) = 0)
    BY Typed DEF IInv
<1>4. /\ hotPage = tls /\ tls \in 1 .. Len(pages)
      /\ \A p \in tls + 1 .. Len(pages) : Len(pages[p]) = 0
    BY <1>2, Hot
<1>5. Len(pages[Top.page]) > Top.stop /\ ~Empty(Top.page)
    BY <1>2, <1>3
<1>. DEFINE S == {p \in 1 .. tls : ~Empty(p)}
<1>6. Top.page \in S /\ S \in SUBSET (0 .. tls) /\ tls \in Nat
    BY <1>2, <1>4, <1>5
<1>7. PICK x \in S : \A y \in S : y <= x
    BY <1>6, Largest
<1>8. x \in 1 .. hotPage /\ ~Empty(x) /\ \A q \in x + 1 .. hotPage : Empty(q)
    BY <1>4, <1>7
<1>9. LastUsed \in 1 .. hotPage /\ ~Empty(LastUsed) /\ \A q \in LastUsed + 1 .. hotPage : Empty(q)
    BY <1>8 DEF LastUsed
<1>10. PICK u : u = LastUsed
    OBVIOUS
<1>11. u \in 1 .. tls /\ ~Empty(u) /\ \A q \in u + 1 .. tls : Empty(q)
    BY <1>4, <1>9, <1>10
<1>12. u \in 1 .. Len(pages) /\ Len(pages[u]) > 0
    BY <1>3, <1>4, <1>11
<1>13. ~(u < Top.page)
    BY <1>2, <1>3, <1>5, <1>11
<1>14. \A p \in u + 1 .. Len(pages) : Len(pages[p]) = 0
  <2>1. TAKE p \in u + 1 .. Len(pages)
  <2>2. p \in 1 .. Len(pages) /\ (p \in u + 1 .. tls \/ p \in tls + 1 .. Len(pages))
    BY <1>3, <1>11
  <2>. QED
    BY <1>3, <1>4, <1>11, <2>2
<1>. QED
    BY <1>1, <1>2, <1>5, <1>10, <1>11, <1>12, <1>13, <1>14

\* The last entry of page u is released; beyond u the pages are empty.
Released(u, c) ==
    /\ Len(frames) \in 1 .. Len(frames) /\ ~frames[Len(frames)].callback
    /\ u \in frames[Len(frames)].page .. tls /\ u \in 1 .. Len(pages)
    /\ Len(pages[frames[Len(frames)].page]) > frames[Len(frames)].stop
    /\ Len(pages[u]) > 0 /\ \A p \in u + 1 .. Len(pages) : Len(pages[p]) = 0
    /\ c \in BOOLEAN /\ (pages[u][Len(pages[u])] = POOL_BOUNDARY => c = FALSE)
    /\ tls' = u
    /\ pages' \in Seq(Seq(Entry)) /\ Len(pages') = Len(pages)
    /\ Len(pages'[u]) = Len(pages[u]) - 1
    /\ \A i \in 1 .. Len(pages[u]) - 1 : pages'[u][i] = pages[u][i]
    /\ \A p \in 1 .. Len(pages) : p # u => pages'[p] = pages[p]

\* So it is in ReleaseNext.
LEMMA NextReleases ==
    ASSUME IInv, ReleaseNext
    PROVE  \E u, c : Released(u, c) /\ Marked(c)
<1>1. /\ Releasing /\ Len(pages[Top.page]) # Top.stop /\ tls' = LastUsed
      /\ frames' = [frames EXCEPT ![Len(frames)].callback =
                        pages[LastUsed][Len(pages[LastUsed])] # POOL_BOUNDARY]
      /\ pages' = [pages EXCEPT ![LastUsed] = SubSeq(@, 1, Len(@) - 1)]
    BY DEF ReleaseNext
<1>2. PICK u : u = LastUsed
    OBVIOUS
<1>3. PICK c : c = (pages[u][Len(pages[u])] # POOL_BOUNDARY)
    OBVIOUS
<1>4. c \in BOOLEAN /\ (pages[u][Len(pages[u])] = POOL_BOUNDARY => c = FALSE)
    BY <1>3
<1>5. frames' = [frames EXCEPT ![Len(frames)].callback = c] /\ frames # <<>>
    BY <1>1, <1>2, <1>3 DEF Releasing
<1>6. Marked(c)
    BY <1>4, <1>5, MarkTop
<1>7. /\ Len(frames) \in 1 .. Len(frames) /\ Top = frames[Len(frames)]
      /\ u \in Top.page .. tls /\ u \in 1 .. Len(pages)
      /\ Len(pages[Top.page]) > Top.stop /\ Len(pages[u]) > 0
      /\ \A p \in u + 1 .. Len(pages) : Len(pages[p]) = 0
    BY <1>1, <1>2, LastUsedPage
<1>8. pages \in Seq(Seq(Entry)) /\ pages[u] \in Seq(Entry) /\ Len(pages[u]) \in Nat
    BY <1>7, Typed DEF IInv, TypeOK
<1>9. PICK s : s = SubSeq(pages[u], 1, Len(pages[u]) - 1)
    OBVIOUS
<1>10. s \in Seq(Entry) /\ Len(s) = Len(pages[u]) - 1
       /\ \A i \in 1 .. Len(pages[u]) - 1 : s[i] = pages[u][i]
  <2>1. Len(pages[u]) - 1 \in 0 .. Len(pages[u])
    BY <1>7, <1>8
  <2>. QED
    BY <1>8, <1>9, <2>1, Beginning
<1>11. pages' = [pages EXCEPT ![u] = s]
    BY <1>1, <1>2, <1>9
<1>12. /\ pages' \in Seq(Seq(Entry)) /\ Len(pages') = Len(pages)
       /\ pages'[u] = s /\ \A p \in 1 .. Len(pages) : p # u => pages'[p] = pages[p]
    BY <1>7, <1>8, <1>10, <1>11, PageReplaced
<1>13. ~frames[Len(frames)].callback /\ tls' = u
    BY <1>1, <1>2, <1>7 DEF Releasing
<1>14. Released(u, c)
    BY <1>4, <1>7, <1>10, <1>12, <1>13 DEF Released
<1>. QED
    BY <1>6, <1>14

\* The invariant holds when an entry has been released.
LEMMA ReleasedStep ==
    ASSUME IInv, NEW u, NEW c, Released(u, c), Marked(c), UNCHANGED <<env, tokens, bad>>
    PROVE  IInv'
<1>. DEFINE L == Len(frames)
            P == frames[L].page
<1>0. tokens' = tokens /\ env' = env /\ bad' = bad
    OBVIOUS
<1>1. /\ TypeOK /\ ~bad /\ COUNT \in Nat /\ L \in Nat /\ L >= 1 /\ L \in 1 .. L
      /\ Len(tokens) \in Nat /\ Len(pages) \in Nat /\ tls \in Int
      /\ \A p \in 1 .. Len(pages) : Len(pages[p]) \in Nat /\ Len(pages[p]) <= COUNT
    BY Typed DEF IInv, Released
<1>2. /\ frames' \in Seq(Frame) /\ Len(frames') = L
      /\ \A i \in 1 .. L :
             /\ frames'[i].page = frames[i].page /\ frames'[i].stop = frames[i].stop
             /\ frames'[i].base = frames[i].base /\ frames'[i].exit = frames[i].exit
             /\ frames'[i].callback = IF i = L THEN c ELSE frames[i].callback
    BY DEF Marked
<1>3. /\ u \in P .. tls /\ u \in 1 .. Len(pages) /\ tls' = u
      /\ Len(pages[P]) > frames[L].stop /\ ~frames[L].callback
      /\ Len(pages[u]) > 0 /\ \A p \in u + 1 .. Len(pages) : Len(pages[p]) = 0
      /\ c \in BOOLEAN /\ (pages[u][Len(pages[u])] = POOL_BOUNDARY => c = FALSE)
    BY DEF Released
<1>4. /\ pages' \in Seq(Seq(Entry)) /\ Len(pages') = Len(pages)
      /\ Len(pages'[u]) = Len(pages[u]) - 1
      /\ \A i \in 1 .. Len(pages[u]) - 1 : pages'[u][i] = pages[u][i]
      /\ \A p \in 1 .. Len(pages) : p # u => pages'[p] = pages[p]
    BY DEF Released
<1>5. /\ P \in Nat \ {0} /\ P \in 1 .. Len(pages) /\ P <= tls /\ tls >= 1
      /\ frames[L].stop \in Nat /\ frames[L].base \in Nat
      /\ frames[L].base = Len(tokens)
      /\ \A k \in 1 .. Len(tokens) : k <= frames[L].base <=> ~Above(Pos(tokens[k]), frames[L])
    BY <1>1, <1>3, Framed, Typed DEF IInv
<1>6. \A i \in 1 .. L : i = L \/ i \in 1 .. L - 1
    BY <1>1
<1>7. /\ u \in Nat /\ u >= P /\ u >= 1 /\ tls \in 1 .. Len(pages) /\ tls >= u
      /\ Len(pages[u]) \in Nat /\ Len(pages[P]) \in Nat
      /\ ~env.DebugPoolAllocation => \A p \in 1 .. tls - 1 : Len(pages[p]) = COUNT
    BY <1>1, <1>3, <1>5, Hot
<1>8. frames' # <<>> /\ pages # <<>>
    BY <1>1, <1>2, <1>7, Elements, Typed
<1>9. \A i \in 1 .. L : frames[i].page <= P /\ frames[i].page \in 1 .. Len(pages)
                        /\ frames[i].page \in Nat \ {0} /\ frames[i].stop \in Nat
                        /\ (frames[i].page = P => frames[i].stop <= frames[L].stop)
    BY <1>1, <1>5, <1>6, Framed, Typed
<1>10. \A p \in 1 .. Len(pages) : pages'[p] \in Seq(Entry) /\ Len(pages'[p]) \in Nat
                                  /\ Len(pages'[p]) <= Len(pages[p])
  <2>1. TAKE p \in 1 .. Len(pages)
  <2>2. pages'[p] \in Seq(Entry) /\ Len(pages'[p]) \in Nat
    BY <1>4, PageElements
  <2>3. CASE p = u
    BY <1>4, <1>7, <2>2, <2>3
  <2>4. CASE p # u
    <3>1. pages'[p] = pages[p]
        BY <1>4, <2>4
    <3>2. Len(pages[p]) \in Nat
        BY <1>1
    <3>. QED
        BY <2>2, <3>1, <3>2
  <2>. QED
    BY <2>3, <2>4
<1>. HIDE DEF L, P
<1>11. TypeOK'
  <2>1. tls' \in 0 .. Len(pages')
    BY <1>1, <1>3, <1>4
  <2>2. \A p \in 1 .. Len(pages') : Len(pages'[p]) <= COUNT
    BY <1>1, <1>4, <1>10
  <2>. QED
    BY <1>0, <1>1, <1>2, <1>4, <2>1, <2>2 DEF TypeOK
<1>12. PageInv'
  <2>1. tls' \notin {Nil, EMPTY_POOL_PLACEHOLDER}
    BY <1>3, <1>7 DEF Nil, EMPTY_POOL_PLACEHOLDER
  <2>2. ASSUME NEW p \in u + 1 .. Len(pages) PROVE pages'[p] = <<>>
    <3>1. p \in 1 .. Len(pages) /\ p # u
        BY <1>1, <1>7
    <3>2. pages'[p] = pages[p] /\ Len(pages[p]) = 0
        BY <1>3, <1>4, <3>1
    <3>. QED
        BY <1>10, <3>1, <3>2, Elements
  <2>3. ASSUME ~env.DebugPoolAllocation, NEW p \in 1 .. u - 1 PROVE Len(pages'[p]) = COUNT
    <3>1. p \in 1 .. Len(pages) /\ p # u /\ p \in 1 .. tls - 1
        BY <1>1, <1>7
    <3>. QED
        BY <1>4, <1>7, <2>3, <3>1
  <2>. QED
    BY <1>0, <1>3, <1>4, <1>8, <2>1, <2>2, <2>3 DEF PageInv, Empty, Full
<1>13. TokenInv'
  <2>1. ASSUME NEW k \in 1 .. Len(tokens)
        PROVE  /\ Pos(tokens[k]).page \in 1 .. Len(pages)
               /\ Pos(tokens[k]).index \in 1 .. Len(pages'[Pos(tokens[k]).page])
               /\ pages'[Pos(tokens[k]).page][Pos(tokens[k]).index] = POOL_BOUNDARY
    <3>1. PICK p \in 1 .. tls : p = Pos(tokens[k]).page
        BY <1>5, Tokened
    <3>2. PICK n : n = Pos(tokens[k]).index
        OBVIOUS
    <3>3. n \in 1 .. Len(pages[p]) /\ pages[p][n] = POOL_BOUNDARY
        BY <1>5, <3>1, <3>2, Tokened
    <3>4. ~(p > P) /\ ~(p = P /\ n > frames[L].stop)
        BY <1>5, <3>1, <3>2 DEF Above, P
    <3>5. p \in 1 .. Len(pages) /\ Len(pages[p]) \in Nat
        BY <1>1, <1>7, <3>1
    <3>6. n \in 1 .. Len(pages'[p]) /\ pages'[p][n] = POOL_BOUNDARY
        <4>1. CASE p = u
            <5>1. p = P
                BY <1>3, <1>5, <1>7, <3>4, <4>1
            <5>2. n \in 1 .. Len(pages[u]) - 1
                BY <1>3, <1>5, <1>7, <3>3, <3>4, <4>1, <5>1
            <5>. QED
                BY <1>4, <3>3, <4>1, <5>2
        <4>2. CASE p # u
            BY <1>4, <3>3, <3>5, <4>2
        <4>. QED
            BY <4>1, <4>2
    <3>. QED
        BY <3>1, <3>2, <3>5, <3>6
  <2>. QED
    BY <1>0, <1>4, <2>1 DEF IInv, TokenInv
<1>14. FrameInv'
  <2>1. ASSUME NEW i \in 1 .. L
        PROVE  /\ frames'[i].page <= u /\ frames'[i].stop <= Len(pages'[frames'[i].page])
               /\ frames'[i].stop < COUNT
               /\ frames'[i].exit => i = 1 /\ frames'[i].page = 1 /\ frames'[i].stop = 0
               /\ frames'[i].base <= Len(tokens)
               /\ \A k \in 1 .. Len(tokens) :
                      k <= frames'[i].base <=> ~Above(Pos(tokens[k]), frames'[i])
               /\ i < L => frames'[i].callback
               /\ i = L => Len(tokens) = frames'[i].base
               /\ \A j \in i + 1 .. L :
                      /\ frames'[i].page <= frames'[j].page
                      /\ frames'[i].page = frames'[j].page => frames'[i].stop <= frames'[j].stop
                      /\ frames'[i].base <= frames'[j].base
    <3>1. /\ frames[i].stop <= Len(pages[frames[i].page]) /\ frames[i].stop < COUNT
          /\ frames[i].exit => i = 1 /\ frames[i].page = 1 /\ frames[i].stop = 0
          /\ frames[i].base <= Len(tokens)
          /\ \A k \in 1 .. Len(tokens) : k <= frames[i].base <=> ~Above(Pos(tokens[k]), frames[i])
          /\ i < L => frames[i].callback
          /\ \A j \in i + 1 .. L :
                 /\ frames[i].page <= frames[j].page
                 /\ frames[i].page = frames[j].page => frames[i].stop <= frames[j].stop
                 /\ frames[i].base <= frames[j].base
        BY Framed DEF L
    <3>2. PICK p \in 1 .. Len(pages) : p = frames[i].page
        BY <1>9
    <3>3. frames[i].stop <= Len(pages'[p])
        <4>1. CASE p = u
            <5>1. p <= P /\ P <= u /\ (p = P => frames[i].stop <= frames[L].stop)
                  /\ frames[i].stop \in Nat
                BY <1>7, <1>9, <3>2
            <5>2. p = P /\ frames[i].stop <= frames[L].stop
                BY <1>5, <1>7, <4>1, <5>1
            <5>3. frames[L].stop < Len(pages[u]) /\ Len(pages[u]) \in Nat /\ frames[L].stop \in Nat
                BY <1>3, <1>5, <1>7, <4>1, <5>2
            <5>4. Len(pages'[u]) = Len(pages[u]) - 1
                BY <1>4
            <5>. QED
                BY <4>1, <5>1, <5>2, <5>3, <5>4
        <4>2. CASE p # u
            <5>1. pages'[p] = pages[p]
                BY <1>4, <4>2
            <5>. QED
                BY <3>1, <3>2, <5>1
        <4>. QED
            BY <4>1, <4>2
    <3>4. p <= u
        BY <1>5, <1>7, <1>9, <3>2
    <3>5. ASSUME NEW j \in i + 1 .. L
          PROVE  /\ frames'[i].page <= frames'[j].page
                 /\ frames'[i].page = frames'[j].page => frames'[i].stop <= frames'[j].stop
                 /\ frames'[i].base <= frames'[j].base
        <4>1. j \in 1 .. L
            BY <1>1
        <4>. QED
            BY <1>2, <3>1, <4>1
    <3>6. \A k \in 1 .. Len(tokens) :
              k <= frames'[i].base <=> ~Above(Pos(tokens[k]), frames'[i])
        BY <1>2, <3>1 DEF Above
    <3>7. ASSUME i < L PROVE frames'[i].callback
        <4>1. i # L /\ frames[i].callback
            BY <1>1, <3>1, <3>7
        <4>2. frames'[i].callback = IF i = L THEN c ELSE frames[i].callback
            BY <1>2
        <4>. QED
            BY <4>1, <4>2
    <3>8. frames'[i].page = p /\ frames'[i].stop = frames[i].stop /\ frames'[i].base = frames[i].base
          /\ frames'[i].exit = frames[i].exit
        BY <1>2, <3>2
    <3>. QED
        BY <1>5, <3>1, <3>2, <3>3, <3>4, <3>5, <3>6, <3>7, <3>8
  <2>. QED
    BY <1>0, <1>2, <1>3, <2>1 DEF FrameInv
<1>15. PerPoolInv'
  <2>. SUFFICES ASSUME env.DebugPoolAllocation PROVE PerPoolInv'
    BY <1>0 DEF PerPoolInv
  <2>1. ASSUME NEW i \in 1 .. L
        PROVE  /\ frames[i].stop = 0
               /\ \A k \in frames[i].base + 1 .. Len(tokens) : tokens[k].page > frames[i].page
               /\ \A j \in i + 1 .. L : frames[j].page > frames[i].page
               /\ frames[i].page > 1 =>
                      IF Empty(frames[i].page)
                      THEN i = L /\ ~frames[i].callback /\ tls = frames[i].page
                      ELSE pages[frames[i].page][1] = POOL_BOUNDARY
    BY DEF IInv, PerPoolInv, L
  <2>2. ASSUME NEW i \in 1 .. L, frames[i].page > 1
        PROVE  IF Empty(frames[i].page)'
               THEN i = L /\ ~frames'[i].callback /\ tls' = frames'[i].page
               ELSE pages'[frames'[i].page][1] = POOL_BOUNDARY
    <3>1. PICK p \in 1 .. Len(pages) : p = frames[i].page
        BY <1>9
    <3>2. frames'[i].page = p
        BY <1>2, <3>1
    <3>3. CASE p = u
        <4>1. i = L
          <5>1. ~(i < L)
            <6>1. i < L => L \in i + 1 .. L
                BY <1>1
            <6>2. P <= p
                BY <1>7, <3>3
            <6>. QED
                BY <1>5, <2>1, <3>1, <6>1, <6>2 DEF P
          <5>. QED
            BY <1>1, <5>1
        <4>2. p = P
            BY <3>1, <4>1 DEF P
        <4>3. ~Empty(p)
            BY <1>3, <3>3, Typed DEF IInv
        <4>4. pages[p][1] = POOL_BOUNDARY
            BY <2>1, <2>2, <3>1, <4>3
        <4>5. CASE Len(pages[p]) = 1
          <5>1. c = FALSE
            BY <1>3, <3>3, <4>4, <4>5
          <5>2. Len(pages'[p]) = 0
            BY <1>4, <3>3, <4>5
          <5>3. pages'[p] = <<>>
            BY <1>10, <5>2, Elements
          <5>4. ~frames'[i].callback
            BY <1>2, <4>1, <5>1
          <5>. QED
            BY <1>3, <3>1, <3>2, <3>3, <4>1, <5>3, <5>4 DEF Empty
        <4>6. CASE Len(pages[p]) # 1
          <5>1. 1 \in 1 .. Len(pages[u]) - 1
            <6>1. PICK m \in Nat : m = Len(pages[u])
                BY <1>7
            <6>2. m > 0 /\ m # 1
                BY <1>3, <3>3, <4>6, <6>1
            <6>3. 1 \in 1 .. m - 1
                BY <6>2
            <6>. QED
                BY <6>1, <6>3
          <5>2. pages'[p][1] = POOL_BOUNDARY /\ Len(pages'[p]) # 0
            BY <1>4, <1>7, <3>3, <4>4, <5>1
          <5>3. pages'[p] # <<>>
            BY <1>10, <5>2, Elements
          <5>. QED
            BY <3>1, <3>2, <5>2, <5>3 DEF Empty
        <4>. QED
            BY <4>5, <4>6
    <3>4. CASE p # u
        <4>1. pages'[p] = pages[p]
            BY <1>4, <3>4
        <4>2. ~Empty(p)
          <5>1. ASSUME Empty(p) PROVE FALSE
            <6>1. i = L
                BY <2>1, <2>2, <3>1, <5>1
            <6>2. Len(pages[p]) > 0
                BY <1>3, <1>5, <1>7, <3>1, <6>1 DEF P
            <6>. QED
                BY <5>1, <6>2, Typed DEF IInv
          <5>. QED
            BY <5>1
        <4>3. pages[p][1] = POOL_BOUNDARY
            BY <2>1, <2>2, <3>1, <4>2
        <4>. QED
            BY <3>1, <3>2, <4>1, <4>2, <4>3 DEF Empty
    <3>. QED
        BY <3>3, <3>4
  <2>3. ASSUME NEW i \in 1 .. L
        PROVE  /\ frames'[i].stop = 0
               /\ \A k \in frames'[i].base + 1 .. Len(tokens) : tokens[k].page > frames'[i].page
               /\ \A j \in i + 1 .. L : frames'[j].page > frames'[i].page
    <3>1. \A j \in i + 1 .. L : j \in 1 .. L
        BY <1>1
    <3>. QED
        BY <1>2, <2>1, <3>1
  <2>4. ASSUME NEW i \in 1 .. L, frames'[i].page > 1
        PROVE  IF Empty(frames[i].page)'
               THEN i = L /\ ~frames'[i].callback /\ tls' = frames'[i].page
               ELSE pages'[frames'[i].page][1] = POOL_BOUNDARY
    BY <1>2, <2>2, <2>4
  <2>. QED
    BY <1>0, <1>2, <2>3, <2>4 DEF PerPoolInv
<1>16. MissingInv'
  <2>. SUFFICES ASSUME env.DebugMissingPools PROVE MissingInv'
    BY <1>0 DEF MissingInv
  <2>1. /\ IF Empty(1) THEN L = 1 /\ ~frames[1].callback ELSE pages[1][1] = POOL_BOUNDARY
        /\ \A i \in 1 .. L : \A k \in frames[i].base + 1 .. Len(tokens) :
               Pos(tokens[k]) # [page |-> 1, index |-> 1]
        /\ \A i \in 2 .. L : frames[i].page > 1 \/ frames[i].stop > 0
    BY <1>8 DEF IInv, MissingInv, L
  <2>2. 1 \in 1 .. Len(pages) /\ (Empty(1) <=> Len(pages[1]) = 0)
    BY <1>1, <1>7, Typed
  <2>3. ~Empty(1)
    <3>1. ASSUME Empty(1) PROVE FALSE
        <4>1. L = 1 /\ frames[1].page = 1
            BY <1>8, <2>1, <3>1 DEF IInv, ColdInv, Debugging
        <4>2. Len(pages[1]) > 0
            BY <1>3, <1>5, <1>7, <4>1 DEF P
        <4>. QED
            BY <2>2, <3>1, <4>2
    <3>. QED
        BY <3>1
  <2>4. pages[1][1] = POOL_BOUNDARY
    BY <2>1, <2>3
  <2>5. IF Empty(1)' THEN L = 1 /\ ~frames'[1].callback ELSE pages'[1][1] = POOL_BOUNDARY
    <3>1. CASE u # 1
        <4>1. pages'[1] = pages[1]
            BY <1>4, <2>2, <3>1
        <4>. QED
            BY <2>3, <2>4, <4>1 DEF Empty
    <3>2. CASE u = 1 /\ Len(pages[1]) # 1
        <4>1. 1 \in 1 .. Len(pages[u]) - 1 /\ Len(pages[u]) \in Nat
          <5>1. PICK m \in Nat : m = Len(pages[u])
            BY <1>7
          <5>2. m > 0 /\ m # 1
            BY <1>3, <3>2, <5>1
          <5>3. 1 \in 1 .. m - 1
            BY <5>2
          <5>. QED
            BY <5>1, <5>3
        <4>2. pages'[u][1] = pages[u][1] /\ Len(pages'[u]) = Len(pages[u]) - 1
            BY <1>4, <4>1
        <4>3. pages'[1][1] = POOL_BOUNDARY /\ Len(pages'[1]) # 0
            BY <2>4, <3>2, <4>1, <4>2
        <4>4. pages'[1] # <<>>
            BY <1>10, <2>2, <4>3, Elements
        <4>. QED
            BY <4>3, <4>4 DEF Empty
    <3>3. CASE u = 1 /\ Len(pages[1]) = 1
        <4>1. c = FALSE /\ P = 1 /\ frames[L].stop = 0
            BY <1>3, <1>5, <1>7, <2>4, <3>3
        <4>2. L = 1
          <5>1. ~(L \in 2 .. L)
            BY <1>5, <2>1, <4>1 DEF P
          <5>. QED
            BY <1>1, <5>1
        <4>3. ~frames'[1].callback
            BY <1>1, <1>2, <4>1, <4>2
        <4>4. Len(pages'[1]) = 0
            BY <1>4, <3>3
        <4>5. pages'[1] = <<>>
            BY <1>10, <2>2, <4>4, Elements
        <4>. QED
            BY <4>2, <4>3, <4>5 DEF Empty
    <3>. QED
        BY <3>1, <3>2, <3>3
  <2>6. \A i \in 1 .. L : \A k \in frames'[i].base + 1 .. Len(tokens) :
            Pos(tokens[k]) # [page |-> 1, index |-> 1]
    BY <1>2, <2>1
  <2>7. \A i \in 2 .. L : frames'[i].page > 1 \/ frames'[i].stop > 0
    <3>1. \A i \in 2 .. L : i \in 1 .. L
        BY <1>1
    <3>. QED
        BY <1>2, <2>1, <3>1
  <2>. QED
    BY <1>0, <1>2, <2>5, <2>6, <2>7 DEF MissingInv
<1>17. ColdInv'
  <2>1. 1 \in 1 .. Len(pages) /\ 1 \in 1 .. L
    BY <1>1, <1>7
  <2>2. u # 1 => (Empty(1)' <=> Empty(1))
    BY <1>4, <2>1 DEF Empty
  <2>3. Debugging /\ Empty(1)' => frames'[1].page = 1
    <3>1. frames'[1].page = frames[1].page
        BY <1>2, <2>1
    <3>2. CASE u = 1
        BY <1>5, <1>7, <1>9, <2>1, <3>1, <3>2
    <3>3. CASE u # 1
        BY <1>8, <2>2, <3>1, <3>3 DEF IInv, ColdInv
    <3>. QED
        BY <3>2, <3>3
  <2>4. ASSUME env.DebugPoolAllocation, env \notin UnbalancedModes, u > 1, Empty(1)'
        PROVE  \/ tokens # <<>> /\ tokens[1].page = 2
               \/ Len(frames') > 1 /\ frames'[2].page = 2
    <3>1. tls > 1 /\ Empty(1)
        BY <1>1, <1>7, <2>2, <2>4
    <3>2. \/ tokens # <<>> /\ tokens[1].page = 2
          \/ L > 1 /\ frames[2].page = 2
        BY <2>4, <3>1 DEF IInv, ColdInv, L
    <3>3. CASE L > 1 /\ frames[2].page = 2
        <4>1. 2 \in 1 .. L /\ Len(frames') > 1
            BY <1>1, <1>2, <3>3
        <4>2. frames'[2].page = frames[2].page
            BY <1>2, <4>1
        <4>. QED
            BY <3>3, <4>1, <4>2
    <3>. QED
        BY <3>2, <3>3
  <2>5. Debugging' = Debugging
    BY <1>0 DEF Debugging
  <2>. QED
    BY <1>0, <1>3, <1>8, <2>3, <2>4, <2>5 DEF ColdInv
<1>. QED
    BY <1>0, <1>1, <1>11, <1>12, <1>13, <1>14, <1>15, <1>16, <1>17 DEF IInv

\* ReleaseNext.
LEMMA ReleaseNextStep ==
    ASSUME IInv, ReleaseNext
    PROVE  IInv'
<1>1. PICK u, c : Released(u, c) /\ Marked(c)
    BY NextReleases
<1>2. UNCHANGED <<env, tokens, bad>>
    BY DEF ReleaseNext
<1>. QED
    BY <1>1, <1>2, ReleasedStep

\* The innermost pop is over.
Popped ==
    /\ Len(frames) \in 1 .. Len(frames) /\ ~frames[Len(frames)].callback
    /\ Len(pages[frames[Len(frames)].page]) = frames[Len(frames)].stop
    /\ frames' \in Seq(Frame) /\ Len(frames') = Len(frames) - 1
    /\ \A i \in 1 .. Len(frames) - 1 : frames'[i] = frames[i]

\* The pages beyond the n-th are freed.
Freed(n) ==
    /\ n \in 0 .. Len(pages)
    /\ pages' \in Seq(Seq(Entry)) /\ Len(pages') = n
    /\ \A p \in 1 .. n : pages'[p] = pages[p]

\* So it is with what SubSeq leaves.
LEMMA PagesFreed ==
    ASSUME IInv, NEW n \in 0 .. Len(pages), pages' = SubSeq(pages, 1, n)
    PROVE  Freed(n)
<1>1. pages \in Seq(Seq(Entry))
    BY DEF IInv, TypeOK
<1>. QED
    BY <1>1, Beginning DEF Freed

\* The pop has nothing left to release above its own start, and no pool above it is open.
LEMMA PopOver ==
    ASSUME IInv, Popped
    PROVE  LET t == frames[Len(frames)]
           IN  /\ t.page \in 1 .. Len(pages) /\ t.page <= tls /\ tls >= 1 /\ t.page \in Nat \ {0}
               /\ t.stop \in Nat /\ t.stop < COUNT /\ Len(pages[t.page]) = t.stop
               /\ ~env.DebugPoolAllocation => t.page = tls
               /\ env.DebugPoolAllocation => t.stop = 0
               /\ \A k \in 1 .. Len(tokens) : ~Above(Pos(tokens[k]), t)
<1>. DEFINE t == frames[Len(frames)]
<1>1. Len(frames) \in 1 .. Len(frames) /\ ~t.callback /\ Len(pages[t.page]) = t.stop
    BY DEF Popped
<1>2. /\ t.page \in 1 .. Len(pages) /\ t.page <= tls /\ tls >= 1 /\ t.page \in Nat \ {0}
      /\ t.stop \in Nat /\ t.stop < COUNT /\ Len(tokens) = t.base
      /\ \A k \in 1 .. Len(tokens) : k <= t.base <=> ~Above(Pos(tokens[k]), t)
    BY <1>1, Framed, Typed DEF IInv
<1>3. Len(tokens) \in Nat /\ tls \in Int /\ COUNT \in Nat
    BY Typed DEF IInv
<1>4. ~env.DebugPoolAllocation => t.page = tls
  <2>. SUFFICES ASSUME ~env.DebugPoolAllocation, t.page # tls PROVE FALSE
    OBVIOUS
  <2>1. t.page \in 1 .. tls - 1
    BY <1>2, <1>3
  <2>2. Len(pages[t.page]) = COUNT
    BY <1>2, <2>1, Hot
  <2>. QED
    BY <1>1, <1>2, <1>3, <2>2
<1>5. env.DebugPoolAllocation => t.stop = 0
    BY <1>1 DEF IInv, PerPoolInv
<1>6. \A k \in 1 .. Len(tokens) : ~Above(Pos(tokens[k]), t)
    BY <1>2, <1>3
<1>. QED
    BY <1>1, <1>2, <1>4, <1>5, <1>6

\* No pool is open above the start of the first page.
LEMMA NoPoolOpen ==
    ASSUME IInv, Popped, frames[Len(frames)].page = 1, frames[Len(frames)].stop = 0
    PROVE  tokens = <<>>
<1>1. tls >= 1 /\ \A k \in 1 .. Len(tokens) : ~Above(Pos(tokens[k]), frames[Len(frames)])
    BY PopOver
<1>2. Len(tokens) \in Nat /\ (tokens = <<>> <=> Len(tokens) = 0)
    BY Typed DEF IInv
<1>3. ASSUME 1 \in 1 .. Len(tokens) PROVE FALSE
  <2>1. PICK p \in 1 .. tls : p = Pos(tokens[1]).page
    BY <1>1, <1>3, Tokened
  <2>2. PICK n \in 1 .. Len(pages[p]) : n = Pos(tokens[1]).index
    BY <1>1, <1>3, <2>1, Tokened
  <2>3. p > 1 \/ (p = 1 /\ n > 0)
    BY <2>1, <2>2
  <2>. QED
    BY <1>1, <1>3, <2>1, <2>2, <2>3 DEF Above
<1>. QED
    BY <1>2, <1>3

\* The invariant holds when a pop is over and the page that it began on, or the one
\* before, is hot.
LEMMA EndedStep ==
    ASSUME IInv, NEW n, Popped, Freed(n), UNCHANGED <<env, tokens, bad>>,
           \/ /\ env.DebugPoolAllocation /\ frames[Len(frames)].page >= 2
              /\ n = frames[Len(frames)].page - 1 /\ tls' = frames[Len(frames)].page - 1
           \/ /\ ~env.DebugPoolAllocation /\ n >= tls /\ n <= tls + 1 /\ tls' = tls
              /\ ~(env.DebugMissingPools /\ frames[Len(frames)].page = 1 /\ Empty(1))
    PROVE  IInv'
<1>. DEFINE L == Len(frames)
            P == frames[L].page
<1>0. tokens' = tokens /\ env' = env /\ bad' = bad
    OBVIOUS
<1>1. /\ TypeOK /\ ~bad /\ COUNT \in Nat /\ L \in Nat /\ L >= 1 /\ L \in 1 .. L
      /\ Len(tokens) \in Nat /\ Len(pages) \in Nat /\ tls \in Int
      /\ \A p \in 1 .. Len(pages) : Len(pages[p]) \in Nat /\ Len(pages[p]) <= COUNT
      /\ frames \in Seq(Frame)
    BY Typed DEF IInv, Popped, TypeOK
<1>2. /\ frames' \in Seq(Frame) /\ Len(frames') = L - 1
      /\ \A i \in 1 .. L - 1 : frames'[i] = frames[i]
    BY DEF Popped
<1>3. /\ n \in 0 .. Len(pages) /\ pages' \in Seq(Seq(Entry)) /\ Len(pages') = n
      /\ \A p \in 1 .. n : pages'[p] = pages[p]
    BY DEF Freed
<1>4. /\ P \in 1 .. Len(pages) /\ P <= tls /\ tls >= 1 /\ P \in Nat \ {0}
      /\ Len(pages[P]) = frames[L].stop /\ frames[L].stop \in Nat
      /\ ~env.DebugPoolAllocation => P = tls
      /\ env.DebugPoolAllocation => frames[L].stop = 0
      /\ \A k \in 1 .. Len(tokens) : ~Above(Pos(tokens[k]), frames[L])
    BY PopOver
<1>5. \/ env.DebugPoolAllocation /\ P >= 2 /\ n = P - 1 /\ tls' = P - 1
      \/ /\ ~env.DebugPoolAllocation /\ n >= tls /\ n <= tls + 1 /\ tls' = tls
         /\ ~(env.DebugMissingPools /\ P = 1 /\ Empty(1))
    OBVIOUS
<1>6. /\ tls \in 1 .. Len(pages) /\ pages # <<>>
      /\ \A p \in tls + 1 .. Len(pages) : Len(pages[p]) = 0
      /\ ~env.DebugPoolAllocation => \A p \in 1 .. tls - 1 : Len(pages[p]) = COUNT
    BY <1>4, Hot
<1>7. tls' \in Nat /\ tls' >= 1 /\ tls' \in 1 .. n /\ n <= tls' + 1 /\ n \in Nat /\ tls' <= tls
    BY <1>1, <1>3, <1>4, <1>5
<1>8. \A i \in 1 .. L - 1 : i \in 1 .. L /\ i < L /\ L \in i + 1 .. L
    BY <1>1
<1>9. \A i \in 1 .. L - 1 : frames[i].page \in 1 .. tls'
  <2>1. TAKE i \in 1 .. L - 1
  <2>2. frames[i].page <= P /\ frames[i].page \in Nat \ {0}
    BY <1>8, Framed, Typed DEF IInv
  <2>3. env.DebugPoolAllocation => frames[i].page < P
    BY <1>8 DEF IInv, PerPoolInv
  <2>. QED
    BY <1>1, <1>4, <1>5, <2>2, <2>3
<1>10. \A k \in 1 .. Len(tokens) : Pos(tokens[k]).page \in 1 .. tls'
  <2>1. TAKE k \in 1 .. Len(tokens)
  <2>2. PICK p \in 1 .. tls : p = Pos(tokens[k]).page
    BY <1>4, Tokened
  <2>3. PICK m \in 1 .. Len(pages[p]) : m = Pos(tokens[k]).index
    BY <1>4, <2>2, Tokened
  <2>4. ~(p > P) /\ ~(p = P /\ m > frames[L].stop)
    BY <1>4, <2>2, <2>3 DEF Above
  <2>5. env.DebugPoolAllocation => p # P
    BY <1>4, <2>3, <2>4
  <2>. QED
    BY <1>1, <1>4, <1>5, <2>2, <2>4, <2>5
<1>11. ASSUME Debugging, Empty(1) PROVE L >= 2 /\ frames[1].page = 1 /\ env.DebugPoolAllocation
  <2>1. frames[1].page = 1
    BY <1>6, <1>11 DEF IInv, ColdInv
  <2>2. CASE env.DebugPoolAllocation
    <3>1. L # 1
        BY <1>5, <2>1, <2>2
    <3>. QED
        BY <1>1, <2>1, <2>2, <3>1
  <2>3. CASE ~env.DebugPoolAllocation
    <3>1. env.DebugMissingPools
        BY <1>11, <2>3 DEF Debugging
    <3>2. L = 1
        BY <1>6, <1>11, <3>1 DEF IInv, MissingInv
    <3>. QED
        BY <1>5, <1>11, <2>1, <2>3, <3>1, <3>2
  <2>. QED
    BY <2>2, <2>3
<1>. HIDE DEF L, P
<1>12. 1 \in 1 .. n /\ pages'[1] = pages[1] /\ pages' # <<>>
    BY <1>3, <1>7, Elements
<1>13. TypeOK'
  <2>1. tls' \in 0 .. Len(pages')
    BY <1>3, <1>7
  <2>2. \A p \in 1 .. Len(pages') : Len(pages'[p]) <= COUNT
    <3>1. \A p \in 1 .. n : p \in 1 .. Len(pages)
        BY <1>1, <1>3
    <3>. QED
        BY <1>1, <1>3, <3>1
  <2>. QED
    BY <1>0, <1>1, <1>2, <1>3, <2>1, <2>2 DEF TypeOK
<1>14. PageInv'
  <2>1. tls' \notin {Nil, EMPTY_POOL_PLACEHOLDER}
    BY <1>7 DEF Nil, EMPTY_POOL_PLACEHOLDER
  <2>2. ASSUME NEW p \in tls' + 1 .. n PROVE pages'[p] = <<>>
    <3>1. ~env.DebugPoolAllocation /\ tls' = tls
        BY <1>1, <1>4, <1>5
    <3>2. p \in tls + 1 .. Len(pages) /\ p \in 1 .. n /\ p \in 1 .. Len(pages)
        BY <1>1, <1>3, <1>7, <3>1
    <3>3. pages'[p] = pages[p] /\ Len(pages[p]) = 0
        BY <1>3, <1>6, <3>2
    <3>. QED
        BY <1>1, <3>2, <3>3, PageElements DEF TypeOK
  <2>3. ASSUME ~env.DebugPoolAllocation, NEW p \in 1 .. tls' - 1 PROVE Len(pages'[p]) = COUNT
    <3>1. tls' = tls
        BY <1>5, <2>3
    <3>2. p \in 1 .. tls - 1
        BY <3>1
    <3>3. p \in 1 .. n
        BY <1>1, <1>7, <3>1, <3>2
    <3>4. pages'[p] = pages[p]
        BY <1>3, <3>3
    <3>5. Len(pages[p]) = COUNT
        BY <1>4, <2>3, <3>2, Hot
    <3>. QED
        BY <3>4, <3>5
  <2>. QED
    BY <1>0, <1>3, <1>7, <2>1, <2>2, <2>3 DEF PageInv, Empty, Full
<1>15. TokenInv'
  <2>1. ASSUME NEW k \in 1 .. Len(tokens)
        PROVE  /\ Pos(tokens[k]).page \in 1 .. n
               /\ Pos(tokens[k]).index \in 1 .. Len(pages'[Pos(tokens[k]).page])
               /\ pages'[Pos(tokens[k]).page][Pos(tokens[k]).index] = POOL_BOUNDARY
    <3>1. PICK p \in 1 .. n : p = Pos(tokens[k]).page
        BY <1>7, <1>10
    <3>2. Pos(tokens[k]).index \in 1 .. Len(pages[p]) /\ pages[p][Pos(tokens[k]).index] = POOL_BOUNDARY
        BY <1>4, <3>1, Tokened
    <3>3. pages'[p] = pages[p]
        BY <1>3
    <3>. QED
        BY <3>1, <3>2, <3>3
  <2>. QED
    BY <1>0, <1>3, <2>1 DEF IInv, TokenInv
<1>16. FrameInv'
  <2>1. ASSUME NEW i \in 1 .. L - 1
        PROVE  /\ frames'[i].page <= tls' /\ frames'[i].stop <= Len(pages'[frames'[i].page])
               /\ frames'[i].stop < COUNT
               /\ frames'[i].exit => i = 1 /\ frames'[i].page = 1 /\ frames'[i].stop = 0
               /\ frames'[i].base <= Len(tokens)
               /\ \A k \in 1 .. Len(tokens) :
                      k <= frames'[i].base <=> ~Above(Pos(tokens[k]), frames'[i])
               /\ frames'[i].callback
               /\ \A j \in i + 1 .. L - 1 :
                      /\ frames'[i].page <= frames'[j].page
                      /\ frames'[i].page = frames'[j].page => frames'[i].stop <= frames'[j].stop
                      /\ frames'[i].base <= frames'[j].base
    <3>1. /\ frames[i].stop <= Len(pages[frames[i].page]) /\ frames[i].stop < COUNT
          /\ frames[i].exit => i = 1 /\ frames[i].page = 1 /\ frames[i].stop = 0
          /\ frames[i].base <= Len(tokens)
          /\ \A k \in 1 .. Len(tokens) : k <= frames[i].base <=> ~Above(Pos(tokens[k]), frames[i])
          /\ frames[i].callback
          /\ \A j \in i + 1 .. L :
                 /\ frames[i].page <= frames[j].page
                 /\ frames[i].page = frames[j].page => frames[i].stop <= frames[j].stop
                 /\ frames[i].base <= frames[j].base
        BY <1>8, Framed DEF L
    <3>2. frames'[i] = frames[i]
        BY <1>2
    <3>3. PICK p \in 1 .. tls' : p = frames[i].page
        BY <1>9
    <3>4. p \in 1 .. n /\ p <= tls'
        BY <1>7
    <3>5. pages'[p] = pages[p]
        BY <1>3, <3>4
    <3>6. \A j \in i + 1 .. L - 1 : j \in i + 1 .. L /\ frames'[j] = frames[j]
      <4>1. \A j \in i + 1 .. L - 1 : j \in i + 1 .. L /\ j \in 1 .. L - 1
        BY <1>1
      <4>. QED
        BY <1>2, <4>1
    <3>. QED
        BY <3>1, <3>2, <3>3, <3>4, <3>5, <3>6
  <2>. QED
    BY <1>0, <1>2, <2>1 DEF FrameInv
<1>17. PerPoolInv'
  <2>. SUFFICES ASSUME env.DebugPoolAllocation PROVE PerPoolInv'
    BY <1>0 DEF PerPoolInv
  <2>1. ASSUME NEW i \in 1 .. L - 1
        PROVE  /\ frames[i].stop = 0
               /\ \A k \in frames[i].base + 1 .. Len(tokens) : tokens[k].page > frames[i].page
               /\ \A j \in i + 1 .. L : frames[j].page > frames[i].page
               /\ frames[i].page > 1 =>
                      IF Empty(frames[i].page)
                      THEN i = L /\ ~frames[i].callback /\ tls = frames[i].page
                      ELSE pages[frames[i].page][1] = POOL_BOUNDARY
    BY <1>8 DEF IInv, PerPoolInv, L
  <2>2. ASSUME NEW i \in 1 .. L - 1
        PROVE  /\ frames'[i].stop = 0
               /\ \A k \in frames'[i].base + 1 .. Len(tokens) : tokens[k].page > frames'[i].page
               /\ \A j \in i + 1 .. L - 1 : frames'[j].page > frames'[i].page
               /\ frames'[i].page > 1 =>
                      pages'[frames'[i].page] # <<>> /\ pages'[frames'[i].page][1] = POOL_BOUNDARY
    <3>1. frames'[i] = frames[i] /\ i # L
        BY <1>2, <1>8
    <3>2. PICK p \in 1 .. tls' : p = frames[i].page
        BY <1>9
    <3>3. pages'[p] = pages[p]
      <4>1. p \in 1 .. n
        BY <1>7
      <4>. QED
        BY <1>3, <4>1
    <3>4. p > 1 => pages[p] # <<>> /\ pages[p][1] = POOL_BOUNDARY
        BY <2>1, <3>1, <3>2 DEF Empty
    <3>5. \A j \in i + 1 .. L - 1 : j \in i + 1 .. L /\ frames'[j] = frames[j]
      <4>1. \A j \in i + 1 .. L - 1 : j \in i + 1 .. L /\ j \in 1 .. L - 1
        BY <1>1
      <4>. QED
        BY <1>2, <4>1
    <3>. QED
        BY <2>1, <3>1, <3>2, <3>3, <3>4, <3>5
  <2>. QED
    BY <1>0, <1>2, <2>2 DEF PerPoolInv, Empty
<1>18. MissingInv'
  <2>. SUFFICES ASSUME env.DebugMissingPools PROVE MissingInv'
    BY <1>0 DEF MissingInv
  <2>1. /\ IF Empty(1) THEN L = 1 /\ ~frames[1].callback ELSE pages[1][1] = POOL_BOUNDARY
        /\ \A i \in 1 .. L : \A k \in frames[i].base + 1 .. Len(tokens) :
               Pos(tokens[k]) # [page |-> 1, index |-> 1]
        /\ \A i \in 2 .. L : frames[i].page > 1 \/ frames[i].stop > 0
    BY <1>6 DEF IInv, MissingInv, L
  <2>2. ~Empty(1)
    <3>1. Empty(1) => L >= 2
        BY <1>11 DEF Debugging
    <3>. QED
        BY <1>1, <2>1, <3>1
  <2>3. \A i \in 1 .. L - 1 : \A k \in frames'[i].base + 1 .. Len(tokens) :
            Pos(tokens[k]) # [page |-> 1, index |-> 1]
    BY <1>2, <1>8, <2>1
  <2>4. \A i \in 2 .. L - 1 : frames'[i].page > 1 \/ frames'[i].stop > 0
    <3>1. \A i \in 2 .. L - 1 : i \in 1 .. L - 1 /\ i \in 2 .. L
        BY <1>1
    <3>. QED
        BY <1>2, <2>1, <3>1
  <2>. QED
    BY <1>0, <1>2, <1>12, <2>1, <2>2, <2>3, <2>4 DEF MissingInv, Empty
<1>19. ColdInv'
  <2>1. Debugging' = Debugging /\ Empty(1)' = Empty(1)
    BY <1>0, <1>12 DEF Debugging, Empty
  <2>2. ASSUME Debugging, Empty(1) PROVE frames' # <<>> /\ frames'[1].page = 1
    <3>1. L >= 2 /\ frames[1].page = 1
        BY <1>11, <2>2
    <3>2. 1 \in 1 .. L - 1 /\ Len(frames') # 0
        BY <1>1, <1>2, <3>1
    <3>. QED
        BY <1>2, <3>1, <3>2, Elements
  <2>3. ASSUME env.DebugPoolAllocation, env \notin UnbalancedModes, tls' > 1, Empty(1)
        PROVE  \/ tokens # <<>> /\ tokens[1].page = 2
               \/ Len(frames') > 1 /\ frames'[2].page = 2
    <3>1. tls > 1 /\ P >= 3
        BY <1>1, <1>4, <1>5, <1>7, <2>3
    <3>2. \/ tokens # <<>> /\ tokens[1].page = 2
          \/ L > 1 /\ frames[2].page = 2
        BY <2>3, <3>1 DEF IInv, ColdInv, L
    <3>3. CASE L > 1 /\ frames[2].page = 2
        <4>1. L # 2
            BY <3>1, <3>3 DEF P
        <4>2. 2 \in 1 .. L - 1 /\ Len(frames') > 1
            BY <1>1, <1>2, <3>3, <4>1
        <4>3. frames'[2] = frames[2]
            BY <1>2, <4>2
        <4>. QED
            BY <3>3, <4>2, <4>3
    <3>. QED
        BY <3>2, <3>3
  <2>. QED
    BY <1>0, <2>1, <2>2, <2>3 DEF ColdInv
<1>. QED
    BY <1>0, <1>1, <1>13, <1>14, <1>15, <1>16, <1>17, <1>18, <1>19 DEF IInv

\* EndPop.
LEMMA EndPopStep ==
    ASSUME IInv, EndPop
    PROVE  IInv'
<1>. DEFINE L == Len(frames)
            P == frames[L].page
<1>1. /\ ~bad /\ frames # <<>> /\ ~frames[L].callback
      /\ Len(pages[P]) = frames[L].stop
      /\ frames' = SubSeq(frames, 1, L - 1)
      /\ frames[L].exit => tls' = Nil /\ pages' = IF Debugging THEN PagesLeft(P) ELSE <<>>
      /\ ~frames[L].exit => /\ tls' = IF P <= Len(PagesLeft(P)) THEN P ELSE P - 1
                            /\ pages' = PagesLeft(P)
      /\ UNCHANGED <<env, tokens, bad>>
    BY DEF EndPop, Releasing, Top
<1>2. /\ frames \in Seq(Frame) /\ L \in Nat /\ L >= 1 /\ L \in 1 .. L
      /\ pages \in Seq(Seq(Entry)) /\ Len(pages) \in Nat /\ tls \in Int
      /\ \A p \in 1 .. Len(pages) : Len(pages[p]) \in Nat /\ (Empty(p) <=> Len(pages[p]) = 0)
    BY <1>1, Typed DEF IInv, TypeOK
<1>3. Popped
  <2>1. L - 1 \in 0 .. L
    BY <1>2
  <2>2. frames' \in Seq(Frame) /\ Len(frames') = L - 1 /\ \A i \in 1 .. L - 1 : frames'[i] = frames[i]
    BY <1>1, <1>2, <2>1, Beginning
  <2>. QED
    BY <1>1, <1>2, <2>2 DEF Popped
<1>4. /\ P \in 1 .. Len(pages) /\ P <= tls /\ tls >= 1 /\ P \in Nat \ {0}
      /\ frames[L].stop \in Nat
      /\ ~env.DebugPoolAllocation => P = tls
      /\ env.DebugPoolAllocation => frames[L].stop = 0
    BY <1>3, PopOver
<1>5. Empty(P) <=> frames[L].stop = 0
    BY <1>1, <1>2, <1>4
<1>6. Kill(P) = SubSeq(pages, 1, P - 1)
    BY <1>4 DEF Kill
<1>7. L = 1 => frames' = <<>>
    BY <1>1, <1>2
<1>8. frames[L].exit => L = 1 /\ P = 1 /\ frames[L].stop = 0
    BY <1>2, Framed
<1>. HIDE DEF L, P
<1>9. CASE frames[L].exit
  <2>1. L = 1 /\ P = 1 /\ Empty(P)
    BY <1>5, <1>8, <1>9
  <2>2. tokens = <<>>
    BY <1>3, <1>8, <1>9, NoPoolOpen DEF L, P
  <2>3. Kill(P) = <<>>
    BY <1>2, <1>6, <2>1
  <2>4. pages' = <<>>
    BY <1>1, <1>9, <2>1, <2>3 DEF PagesLeft, Debugging
  <2>. QED
    BY <1>1, <1>7, <1>9, <2>1, <2>2, <2>4, NothingLeft
<1>10. CASE ~frames[L].exit /\ Empty(P)
            /\ (env.DebugPoolAllocation \/ (env.DebugMissingPools /\ P = 1))
  <2>1. pages' = SubSeq(pages, 1, P - 1) /\ tls' = IF P <= Len(SubSeq(pages, 1, P - 1)) THEN P ELSE P - 1
    BY <1>1, <1>6, <1>10 DEF PagesLeft
  <2>2. P - 1 \in 0 .. Len(pages)
    BY <1>2, <1>4
  <2>3. Freed(P - 1)
    BY <2>1, <2>2, PagesFreed
  <2>4. tls' = P - 1
    <3>1. Len(SubSeq(pages, 1, P - 1)) = P - 1
        BY <1>2, <2>2, Beginning
    <3>. QED
        BY <1>4, <2>1, <3>1
  <2>5. CASE P = 1
    <3>1. L = 1
        <4>1. CASE env.DebugPoolAllocation
            <5>1. ASSUME L >= 2 PROVE FALSE
                <6>1. 1 \in 1 .. L /\ L \in 1 + 1 .. L
                    BY <1>2, <5>1
                <6>2. P > frames[1].page /\ frames[1].page \in Nat \ {0}
                    BY <4>1, <6>1, Typed DEF IInv, PerPoolInv, L, P
                <6>. QED
                    BY <2>5, <6>2
            <5>. QED
                BY <1>2, <5>1
        <4>2. CASE env.DebugMissingPools
            <5>1. pages # <<>>
                BY <1>4, Hot
            <5>. QED
                BY <1>10, <2>5, <4>2, <5>1 DEF IInv, MissingInv, L
        <4>. QED
            BY <1>10, <4>1, <4>2
    <3>2. tokens = <<>>
        BY <1>3, <1>5, <1>10, <2>5, NoPoolOpen DEF L, P
    <3>3. pages' = <<>> /\ tls' = Nil
        BY <1>2, <2>1, <2>4, <2>5 DEF Nil
    <3>. QED
        BY <1>1, <1>7, <3>1, <3>2, <3>3, NothingLeft
  <2>6. CASE P # 1
    <3>1. env.DebugPoolAllocation /\ P >= 2
        BY <1>4, <1>10, <2>6
    <3>. QED
        BY <1>1, <1>3, <2>3, <2>4, <3>1, EndedStep DEF L, P
  <2>. QED
    BY <2>5, <2>6
<1>11. CASE ~frames[L].exit /\ ~(Empty(P) /\ (env.DebugPoolAllocation
                                               \/ (env.DebugMissingPools /\ P = 1)))
  <2>1. ~env.DebugPoolAllocation /\ P = tls /\ ~(env.DebugMissingPools /\ P = 1 /\ Empty(1))
    BY <1>4, <1>5, <1>11
  <2>2. pages' = Kill(P + 1) \/ pages' = Kill(P + 2)
    BY <1>1, <1>11 DEF PagesLeft
  <2>3. \E n \in 0 .. Len(pages) : n >= P /\ n <= P + 1 /\ pages' = SubSeq(pages, 1, n)
    <3>1. \A q \in {P + 1, P + 2} :
              Kill(q) = SubSeq(pages, 1, IF q <= Len(pages) THEN q - 1 ELSE Len(pages))
        <4>1. SubSeq(pages, 1, Len(pages)) = pages
            BY <1>2, SubSeqFull
        <4>. QED
            BY <4>1 DEF Kill
    <3>2. PICK q \in {P + 1, P + 2} : pages' = Kill(q)
        BY <2>2
    <3>3. PICK n : n = IF q <= Len(pages) THEN q - 1 ELSE Len(pages)
        OBVIOUS
    <3>4. n \in 0 .. Len(pages) /\ n >= P /\ n <= P + 1
        BY <1>2, <1>4, <3>2, <3>3
    <3>. QED
        BY <3>1, <3>2, <3>3, <3>4
  <2>4. PICK n \in 0 .. Len(pages) : n >= P /\ n <= P + 1 /\ pages' = SubSeq(pages, 1, n)
    BY <2>3
  <2>5. Freed(n) /\ Len(pages') = n
    BY <2>4, PagesFreed DEF Freed
  <2>6. tls' = tls
    BY <1>1, <1>11, <2>1, <2>4, <2>5
  <2>. QED
    BY <1>1, <1>3, <2>1, <2>4, <2>5, <2>6, EndedStep DEF L, P
<1>. QED
    BY <1>9, <1>10, <1>11

-----------------------------------------------------------------------------
(* The invariant *)

\* The pop that tls_dealloc makes begins.
LEMMA ExitPopStep ==
    ASSUME IInv, Client, frames = <<>>, tls >= 1, ~Empty(1), tokens' = <<>>,
           frames' = <<[page |-> 1, stop |-> 0, base |-> 0, callback |-> FALSE, exit |-> TRUE]>>,
           UNCHANGED <<env, tls, pages, bad>>
    PROVE  IInv'
<1>0. tls' = tls /\ pages' = pages /\ env' = env /\ bad' = bad
    OBVIOUS
<1>1. /\ TypeOK /\ ~bad /\ COUNT \in Nat /\ COUNT >= 2 /\ Len(pages) \in Nat /\ tls \in Int
      /\ \A p \in 1 .. Len(pages) : Len(pages[p]) \in Nat
    BY Typed DEF IInv
<1>2. PICK f : f = [page |-> 1, stop |-> 0, base |-> 0, callback |-> FALSE, exit |-> TRUE]
    OBVIOUS
<1>3. f \in Frame /\ f.page = 1 /\ f.stop = 0 /\ f.base = 0 /\ ~f.callback /\ f.exit
    BY <1>2 DEF Frame
<1>4. frames' = <<f>>
    BY <1>2
<1>5. frames' \in Seq(Frame) /\ Len(frames') = 1 /\ frames'[1] = f /\ frames' # <<>>
  <2>1. PICK s : s = <<f>>
    OBVIOUS
  <2>2. s \in Seq(Frame) /\ Len(s) = 1 /\ s[1] = f
    BY <1>3, <2>1
  <2>3. s # <<>>
    BY <2>2, Elements
  <2>. QED
    BY <1>4, <2>1, <2>2, <2>3
<1>6. tokens' \in Seq(Token) /\ Len(tokens') = 0
    OBVIOUS
<1>7. tls \in 1 .. Len(pages) /\ pages # <<>> /\ 1 \in 1 .. Len(pages) /\ Len(pages[1]) \in Nat
  <2>1. tls \in 1 .. Len(pages) /\ pages # <<>>
    BY Hot
  <2>. QED
    BY <1>1, <2>1
<1>8. env.DebugMissingPools => pages[1][1] = POOL_BOUNDARY
    BY <1>7, ClientPages
<1>9. \A i \in 1 .. Len(frames') : i = 1 /\ frames'[i] = f
  <2>1. \A i \in 1 .. 1 : i = 1
    OBVIOUS
  <2>. QED
    BY <1>5, <2>1
<1>10. TypeOK'
    BY <1>0, <1>1, <1>5, <1>6 DEF TypeOK
<1>11. PageInv'
  <2>1. tls' \notin {Nil, EMPTY_POOL_PLACEHOLDER}
    BY <1>0, <1>7 DEF Nil, EMPTY_POOL_PLACEHOLDER
  <2>. QED
    BY <1>0, <1>5, <2>1 DEF IInv, PageInv, Empty, Full
<1>12. TokenInv'
    BY <1>6 DEF TokenInv
<1>13. FrameInv'
    BY <1>0, <1>1, <1>3, <1>5, <1>6, <1>7, <1>9 DEF FrameInv
<1>14. PerPoolInv'
    BY <1>3, <1>5, <1>6, <1>9 DEF PerPoolInv
<1>15. MissingInv'
    BY <1>0, <1>5, <1>6, <1>8 DEF MissingInv, Empty
<1>16. ColdInv'
    BY <1>0 DEF ColdInv, Empty
<1>. QED
    BY <1>0, <1>1, <1>10, <1>11, <1>12, <1>13, <1>14, <1>15, <1>16 DEF IInv

\* ThreadExit.
LEMMA ThreadExitStep ==
    ASSUME IInv, ThreadExit
    PROVE  IInv'
<1>1. Client /\ frames = <<>> /\ tokens' = <<>> /\ UNCHANGED <<env, bad>>
    BY DEF ThreadExit
<1>2. CASE hotPage = Nil
  <2>1. tls' = Nil /\ UNCHANGED <<pages, frames>>
    BY <1>2 DEF ThreadExit
  <2>2. tls < 1
    <3>1. tls >= 1 => hotPage # Nil
        BY Hot DEF Nil
    <3>2. tls \in Int
        BY Typed DEF IInv
    <3>. QED
        BY <1>2, <3>1, <3>2
  <2>. QED
    BY <1>1, <2>1, <2>2, NoPage, NothingLeft
<1>3. CASE hotPage # Nil
  <2>1. tls >= 1
    <3>1. tls < 1 => hotPage = Nil
        BY NoPage
    <3>2. tls \in Int
        BY Typed DEF IInv
    <3>. QED
        BY <1>3, <3>1, <3>2
  <2>2. CASE ~Empty(1)
    <3>1. /\ frames' = <<[page |-> 1, stop |-> 0, base |-> 0, callback |-> FALSE, exit |-> TRUE]>>
          /\ UNCHANGED <<tls, pages>>
        BY <1>3, <2>2 DEF ThreadExit
    <3>. QED
        BY <1>1, <2>1, <2>2, <3>1, ExitPopStep
  <2>3. CASE Empty(1)
    <3>1. tls' = Nil /\ (pages' = IF Debugging THEN pages ELSE <<>>) /\ UNCHANGED frames
        BY <1>3, <2>3 DEF ThreadExit
    <3>2. ~Debugging
        BY <1>1, <2>1, <2>3, Hot DEF IInv, ColdInv
    <3>. QED
        BY <1>1, <3>1, <3>2, NothingLeft
  <2>. QED
    BY <2>2, <2>3
<1>. QED
    BY <1>2, <1>3

\* The invariant holds at first.
LEMMA InvInit ==
    Init => IInv
<1>. SUFFICES ASSUME Init PROVE IInv
    OBVIOUS
<1>1. env \in Modes /\ tls = 0 /\ pages = <<>> /\ tokens = <<>> /\ frames = <<>> /\ bad = FALSE
    BY DEF Init, Nil
<1>2. Len(pages) = 0 /\ Len(tokens) = 0 /\ Len(frames) = 0
    BY <1>1
<1>3. TypeOK
  <2>1. /\ pages \in Seq(Seq(Entry)) /\ tokens \in Seq(Token) /\ frames \in Seq(Frame)
    BY <1>1
  <2>3. tls \in 0 .. Len(pages)
    BY <1>1, <1>2
  <2>4. bad \in BOOLEAN
    BY <1>1
  <2>2. \A p \in 1 .. Len(pages) : Len(pages[p]) <= COUNT
    BY <1>2
  <2>. QED
    BY <1>1, <2>1, <2>2, <2>3, <2>4 DEF TypeOK
<1>4. PageInv /\ TokenInv /\ FrameInv /\ PerPoolInv /\ MissingInv /\ ColdInv
    BY <1>1, <1>2 DEF PageInv, TokenInv, FrameInv, PerPoolInv, MissingInv, ColdInv, Nil,
                      EMPTY_POOL_PLACEHOLDER
<1>. QED
    BY <1>1, <1>3, <1>4 DEF IInv

\* It is kept by every step.
LEMMA InvNext ==
    IInv /\ [Next]_vars => IInv'
<1>. SUFFICES ASSUME IInv, [Next]_vars PROVE IInv'
    OBVIOUS
<1>1. ASSUME NEW o \in Obj, Autorelease(o) PROVE IInv'
    BY <1>1, AutoreleaseStep
<1>2. ASSUME Push PROVE IInv'
    BY <1>2, PushStep
<1>3. ASSUME NEW k \in 1 .. Len(tokens), Pop(k) PROVE IInv'
    BY <1>3, PopStep
<1>4. ASSUME ThreadExit PROVE IInv'
    BY <1>4, ThreadExitStep
<1>5. ASSUME ReleaseNext PROVE IInv'
    BY <1>5, ReleaseNextStep
<1>6. ASSUME EndDealloc PROVE IInv'
    BY <1>6, EndDeallocStep
<1>7. ASSUME EndPop PROVE IInv'
    BY <1>7, EndPopStep
<1>8. ASSUME UNCHANGED vars PROVE IInv'
  <2>1. env' = env /\ tls' = tls /\ pages' = pages /\ tokens' = tokens /\ frames' = frames /\ bad' = bad
    BY <1>8 DEF vars
  <2>2. TypeOK' /\ ~bad'
    BY <2>1 DEF IInv, TypeOK
  <2>3. PageInv'
    BY <2>1 DEF IInv, PageInv, Empty, Full
  <2>4. TokenInv' /\ FrameInv'
    BY <2>1 DEF IInv, TokenInv, FrameInv
  <2>5. PerPoolInv' /\ MissingInv' /\ ColdInv'
    BY <2>1 DEF IInv, PerPoolInv, MissingInv, ColdInv, Empty, Debugging
  <2>. QED
    BY <2>2, <2>3, <2>4, <2>5 DEF IInv
<1>. QED
    BY <1>1, <1>2, <1>3, <1>4, <1>5, <1>6, <1>7, <1>8 DEF Next, ClientStep, PoolStep

\* So it holds in every state.
LEMMA Invariance ==
    Spec => []IInv
BY InvInit, InvNext, PTL DEF Spec

\* Every variable keeps its type, in every mode.
THEOREM TypeCorrect ==
    Spec => []TypeOK
<1>1. IInv => TypeOK
    BY DEF IInv
<1>. QED
    BY <1>1, Invariance, PTL

\* A pop that the client may make never finds its token bad, and no pop, however many run
\* inside it, loses the page it works on or an entry below where it began: whatever the
\* debugging modes, the size of a page and the depth of the pops.
THEOREM NoPageFreedEarly ==
    Spec => []NoPrematureFree
<1>1. IInv => NoPrematureFree
  <2>. SUFFICES ASSUME IInv PROVE NoPrematureFree
    OBVIOUS
  <2>1. ~bad
    BY DEF IInv
  <2>2. ASSUME NEW i \in 1 .. Len(frames)
        PROVE  frames[i].page <= Len(pages) /\ Len(pages[frames[i].page]) >= frames[i].stop
    <3>1. /\ frames[i].page \in 1 .. Len(pages) /\ frames[i].stop <= Len(pages[frames[i].page])
          /\ frames[i].stop \in Nat /\ Len(pages) \in Nat
        BY Framed, Typed DEF IInv
    <3>2. Len(pages[frames[i].page]) \in Nat
        BY <3>1, Typed DEF IInv
    <3>. QED
        BY <3>1, <3>2
  <2>3. ASSUME NEW k \in 1 .. Len(tokens), tokens[k] # Placeholder PROVE Valid(tokens[k])
    <3>1. tls >= 1
        <4>1. ASSUME tls < 1 PROVE FALSE
            <5>1. tokens = IF tls = Nil THEN <<>> ELSE <<Placeholder>>
                BY <4>1, NoPage
            <5>2. tokens # <<>>
                BY Typed DEF IInv
            <5>3. tokens = <<Placeholder>>
                BY <5>1, <5>2
            <5>. QED
                BY <2>3, <5>3
        <4>2. tls \in Int
            BY Typed DEF IInv
        <4>. QED
            BY <4>1, <4>2
    <3>2. Valid(Pos(tokens[k]))
        BY <3>1, PopStarts
    <3>. QED
        BY <2>3, <3>2 DEF Pos
  <2>. QED
    BY <2>1, <2>2, <2>3 DEF NoPrematureFree
<1>. QED
    BY <1>1, Invariance, PTL

\* A thread that has forgotten its pages has freed them, and between pops it keeps at most
\* one empty page.
THEOREM PagesAreKept ==
    Spec => []PagesKept
<1>1. IInv => PagesKept
  <2>. SUFFICES ASSUME IInv PROVE PagesKept
    OBVIOUS
  <2>1. tls \in Int
    BY Typed DEF IInv
  <2>2. CASE tls < 1
    BY <2>2, NoPage DEF PagesKept, Nil
  <2>3. CASE tls >= 1
    <3>1. tls \notin {Nil, EMPTY_POOL_PLACEHOLDER}
        BY <2>3 DEF Nil, EMPTY_POOL_PLACEHOLDER
    <3>. QED
        BY <2>3, <3>1, Hot DEF PagesKept
  <2>. QED
    BY <2>1, <2>2, <2>3
<1>. QED
    BY <1>1, Invariance, PTL

\* What releaseUntil says of itself follows.
LEMMA SoundFromInv ==
    ASSUME \A m \in UnbalancedModes : ~m.DebugPoolAllocation
    PROVE  IInv => ReleaseUntilSound
<1>. SUFFICES ASSUME IInv PROVE ReleaseUntilSound
    OBVIOUS
<1>. DEFINE P == Top.page
<1>1. ASSUME Releasing
      PROVE  /\ Len(frames) \in 1 .. Len(frames) /\ Top = frames[Len(frames)]
             /\ P \in 1 .. Len(pages) /\ P <= tls /\ tls >= 1 /\ P \in Nat \ {0}
             /\ Top.stop <= Len(pages[P]) /\ Top.stop \in Nat /\ Top.stop < COUNT
  <2>1. Len(frames) \in 1 .. Len(frames) /\ Top = frames[Len(frames)]
    BY <1>1, Typed DEF IInv, Releasing, Top
  <2>. QED
    BY <2>1, Framed, Typed DEF IInv
<1>2. /\ Len(pages) \in Nat /\ tls \in Int /\ COUNT \in Nat /\ COUNT >= 2
      /\ \A p \in 1 .. Len(pages) : Len(pages[p]) \in Nat /\ (Empty(p) <=> Len(pages[p]) = 0)
    BY Typed DEF IInv
<1>3. ASSUME ~env.DebugPoolAllocation PROVE WhileCanBeIf
  <2>. SUFFICES ASSUME Releasing, Len(pages[P]) # Top.stop, Empty(hotPage)
                PROVE  hotPage > 1 /\ ~Empty(hotPage - 1)
    BY DEF WhileCanBeIf
  <2>1. hotPage = tls /\ tls \in 1 .. Len(pages) /\ \A p \in 1 .. tls - 1 : Len(pages[p]) = COUNT
    BY <1>1, <1>3, Hot
  <2>2. P # tls
    <3>1. Len(pages[tls]) = 0
        BY <1>2, <2>1
    <3>. QED
        BY <1>1, <1>2, <3>1
  <2>3. tls > 1 /\ tls - 1 \in 1 .. tls - 1 /\ tls - 1 \in 1 .. Len(pages)
    BY <1>1, <1>2, <2>1, <2>2
  <2>4. Len(pages[tls - 1]) # 0
    BY <1>2, <2>1, <2>3
  <2>. QED
    BY <1>2, <2>1, <2>3, <2>4
<1>4. ASSUME Releasing, Len(pages[P]) = Top.stop, NEW p \in P + 1 .. Len(pages) PROVE Empty(p)
  <2>1. tls = P
    <3>1. CASE ~env.DebugPoolAllocation
        <4>1. \A q \in 1 .. tls - 1 : Len(pages[q]) = COUNT
            BY <1>1, <1>4, <3>1, Hot
        <4>2. Len(pages[P]) < COUNT /\ P <= tls /\ P \in Nat \ {0}
            BY <1>1, <1>4
        <4>3. ~(P \in 1 .. tls - 1)
            BY <1>2, <4>1, <4>2
        <4>. QED
            BY <1>2, <4>2, <4>3
    <3>2. CASE env.DebugPoolAllocation
        <4>1. Top.stop = 0 /\ Empty(P)
            BY <1>1, <1>2, <1>4, <3>2 DEF IInv, PerPoolInv
        <4>2. CASE P > 1
            BY <1>1, <1>4, <3>2, <4>1, <4>2 DEF IInv, PerPoolInv
        <4>3. CASE P = 1
            <5>1. Len(frames) = 1
                <6>1. ASSUME Len(frames) \in 1 + 1 .. Len(frames) PROVE FALSE
                    <7>1. frames[Len(frames)].page > frames[1].page /\ frames[1].page \in Nat \ {0}
                        BY <1>1, <1>4, <3>2, <6>1, Typed DEF IInv, PerPoolInv
                    <7>. QED
                        BY <1>1, <1>4, <4>3, <7>1
                <6>2. PICK m \in Nat : m = Len(frames)
                    BY Typed DEF IInv
                <6>3. m \in 1 .. m /\ ~(m \in 1 + 1 .. m)
                    BY <1>1, <1>4, <6>1, <6>2
                <6>4. m = 1
                    BY <6>3
                <6>. QED
                    BY <6>2, <6>4
            <5>2. Len(tokens) \in Nat /\ (tokens = <<>> <=> Len(tokens) = 0)
                BY Typed DEF IInv
            <5>3. \A k \in 1 .. Len(tokens) : ~Above(Pos(tokens[k]), Top)
                BY <1>1, <1>4, <5>2, Framed DEF Releasing
            <5>4. tokens = <<>>
                <6>1. ASSUME 1 \in 1 .. Len(tokens) PROVE FALSE
                    <7>1. PICK q \in 1 .. tls : q = Pos(tokens[1]).page
                        BY <1>1, <1>4, <6>1, Tokened
                    <7>2. PICK n \in 1 .. Len(pages[q]) : n = Pos(tokens[1]).index
                        BY <1>1, <1>4, <6>1, <7>1, Tokened
                    <7>3. q > 1 \/ (q = 1 /\ n > 0)
                        BY <7>1, <7>2
                    <7>. QED
                        BY <4>1, <4>3, <5>3, <6>1, <7>1, <7>2, <7>3 DEF Above
                <6>. QED
                    BY <5>2, <6>1
            <5>5. env \notin UnbalancedModes
                BY <3>2
            <5>6. ~(tls > 1)
                BY <3>2, <4>1, <4>3, <5>1, <5>4, <5>5 DEF IInv, ColdInv
            <5>. QED
                BY <1>1, <1>2, <1>4, <4>3, <5>6
        <4>. QED
            BY <1>1, <1>4, <4>2, <4>3
    <3>. QED
        BY <3>1, <3>2
  <2>2. p \in 1 .. Len(pages) /\ Len(pages[p]) = 0
    BY <1>1, <1>2, <1>4, <2>1, Hot
  <2>. QED
    BY <1>2, <2>2
<1>. QED
    BY <1>3, <1>4 DEF ReleaseUntilSound, WhileIsIf, ChildrenEmpty

\* The two things releaseUntil says of itself: its `while` can be an `if` in a process that
\* does not debug the allocation of pools, and the pages after the one where it stops are
\* empty, if no -dealloc of a process that does leaves a pool open.
THEOREM ReleaseUntilIsSound ==
    ASSUME \A m \in UnbalancedModes : ~m.DebugPoolAllocation
    PROVE  Spec => []ReleaseUntilSound
BY SoundFromInv, Invariance, PTL
=============================================================================
