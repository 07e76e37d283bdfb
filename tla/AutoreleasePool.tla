--------------------------- MODULE AutoreleasePool ---------------------------
(***************************************************************************)
(* The autorelease pools of one thread: AutoreleasePoolPage, NSObject.mm   *)
(* of objc4-781.                                                           *)
(*                                                                         *)
(* The stack of pools is cut into pages of COUNT entries, a doubly linked  *)
(* list.  Thread-local storage points to the hot page, where entries are   *)
(* added; the pages after it are kept for later.  A pop releases objects,  *)
(* and the -dealloc of an object may autorelease others, push pools and    *)
(* pop them, in the middle of the pop.                                     *)
(*                                                                         *)
(* Pages are numbered from the coldest, 1; a page's entries lie below its  *)
(* `next`.  A step is what the runtime does between two calls of client    *)
(* code.                                                                   *)
(***************************************************************************)
EXTENDS Integers, Sequences, SequencesExt

CONSTANTS
    Obj,             \* the objects
    POOL_BOUNDARY,   \* the entry that begins a pool
    COUNT,           \* entries a page holds
    Modes,           \* the debugging modes the process may be started in
    UnbalancedModes, \* those in which a -dealloc may leave a pool it pushed
    MaxEntries,      \* bound: entries in the stack
    MaxPops          \* bound: pops inside one another

Mode == [DebugPoolAllocation : BOOLEAN, DebugMissingPools : BOOLEAN]

ASSUME BoundaryAssumption == POOL_BOUNDARY \notin Obj
ASSUME PageAssumption == COUNT \in Nat \ {0, 1}
ASSUME ModeAssumption == Modes \subseteq Mode /\ UnbalancedModes \subseteq Modes
ASSUME BoundAssumption == MaxEntries \in Nat /\ MaxPops \in Nat

VARIABLES
    env,     \* OBJC_DEBUG_POOL_ALLOCATION and OBJC_DEBUG_MISSING_POOLS
    tls,     \* the thread-local key: Nil, EMPTY_POOL_PLACEHOLDER, or the hot page
    pages,   \* pages[p]: the entries of page p
    tokens,  \* the tokens of the pools that are open, the outermost first
    frames,  \* the pops that run, the innermost last
    bad      \* badPop was called, which is fatal

vars == <<env, tls, pages, tokens, frames, bad>>

Nil == 0
EMPTY_POOL_PLACEHOLDER == -1

Entry == Obj \union {POOL_BOUNDARY}

\* The address of the index-th entry of a page, and the placeholder's token.
Token == [page : Nat, index : Nat]
Placeholder == [page |-> 0, index |-> 0]

\* A pop: `this` and the entries that stay below `stop`, the tokens that were
\* open then, whether it waits for a -dealloc, whether tls_dealloc made it.
Frame == [page : Nat \ {0}, stop : Nat, base : Nat, callback : BOOLEAN, exit : BOOLEAN]

-----------------------------------------------------------------------------
(* Pages *)

hotPage == IF tls = EMPTY_POOL_PLACEHOLDER THEN Nil ELSE tls
coldPage == IF hotPage = Nil THEN Nil ELSE 1

Empty(p) == pages[p] = <<>>
Full(p) == Len(pages[p]) = COUNT
LessThanHalfFull(p) == Len(pages[p]) < COUNT \div 2

\* page->add(obj), the page being one of ps.
Add(ps, p, entry) == [ps EXCEPT ![p] = Append(@, entry)]

\* page->kill(), when there is such a page, frees it and all its children.
Kill(p) == IF p <= Len(pages) THEN SubSeq(pages, 1, p - 1) ELSE pages

\* The first page after p that is not full, or a new one.
NextPage(p) ==
    LET free == {q \in p + 1 .. Len(pages) : ~Full(q)}
    IN  IF free = {} THEN Len(pages) + 1
        ELSE CHOOSE q \in free : \A r \in free : q <= r

\* autoreleaseFullPage: the next page that is not full becomes hot.
AutoreleaseFullPage(entry, p) ==
    LET q == NextPage(p)
        ps == IF q > Len(pages) THEN Append(pages, <<>>) ELSE pages
    IN  tls' = q /\ pages' = Add(ps, q, entry)

\* Mutant: nothing is pushed on behalf of the placeholder.
AutoreleaseNoPageNoBoundary(entry) ==
    \/ hotPage = Nil /\ entry # POOL_BOUNDARY /\ tls' = 1 /\ pages' = <<<<entry>>>>
    \/ tls = EMPTY_POOL_PLACEHOLDER /\ entry = POOL_BOUNDARY
       /\ tls' = 1 /\ pages' = <<<<entry>>>>
    \/ tls = Nil /\ entry = POOL_BOUNDARY
       /\ tls' = EMPTY_POOL_PLACEHOLDER /\ UNCHANGED pages

\* autoreleaseNoPage: the first page, and in it the boundary that the
\* placeholder stands for.
AutoreleaseNoPage(entry) ==
    \/ /\ tls = EMPTY_POOL_PLACEHOLDER
       /\ tls' = 1 /\ pages' = <<<<POOL_BOUNDARY, entry>>>>
    \/ \* an object with no pool in place leaks
       /\ tls = Nil /\ entry # POOL_BOUNDARY /\ env.DebugMissingPools
       /\ UNCHANGED <<tls, pages>>
    \/ \* setEmptyPoolPlaceholder
       /\ tls = Nil /\ entry = POOL_BOUNDARY /\ ~env.DebugPoolAllocation
       /\ tls' = EMPTY_POOL_PLACEHOLDER /\ UNCHANGED pages
    \/ /\ tls = Nil
       /\ IF entry = POOL_BOUNDARY THEN env.DebugPoolAllocation
                                   ELSE ~env.DebugMissingPools
       /\ tls' = 1 /\ pages' = <<<<entry>>>>

\* Mutant: the hot page is not asked whether it is full.
AutoreleaseFastUnchecked(entry) ==
    \/ hotPage # Nil /\ pages' = Add(pages, hotPage, entry) /\ UNCHANGED tls
    \/ hotPage = Nil /\ AutoreleaseNoPage(entry)

AutoreleaseFast(entry) ==
    \/ /\ hotPage # Nil /\ ~Full(hotPage)
       /\ pages' = Add(pages, hotPage, entry) /\ UNCHANGED tls
    \/ hotPage # Nil /\ Full(hotPage) /\ AutoreleaseFullPage(entry, hotPage)
    \/ hotPage = Nil /\ AutoreleaseNoPage(entry)

AutoreleaseNewPage(entry) ==
    \/ hotPage # Nil /\ AutoreleaseFullPage(entry, hotPage)
    \/ hotPage = Nil /\ AutoreleaseNoPage(entry)

-----------------------------------------------------------------------------
(* What the client calls, between two pops or from a -dealloc *)

Top == frames[Len(frames)]
Client == ~bad /\ (frames # <<>> => Top.callback)

\* The tokens of the innermost client are those it pushed itself.
Base == IF frames = <<>> THEN 0 ELSE Top.base
Own == Base + 1 .. Len(tokens)

Pending == LET total[p \in 0 .. Len(pages)] ==
                   IF p = 0 THEN 0 ELSE total[p - 1] + Len(pages[p])
           IN  total[Len(pages)]
Room == Client /\ Pending < MaxEntries

Init ==
    /\ env \in Modes
    /\ tls = Nil
    /\ pages = <<>>
    /\ tokens = <<>>
    /\ frames = <<>>
    /\ bad = FALSE

Autorelease(o) ==
    /\ Room
    /\ AutoreleaseFast(o)
    /\ UNCHANGED <<env, tokens, frames, bad>>

\* The token is where the boundary went.
Push ==
    /\ Room /\ Len(frames) < MaxPops
    /\ IF env.DebugPoolAllocation THEN AutoreleaseNewPage(POOL_BOUNDARY)
                                  ELSE AutoreleaseFast(POOL_BOUNDARY)
    /\ tokens' = Append(tokens,
                     IF tls' = EMPTY_POOL_PLACEHOLDER THEN Placeholder
                     ELSE [page |-> tls', index |-> Len(pages'[tls'])])
    /\ UNCHANGED <<env, frames, bad>>

\* Where pop finds the token: the placeholder is the start of the cold page.
Start(token) ==
    IF token = Placeholder THEN [page |-> coldPage, index |-> 1] ELSE token

\* *stop == POOL_BOUNDARY, or the start of the coldest page.
Valid(at) ==
    /\ at.page <= Len(pages)
    /\ \/ at = [page |-> 1, index |-> 1]
       \/ at.index <= Len(pages[at.page]) /\ pages[at.page][at.index] = POOL_BOUNDARY

Pop(k) ==
    /\ Client /\ Len(frames) < MaxPops
    /\ k \in Own
    /\ tokens' = SubSeq(tokens, 1, k - 1)
    /\ \/ \* the placeholder was never used
          /\ tokens[k] = Placeholder /\ hotPage = Nil
          /\ tls' = Nil
          /\ UNCHANGED <<frames, bad>>
       \/ /\ ~(tokens[k] = Placeholder /\ hotPage = Nil)
          /\ LET at == Start(tokens[k])
             IN  IF Valid(at)
                 THEN /\ frames' = Append(frames,
                             [page |-> at.page, stop |-> at.index - 1,
                              base |-> k - 1, callback |-> FALSE, exit |-> FALSE])
                      /\ UNCHANGED bad
                 ELSE bad' = TRUE /\ UNCHANGED frames
          /\ UNCHANGED tls
    /\ UNCHANGED <<env, pages>>

\* The -dealloc returns to releaseUntil; it may leave pools it pushed.
EndDealloc ==
    /\ Client /\ frames # <<>>
    /\ Len(tokens) > Base => env \in UnbalancedModes
    /\ tokens' = SubSeq(tokens, 1, Base)
    /\ frames' = [frames EXCEPT ![Len(frames)].callback = FALSE]
    /\ UNCHANGED <<env, tls, pages, bad>>

-----------------------------------------------------------------------------
(* releaseUntil, and the rest of popPage *)

Releasing == ~bad /\ frames # <<>> /\ ~Top.callback

\* Mutant: the loop does not restart from the hot page.
LastUsedThis == Top.page

\* From the hot page down, the first page that is not empty.
LastUsed == CHOOSE p \in 1 .. hotPage :
                ~Empty(p) /\ \A q \in p + 1 .. hotPage : Empty(q)

\* Mutant: `next` does not move.
ReleaseNextInPlace ==
    /\ Releasing
    /\ Len(pages[Top.page]) # Top.stop
    /\ tls' = LastUsed
    /\ UNCHANGED <<env, pages, tokens, frames, bad>>

\* One turn of the loop.  The release of an object may run its -dealloc.
ReleaseNext ==
    /\ Releasing
    /\ Len(pages[Top.page]) # Top.stop
    /\ tls' = LastUsed
    /\ LET entry == pages[LastUsed][Len(pages[LastUsed])]
       IN  frames' = [frames EXCEPT ![Len(frames)].callback = entry # POOL_BOUNDARY]
    /\ pages' = [pages EXCEPT ![LastUsed] = SubSeq(@, 1, Len(@) - 1)]
    /\ UNCHANGED <<env, tokens, bad>>

Debugging == env.DebugPoolAllocation \/ env.DebugMissingPools

\* Mutants: the pop frees the page it works on; no empty page is ever freed.
PagesLeftTooFew(p) == IF LessThanHalfFull(p) THEN Kill(p) ELSE Kill(p + 1)
PagesLeftAll(p) ==
    IF env.DebugPoolAllocation /\ Empty(p) THEN Kill(p)
    ELSE IF env.DebugMissingPools /\ Empty(p) /\ p = 1 THEN Kill(p)
    ELSE pages

\* The pages popPage leaves, p hot: with page-per-pool debugging everything is
\* deleted; else one empty child is kept when p is more than half full.
PagesLeft(p) ==
    IF env.DebugPoolAllocation /\ Empty(p) THEN Kill(p)
    ELSE IF env.DebugMissingPools /\ Empty(p) /\ p = 1 THEN Kill(p)
    ELSE IF LessThanHalfFull(p) THEN Kill(p + 1)
    ELSE Kill(p + 2)

\* The loop ends; for tls_dealloc all the pages go as well.
EndPop ==
    /\ Releasing
    /\ Len(pages[Top.page]) = Top.stop
    /\ frames' = SubSeq(frames, 1, Len(frames) - 1)
    /\ LET left == PagesLeft(Top.page)
       IN  IF Top.exit
           THEN tls' = Nil /\ pages' = IF Debugging THEN left ELSE <<>>
           ELSE /\ tls' = IF Top.page <= Len(left) THEN Top.page ELSE Top.page - 1
                /\ pages' = left
    /\ UNCHANGED <<env, tokens, bad>>

\* The thread ends: tls_dealloc.  Other destructors may use pools after it,
\* and then it runs again.
ThreadExit ==
    /\ Client /\ frames = <<>>
    /\ tls # Nil
    /\ tokens' = <<>>
    /\ \/ \* the placeholder
          /\ hotPage = Nil
          /\ tls' = Nil
          /\ UNCHANGED <<pages, frames>>
       \/ \* pop all of the pools
          /\ hotPage # Nil /\ ~Empty(1)
          /\ frames' = <<[page |-> 1, stop |-> 0, base |-> 0, callback |-> FALSE,
                          exit |-> TRUE]>>
          /\ UNCHANGED <<tls, pages>>
       \/ /\ hotPage # Nil /\ Empty(1)
          /\ tls' = Nil
          /\ pages' = IF Debugging THEN pages ELSE <<>>
          /\ UNCHANGED frames
    /\ UNCHANGED <<env, bad>>

-----------------------------------------------------------------------------
(* Specification *)

ClientStep ==
    \/ \E o \in Obj : Autorelease(o)
    \/ Push
    \/ \E k \in 1 .. Len(tokens) : Pop(k)
    \/ ThreadExit

PoolStep == ReleaseNext \/ EndDealloc \/ EndPop

Next == ClientStep \/ PoolStep

Spec == Init /\ [][Next]_vars

\* A pop goes on, and so does a -dealloc that has nothing more to do.
FairSpec == Spec /\ WF_vars(PoolStep)

-----------------------------------------------------------------------------
(* Properties *)

\* The type of every variable.
TypeOK ==
    /\ env \in Modes
    /\ tls \in {EMPTY_POOL_PLACEHOLDER} \union (0 .. Len(pages))
    /\ pages \in Seq(Seq(Entry))
    /\ \A p \in 1 .. Len(pages) : Len(pages[p]) <= COUNT
    /\ tokens \in Seq(Token)
    /\ frames \in Seq(Frame)
    /\ bad \in BOOLEAN

\* releaseUntil's fixme, "I think this `while` can be `if`, but I can't prove
\* it": when the loop finds the hot page empty, the page before it is not.
WhileCanBeIf ==
    Releasing /\ Len(pages[Top.page]) # Top.stop /\ Empty(hotPage) =>
        hotPage > 1 /\ ~Empty(hotPage - 1)

\* The same, of a process that does not debug the allocation of pools.
WhileIsIf == env.DebugPoolAllocation \/ WhileCanBeIf

\* "we expect any children to be completely empty", the assertion at the end
\* of releaseUntil: no object is left in a page that popPage may free.
ChildrenEmpty ==
    Releasing /\ Len(pages[Top.page]) = Top.stop =>
        \A p \in Top.page + 1 .. Len(pages) : Empty(p)

\* What releaseUntil claims of itself holds of every process that does not debug
\* the allocation of pools, and of the children in any process checked here.
ReleaseUntilSound == WhileIsIf /\ ChildrenEmpty

\* A client that pops only pools it pushed and has not popped never sees
\* badPop, and no pop that is running has the page it works on freed under it
\* by a pop inside a -dealloc.
NoPrematureFree ==
    /\ ~bad
    /\ \A i \in 1 .. Len(frames) :
           /\ frames[i].page <= Len(pages)
           /\ Len(pages[frames[i].page]) >= frames[i].stop
    /\ \A k \in 1 .. Len(tokens) :
           tokens[k] = Placeholder \/ Valid(tokens[k])

\* "hysteresis: keep one empty child": between pops at most one page is allocated
\* beyond the hot one, and a thread that has forgotten its pages has freed them.
PagesKept ==
    /\ tls \in {Nil, EMPTY_POOL_PLACEHOLDER} => pages = <<>>
    /\ frames = <<>> => Len(pages) <= hotPage + 1

\* Every pop ends once the clients stop calling, a -dealloc that keeps a pool
\* open excepted.
PopReturns ==
    <>[][~ClientStep]_vars =>
        <>[](frames = <<>> \/ (Top.callback /\ Len(tokens) > Base))

\* The depth of a token in the stack.
Depth(token) ==
    LET below[p \in 0 .. Len(pages)] ==
            IF p = 0 THEN 0 ELSE below[p - 1] + Len(pages[p])
    IN  IF token = Placeholder THEN 0 ELSE below[token.page - 1] + token.index - 1

Stack == INSTANCE PoolStack WITH
    stack <- IF tls = EMPTY_POOL_PLACEHOLDER THEN <<POOL_BOUNDARY>>
             ELSE FlattenSeq(pages),
    open <- [k \in 1 .. Len(tokens) |-> Depth(tokens[k])],
    drains <- [i \in 1 .. Len(frames) |->
                  [stop |-> Depth([page |-> frames[i].page,
                                   index |-> frames[i].stop + 1]),
                   base |-> frames[i].base, callback |-> frames[i].callback]]

\* Pages, placeholder and hysteresis cannot be seen: clients find the stack of
\* PoolStack.tla, every entry released once, last in first out, by the pop of
\* the innermost pool around it.
ImplementsStack == Stack!Spec
=============================================================================
