----------------------------- MODULE RunLoopProofs -----------------------------
(***************************************************************************)
(* Safety of RunLoop.tla for any modes, sources, threads and bounds: the   *)
(* inductive invariant IInv, a lemma for every action that says it         *)
(* preserves IInv, and the theorems that follow.                           *)
(* A run that has not handled anything in this turn, and listens to        *)
(* wake-ups, has seen everything that is there for it, or a wake-up is on  *)
(* its way (Attended).  Only runs of which that is not so any more have    *)
(* others nested in them (StackInv), unless callouts nest anywhere, so     *)
(* that the wake-ups a nested run receives or ignores are nobody else's.   *)
(***************************************************************************)
EXTENDS RunLoop, SequenceTheorems, TLAPS

-----------------------------------------------------------------------------
(* The inductive invariant *)

\* The activations of __CFRunLoopRun.
Frame ==
    [mode : Mode,
     pc : {"callout", "blocks", "items", "sources", "sleep", "woken", "handle", "check"},
     back : {"blocks", "items", "sources", "sleep", "handle"},
     stage : {1, 2, 3}, timeout : {"none", "armed", "fired"},
     stopAfterHandle : BOOLEAN, ignoreWakeUps : BOOLEAN, stopped : BOOLEAN,
     handled : BOOLEAN, poll : BOOLEAN,
     items : Seq(Mode), kept : Seq(Mode), sources : SUBSET Source0,
     livePort : Source1 \union {MACH_PORT_NULL, WakeUpPort}]

\* Where a run goes on after a callout.
Place(f) == IF f.pc = "callout" THEN f.back ELSE f.pc

\* Wake-ups are ignored from the receipt of a message to the end of the turn; the
\* second call of DoBlocks is for the sources that were handled; a run that
\* handled one does not sleep without end.
FrameInv(f) ==
    /\ f.kept \in Seq(Mode \ {f.mode})
    /\ f.ignoreWakeUps <=> \/ Place(f) \in {"handle", "check"}
                           \/ Place(f) \in {"blocks", "items"} /\ f.stage = 3
    /\ f.stage = 2 => f.handled
    /\ Place(f) = "sleep" /\ f.handled => f.poll

\* A run that needs its wake-ups: it may come to sleep in this turn.
Attentive(f) == ~f.handled /\ ~f.ignoreWakeUps

\* A wake-up is on its way.
Waking == WakeUpPort \in messages \/ \E t \in Thread \union {Timer} : waker[t]

\* What came after the run had looked for it came with a wake-up.
Attended(f) ==
    ~NestAnywhere /\ Attentive(f) /\ f.pc # "woken" /\ ~Waking =>
        /\ ~f.stopped /\ f.mode \notin modeStopped
        /\ Place(f) \in {"items", "sources", "sleep"} =>
               \A i \in DOMAIN blocks : blocks[i] # f.mode
        /\ Place(f) = "sources" => \A s \in signaled : modeOf[s] = f.mode => s \in f.sources
        /\ Place(f) = "sleep" /\ ~f.poll =>
               /\ \A s \in signaled : modeOf[s] # f.mode
               /\ f.timeout # "fired"

DataInv ==
    /\ blocks \in Seq(Mode) /\ modeStopped \subseteq Mode
    /\ signaled \subseteq Source0 /\ messages \subseteq Source1 \union {WakeUpPort}
    /\ waker \in [Thread \union {Timer} -> BOOLEAN]

\* Runs nest only in callouts of runs that do not need their wake-ups any more.
StackInv ==
    /\ stack \in Seq(Frame) /\ Depth <= MaxDepth
    /\ \A d \in 1 .. Depth : FrameInv(stack[d])
    /\ \A d \in 1 .. Depth : d < Depth =>
           stack[d].pc = "callout" /\ (NestAnywhere \/ ~Attentive(stack[d]))

\* All of it.
IInv ==
    /\ DataInv /\ StackInv
    /\ Depth > 0 => Attended(Top)

-----------------------------------------------------------------------------
(* What steps do *)

\* Step replaces the innermost activation and leaves the others alone.
LEMMA StepStack ==
    ASSUME StackInv, Depth > 0, NEW f \in Frame, Step(f)
    PROVE  /\ stack' \in Seq(Frame) /\ Depth' = Depth /\ Top' = f
           /\ \A d \in 1 .. Depth : stack'[d] = IF d = Depth THEN f ELSE stack[d]
<1>1. Depth \in 1 .. Depth /\ stack \in Seq(Frame)
    BY LenProperties DEF Depth, StackInv
<1>2. stack' = [stack EXCEPT ![Depth] = f]
    BY DEF Step
<1>3. /\ stack' \in Seq(Frame) /\ Len(stack') = Len(stack)
      /\ \A d \in 1 .. Len(stack) : stack'[d] = IF d = Depth THEN f ELSE stack[d]
    BY <1>1, <1>2, ExceptSeq DEF Depth
<1>. QED
    BY <1>1, <1>3 DEF Depth, Top

\* The innermost activation is one.
LEMMA TopFrame ==
    ASSUME IInv, Depth > 0
    PROVE  Top \in Frame /\ FrameInv(Top) /\ Attended(Top) /\ Depth \in Nat
BY LenProperties, ElementOfSeq DEF IInv, StackInv, Depth, Top

\* A step of the innermost run preserves the invariant if what it becomes does.
LEMMA StepInv ==
    ASSUME IInv, Depth > 0, NEW f \in Frame, Step(f), DataInv', FrameInv(f), Attended(f)'
    PROVE  IInv'
<1>1. /\ stack' \in Seq(Frame) /\ Depth' = Depth /\ Top' = f
      /\ \A d \in 1 .. Depth : stack'[d] = IF d = Depth THEN f ELSE stack[d]
    BY StepStack DEF IInv
<1>2. StackInv'
  <2>1. Depth' <= MaxDepth
    BY <1>1 DEF IInv, StackInv
  <2>2. ASSUME NEW d \in 1 .. Depth
        PROVE  FrameInv(stack'[d])
    BY <1>1 DEF IInv, StackInv
  <2>3. ASSUME NEW d \in 1 .. Depth, d < Depth
        PROVE  stack'[d].pc = "callout" /\ (NestAnywhere \/ ~Attentive(stack'[d]))
    BY <1>1, <2>3 DEF IInv, StackInv
  <2>. QED
    BY <1>1, <2>1, <2>2, <2>3 DEF StackInv
<1>3. Attended(Top)'
    BY <1>1 DEF Attended, Attentive, Place, Waking
<1>. QED
    BY <1>2, <1>3 DEF IInv

\* The run below is not one that sleeps when the one above returns.
LEMMA ReturnInv ==
    ASSUME IInv, Depth > 0, Return, DataInv'
    PROVE  IInv'
<1>1. stack \in Seq(Frame) /\ Depth \in Nat /\ Depth = Len(stack)
    BY LenProperties DEF Depth, IInv, StackInv
<1>2. \A d \in 1 .. Depth - 1 : stack[d] \in Frame
    BY <1>1, ElementOfSeq
<1>3. /\ stack' \in Seq(Frame) /\ Depth' = Depth - 1
      /\ \A d \in 1 .. Depth - 1 : stack'[d] = stack[d]
  <2>1. stack' = SubSeq(stack, 1, Depth - 1)
    BY DEF Return
  <2>2. /\ SubSeq(stack, 1, Depth - 1) \in Seq(Frame)
        /\ Len(SubSeq(stack, 1, Depth - 1)) = Depth - 1
        /\ \A d \in 1 .. Depth - 1 : SubSeq(stack, 1, Depth - 1)[d] = stack[d]
    BY <1>1, <1>2, SubSeqProperties
  <2>. QED
    BY <2>1, <2>2 DEF Depth
<1>4. StackInv'
  <2>1. Depth' <= MaxDepth
    BY <1>1, <1>3, LoopAssumption DEF IInv, StackInv
  <2>2. ASSUME NEW d \in 1 .. Depth - 1
        PROVE  FrameInv(stack'[d]) /\ stack'[d].pc = "callout" /\ (NestAnywhere \/ ~Attentive(stack'[d]))
    BY <1>1, <1>3 DEF IInv, StackInv
  <2>. QED
    BY <1>1, <1>3, <2>1, <2>2 DEF StackInv
<1>5. Depth' > 0 => Attended(Top)'
    BY <1>1, <1>3 DEF IInv, StackInv, Attended, Attentive, Top, Depth
<1>. QED
    BY <1>4, <1>5 DEF IInv, DataInv

-----------------------------------------------------------------------------
(* The part of a turn before sleeping *)

\* A run is ready to sleep, and will not do so for long if it handled something or
\* its time has passed.
LEMMA PrepareToSleepFrame ==
    ASSUME NEW f \in Frame, f.kept \in Seq(Mode \ {f.mode}), ~f.ignoreWakeUps,
           f.stage = 2 => f.handled
    PROVE  LET g == PrepareToSleep(f)
           IN  /\ g \in Frame /\ FrameInv(g) /\ Place(g) = "sleep" /\ g.pc # "woken"
               /\ g.mode = f.mode /\ g.stopped = f.stopped /\ g.timeout = f.timeout
               /\ g.handled = f.handled /\ g.ignoreWakeUps = f.ignoreWakeUps
               /\ ~g.poll /\ ~g.handled => g.timeout # "fired"
<1>. DEFINE g == PrepareToSleep(f)
<1>1. CASE f.handled \/ f.timeout = "fired"
  <2>1. g = [f EXCEPT !.pc = "sleep", !.poll = TRUE]
    BY <1>1 DEF PrepareToSleep
  <2>. QED
    BY <2>1 DEF Frame, FrameInv, Place
<1>2. CASE ~(f.handled \/ f.timeout = "fired")
  <2>1. g = [f EXCEPT !.pc = "callout", !.back = "sleep"]
    BY <1>2 DEF PrepareToSleep, CallOut
  <2>. QED
    BY <1>2, <2>1 DEF Frame, FrameInv, Place
<1>. QED
    BY <1>1, <1>2

\* Between two calls of DoBlocks and sleeping, the sources of the mode are seen.
LEMMA CollectSources0Frame ==
    ASSUME NEW f \in Frame, f.kept \in Seq(Mode \ {f.mode}), ~f.ignoreWakeUps,
           f.stage = 1, signaled \subseteq Source0
    PROVE  LET g == CollectSources0(f)
           IN  /\ g \in Frame /\ FrameInv(g) /\ Place(g) \in {"sources", "sleep"} /\ g.pc # "woken"
               /\ g.mode = f.mode /\ g.stopped = f.stopped /\ g.timeout = f.timeout
               /\ g.handled = f.handled /\ g.ignoreWakeUps = f.ignoreWakeUps
               /\ ~g.poll /\ ~g.handled /\ Place(g) = "sleep" => g.timeout # "fired"
               /\ Place(g) = "sources" => \A s \in signaled : modeOf[s] = g.mode => s \in g.sources
               /\ Place(g) = "sleep" => \A s \in signaled : modeOf[s] # g.mode
<1>. DEFINE mine == {s \in signaled : modeOf[s] = f.mode}
<1>1. CASE mine = {}
  <2>1. CollectSources0(f) = PrepareToSleep(f)
    BY <1>1 DEF CollectSources0
  <2>. QED
    BY <1>1, <2>1, PrepareToSleepFrame
<1>2. CASE mine # {}
  <2>1. CollectSources0(f) = [f EXCEPT !.pc = "sources", !.sources = mine]
    BY <1>2 DEF CollectSources0
  <2>2. mine \in SUBSET Source0
    OBVIOUS
  <2>3. /\ CollectSources0(f) \in Frame
        /\ CollectSources0(f).sources = mine
    BY <2>1, <2>2 DEF Frame
  <2>4. FrameInv(CollectSources0(f)) /\ Place(CollectSources0(f)) = "sources"
    BY <2>1 DEF Frame, FrameInv, Place
  <2>. QED
    BY <2>1, <2>3, <2>4 DEF Frame
<1>. QED
    BY <1>1, <1>2

\* After DoBlocks the run handles the sources, or sleeps, or ends its turn.
LEMMA AfterBlocksFrame ==
    ASSUME NEW f \in Frame, f.kept \in Seq(Mode \ {f.mode}), signaled \subseteq Source0,
           f.ignoreWakeUps <=> f.stage = 3, f.stage = 2 => f.handled
    PROVE  LET g == AfterBlocks(f)
           IN  /\ g \in Frame /\ FrameInv(g) /\ g.pc # "woken"
               /\ g.mode = f.mode /\ g.stopped = f.stopped
               /\ Attentive(g) =>
                      /\ Attentive(f)
                      /\ ~g.poll /\ Place(g) = "sleep" => g.timeout # "fired"
                      /\ Place(g) = "sources" =>
                             \A s \in signaled : modeOf[s] = g.mode => s \in g.sources
                      /\ Place(g) = "sleep" => \A s \in signaled : modeOf[s] # g.mode
<1>1. CASE f.stage = 1
  <2>1. AfterBlocks(f) = CollectSources0(f)
    BY <1>1 DEF AfterBlocks
  <2>. QED
    BY <1>1, <2>1, CollectSources0Frame DEF Attentive
<1>2. CASE f.stage = 2
  <2>1. AfterBlocks(f) = PrepareToSleep(f)
    BY <1>2 DEF AfterBlocks
  <2>2. ~Attentive(AfterBlocks(f))
    BY <1>2, <2>1, PrepareToSleepFrame DEF Attentive
  <2>. QED
    BY <1>2, <2>1, <2>2, PrepareToSleepFrame
<1>3. CASE f.stage = 3
  <2>1. AfterBlocks(f) = [f EXCEPT !.pc = "check"]
    BY <1>3 DEF AfterBlocks
  <2>. QED
    BY <1>3, <2>1 DEF Frame, FrameInv, Place, Attentive
<1>. QED
    BY <1>1, <1>2, <1>3 DEF Frame

-----------------------------------------------------------------------------
(* The steps of the owner *)

\* A run is where it said it would go on.
LEMMA CallOutReturnsStep == ASSUME IInv, CallOutReturns PROVE IInv'
<1>1. /\ Depth > 0 /\ Top \in Frame /\ FrameInv(Top) /\ Attended(Top) /\ Top.pc = "callout"
    BY TopFrame DEF CallOutReturns, At
<1>2. PICK f \in Frame : f = [Top EXCEPT !.pc = Top.back, !.back = "blocks"]
    BY <1>1 DEF Frame
<1>3. Step(f) /\ UNCHANGED <<blocks, signaled, messages, modeStopped, waker>>
    BY <1>2 DEF CallOutReturns, Others
<1>4. /\ Place(f) = Place(Top) /\ f.pc # "woken" /\ f.poll = Top.poll
      /\ f.mode = Top.mode /\ f.kept = Top.kept /\ f.stage = Top.stage
      /\ f.handled = Top.handled /\ f.ignoreWakeUps = Top.ignoreWakeUps
      /\ f.stopped = Top.stopped /\ f.timeout = Top.timeout /\ f.sources = Top.sources
    BY <1>1, <1>2 DEF Frame, Place
<1>5. FrameInv(f)
    BY <1>1, <1>4 DEF FrameInv
<1>6. Attended(f)'
    BY <1>1, <1>3, <1>4 DEF Attended, Attentive, Waking
<1>7. DataInv'
    BY <1>3 DEF IInv, DataInv
<1>. QED
    BY <1>1, <1>3, <1>5, <1>6, <1>7, StepInv

\* The blocks that come after the list was detached come with a wake-up.
LEMMA DetachBlocksStep == ASSUME IInv, DetachBlocks PROVE IInv'
<1>1. /\ Depth > 0 /\ Top \in Frame /\ FrameInv(Top) /\ Attended(Top) /\ Top.pc = "blocks"
      /\ blocks \in Seq(Mode) /\ signaled \subseteq Source0
    BY TopFrame DEF DetachBlocks, At, IInv, DataInv
<1>2. /\ UNCHANGED <<signaled, messages, modeStopped, waker>> /\ blocks' = <<>>
      /\ DOMAIN blocks' = {}
    BY DEF DetachBlocks, Others
<1>3. DataInv'
    BY <1>2, EmptySeq DEF IInv, DataInv
<1>4. CASE blocks = <<>>
  <2>1. Top.ignoreWakeUps <=> Top.stage = 3
    BY <1>1 DEF FrameInv, Place
  <2>2. PICK f \in Frame : f = AfterBlocks(Top)
    BY <1>1, <2>1, AfterBlocksFrame DEF FrameInv
  <2>3. Step(f)
    BY <1>4, <2>2 DEF DetachBlocks
  <2>4. /\ FrameInv(f) /\ f.pc # "woken" /\ f.mode = Top.mode /\ f.stopped = Top.stopped
        /\ Attentive(f) =>
               /\ Attentive(Top)
               /\ ~f.poll /\ Place(f) = "sleep" => f.timeout # "fired"
               /\ Place(f) = "sources" => \A s \in signaled : modeOf[s] = f.mode => s \in f.sources
               /\ Place(f) = "sleep" => \A s \in signaled : modeOf[s] # f.mode
    BY <1>1, <2>1, <2>2, AfterBlocksFrame DEF FrameInv
  <2>5. Attended(f)'
    BY <1>1, <1>2, <2>4 DEF Attended, Attentive, Waking
  <2>. QED
    BY <1>1, <1>3, <2>3, <2>4, <2>5, StepInv
<1>5. CASE blocks # <<>>
  <2>1. PICK f \in Frame : f = [Top EXCEPT !.pc = "items", !.items = blocks]
    BY <1>1 DEF Frame
  <2>2. Step(f)
    BY <1>5, <2>1 DEF DetachBlocks
  <2>3. FrameInv(f)
    BY <1>1, <2>1 DEF Frame, FrameInv, Place
  <2>4. Attended(f)'
    BY <1>1, <1>2, <2>1 DEF Frame, Attended, Attentive, Waking, Place
  <2>. QED
    BY <1>1, <1>3, <2>2, <2>3, <2>4, StepInv
<1>. QED
    BY <1>4, <1>5

\* The blocks of other modes are kept, those of the mode called.
LEMMA DoBlockStep == ASSUME IInv, DoBlock PROVE IInv'
<1>1. /\ Depth > 0 /\ Top \in Frame /\ FrameInv(Top) /\ Attended(Top) /\ Top.pc = "items"
      /\ Top.items \in Seq(Mode) /\ Top.items # <<>> /\ Top.kept \in Seq(Mode \ {Top.mode})
      /\ Top.kept \in Seq(Mode)
    BY TopFrame DEF DoBlock, At, FrameInv, Frame
<1>2. Head(Top.items) \in Mode /\ Tail(Top.items) \in Seq(Mode)
    BY <1>1, HeadTailProperties
<1>3. UNCHANGED <<blocks, signaled, messages, modeStopped, waker>>
    BY DEF DoBlock, Others
<1>4. DataInv'
    BY <1>3 DEF IInv, DataInv
<1>5. CASE Head(Top.items) = Top.mode
  <2>1. PICK f \in Frame : f = CallOut([Top EXCEPT !.items = Tail(@)], "items")
    BY <1>1, <1>2 DEF Frame, CallOut
  <2>2. Step(f)
    BY <1>5, <2>1 DEF DoBlock
  <2>3. FrameInv(f)
    BY <1>1, <2>1 DEF Frame, FrameInv, Place, CallOut
  <2>4. Attended(f)'
    BY <1>1, <1>3, <2>1 DEF Frame, Attended, Attentive, Waking, Place, CallOut
  <2>. QED
    BY <1>1, <1>4, <2>2, <2>3, <2>4, StepInv
<1>6. CASE Head(Top.items) # Top.mode
  <2>1. /\ Append(Top.kept, Head(Top.items)) \in Seq(Mode \ {Top.mode})
        /\ Append(Top.kept, Head(Top.items)) \in Seq(Mode)
    BY <1>1, <1>2, <1>6, AppendProperties
  <2>2. PICK f \in Frame : f = [Top EXCEPT !.items = Tail(@), !.kept = Append(@, Head(Top.items))]
    BY <1>1, <1>2, <2>1 DEF Frame
  <2>3. Step(f)
    BY <1>6, <2>2 DEF DoBlock
  <2>4. FrameInv(f)
    BY <1>1, <2>1, <2>2 DEF Frame, FrameInv, Place
  <2>5. Attended(f)'
    BY <1>1, <1>3, <2>2 DEF Frame, Attended, Attentive, Waking, Place
  <2>. QED
    BY <1>1, <1>4, <2>3, <2>4, <2>5, StepInv
<1>. QED
    BY <1>5, <1>6

\* No block that is put back is of the mode of the run.
LEMMA EndBlocksStep == ASSUME IInv, EndBlocks PROVE IInv'
<1>1. /\ Depth > 0 /\ Top \in Frame /\ FrameInv(Top) /\ Attended(Top) /\ Top.pc = "items"
      /\ Top.kept \in Seq(Mode \ {Top.mode}) /\ Top.kept \in Seq(Mode)
      /\ blocks \in Seq(Mode) /\ signaled \subseteq Source0
    BY TopFrame DEF EndBlocks, At, IInv, DataInv, FrameInv, Frame
<1>2. UNCHANGED <<signaled, messages, modeStopped, waker>> /\ blocks' = Top.kept \o blocks
    BY DEF EndBlocks, Others
<1>3. blocks' \in Seq(Mode)
    BY <1>1, <1>2, ConcatProperties
<1>4. DataInv'
    BY <1>2, <1>3 DEF IInv, DataInv
<1>5. ASSUME \A i \in DOMAIN blocks : blocks[i] # Top.mode
      PROVE  \A i \in DOMAIN blocks' : blocks'[i] # Top.mode
  <2>1. \A i \in 1 .. Len(Top.kept) : Top.kept[i] # Top.mode
    BY <1>1, ElementOfSeq
  <2>2. \A i \in 1 .. Len(blocks) : blocks[i] # Top.mode
    BY <1>1, <1>5, LenProperties
  <2>3. /\ Len(blocks') = Len(Top.kept) + Len(blocks)
        /\ \A i \in 1 .. Len(Top.kept) + Len(blocks) :
               blocks'[i] = IF i <= Len(Top.kept) THEN Top.kept[i] ELSE blocks[i - Len(Top.kept)]
        /\ Len(Top.kept) \in Nat /\ Len(blocks) \in Nat /\ DOMAIN blocks' = 1 .. Len(blocks')
    BY <1>1, <1>2, <1>3, ConcatProperties, LenProperties
  <2>. QED
    BY <2>1, <2>2, <2>3
<1>6. PICK h \in Frame : h = [Top EXCEPT !.kept = <<>>]
    BY <1>1, EmptySeq DEF Frame
<1>7. /\ h.kept \in Seq(Mode \ {h.mode}) /\ (h.ignoreWakeUps <=> h.stage = 3)
      /\ h.stage = 2 => h.handled
      /\ h.mode = Top.mode /\ h.stopped = Top.stopped
      /\ h.handled = Top.handled /\ h.ignoreWakeUps = Top.ignoreWakeUps
  <2>1. h.kept \in Seq(Mode \ {h.mode})
    BY <1>1, <1>6, EmptySeq DEF Frame
  <2>. QED
    BY <1>1, <1>6, <2>1 DEF Frame, FrameInv, Place
<1>8. PICK f \in Frame : f = AfterBlocks(h)
    BY <1>1, <1>7, AfterBlocksFrame
<1>9. Step(f)
    BY <1>6, <1>8 DEF EndBlocks
<1>10. /\ FrameInv(f) /\ f.pc # "woken" /\ f.mode = Top.mode /\ f.stopped = Top.stopped
       /\ Attentive(f) =>
              /\ Attentive(Top)
              /\ ~f.poll /\ Place(f) = "sleep" => f.timeout # "fired"
              /\ Place(f) = "sources" => \A s \in signaled : modeOf[s] = f.mode => s \in f.sources
              /\ Place(f) = "sleep" => \A s \in signaled : modeOf[s] # f.mode
    BY <1>1, <1>7, <1>8, AfterBlocksFrame DEF Attentive
<1>11. Place(Top) = "items" /\ Top.pc # "woken"
    BY <1>1 DEF Place
<1>12. Attended(f)'
  <2>. SUFFICES ASSUME ~NestAnywhere, Attentive(f), ~Waking'
                PROVE  /\ ~f.stopped /\ f.mode \notin modeStopped'
                       /\ Place(f) \in {"items", "sources", "sleep"} =>
                              \A i \in DOMAIN blocks' : blocks'[i] # f.mode
                       /\ Place(f) = "sources" =>
                              \A s \in signaled' : modeOf[s] = f.mode => s \in f.sources
                       /\ Place(f) = "sleep" /\ ~f.poll =>
                              /\ \A s \in signaled' : modeOf[s] # f.mode
                              /\ f.timeout # "fired"
    BY DEF Attended, Attentive
  <2>1. ~Waking /\ Attentive(Top)
    BY <1>2, <1>10 DEF Waking
  <2>2. ~Top.stopped /\ Top.mode \notin modeStopped /\ \A i \in DOMAIN blocks : blocks[i] # Top.mode
    BY <1>1, <1>11, <2>1 DEF Attended
  <2>. QED
    BY <1>2, <1>5, <1>10, <2>1, <2>2
<1>. QED
    BY <1>1, <1>4, <1>9, <1>10, <1>12, StepInv

\* A source that is collected is performed, or its signal went with another perform.
LEMMA DoSource0Step == ASSUME IInv, DoSource0 PROVE IInv'
<1>1. /\ Depth > 0 /\ Top \in Frame /\ FrameInv(Top) /\ Attended(Top) /\ Top.pc = "sources"
      /\ Top.sources \subseteq Source0
    BY TopFrame DEF DoSource0, At, Frame
<1>. DEFINE s == CHOOSE s \in Top.sources : \A r \in Top.sources : s <= r
<1>2. signaled' = signaled \ {s} /\ UNCHANGED <<blocks, messages, modeStopped, waker>>
    BY DEF DoSource0, Others
<1>3. DataInv'
    BY <1>2 DEF IInv, DataInv
<1>4. PICK r : r = s
    OBVIOUS
<1>5. CASE s \notin signaled
  <2>1. PICK f \in Frame : f = [Top EXCEPT !.sources = @ \ {r}]
    BY <1>1 DEF Frame
  <2>2. Step(f)
    BY <1>4, <1>5, <2>1 DEF DoSource0
  <2>3. FrameInv(f)
    BY <1>1, <2>1 DEF Frame, FrameInv, Place
  <2>4. Attended(f)'
    BY <1>1, <1>2, <1>4, <1>5, <2>1 DEF Frame, Attended, Attentive, Waking, Place
  <2>. QED
    BY <1>1, <1>3, <2>2, <2>3, <2>4, StepInv
<1>6. CASE s \in signaled
  <2>1. PICK h \in Frame : h = [Top EXCEPT !.sources = @ \ {r}]
    BY <1>1 DEF Frame
  <2>2. PICK f \in Frame :
            f = CallOut([h EXCEPT !.handled = TRUE,
                                  !.sources = IF h.stopAfterHandle THEN {} ELSE @], "sources")
    BY DEF Frame, CallOut
  <2>3. FrameInv(h) /\ h.pc = "sources"
    BY <1>1, <2>1 DEF Frame, FrameInv, Place
  <2>4. Step(f)
    BY <1>4, <1>6, <2>1, <2>2 DEF DoSource0
  <2>5. FrameInv(f)
    BY <2>2, <2>3 DEF Frame, FrameInv, Place, CallOut
  <2>6. f.handled
    BY <2>2 DEF Frame, CallOut
  <2>7. Attended(f)'
    BY <2>6 DEF Attended, Attentive
  <2>. QED
    BY <1>1, <1>3, <2>4, <2>5, <2>7, StepInv
<1>. QED
    BY <1>5, <1>6

\* A run that handled a source does its blocks again, and does not sleep.
LEMMA EndSources0Step == ASSUME IInv, EndSources0 PROVE IInv'
<1>1. /\ Depth > 0 /\ Top \in Frame /\ FrameInv(Top) /\ Attended(Top) /\ Top.pc = "sources"
      /\ Top.sources = {}
    BY TopFrame DEF EndSources0, At
<1>2. UNCHANGED <<blocks, signaled, messages, modeStopped, waker>>
    BY DEF EndSources0, Others
<1>3. DataInv'
    BY <1>2 DEF IInv, DataInv
<1>4. CASE Top.handled
  <2>1. PICK f \in Frame : f = [Top EXCEPT !.pc = "blocks", !.stage = 2]
    BY <1>1 DEF Frame
  <2>2. Step(f)
    BY <1>4, <2>1 DEF EndSources0
  <2>3. FrameInv(f)
    BY <1>1, <1>4, <2>1 DEF Frame, FrameInv, Place
  <2>4. f.handled
    BY <1>1, <1>4, <2>1 DEF Frame
  <2>5. Attended(f)'
    BY <2>4 DEF Attended, Attentive
  <2>. QED
    BY <1>1, <1>3, <2>2, <2>3, <2>5, StepInv
<1>5. CASE ~Top.handled
  <2>1. /\ Top.kept \in Seq(Mode \ {Top.mode}) /\ ~Top.ignoreWakeUps
        /\ Top.stage = 2 => Top.handled
    BY <1>1 DEF FrameInv, Place
  <2>2. PICK f \in Frame : f = PrepareToSleep(Top)
    BY <1>1, <2>1, PrepareToSleepFrame
  <2>3. Step(f)
    BY <1>5, <2>2 DEF EndSources0
  <2>4. /\ FrameInv(f) /\ Place(f) = "sleep" /\ f.pc # "woken"
        /\ f.mode = Top.mode /\ f.stopped = Top.stopped
        /\ f.handled = Top.handled /\ f.ignoreWakeUps = Top.ignoreWakeUps
        /\ ~f.poll => f.timeout # "fired"
    BY <1>1, <1>5, <2>1, <2>2, PrepareToSleepFrame
  <2>5. Attended(f)'
    BY <1>1, <1>2, <2>4 DEF Attended, Attentive, Waking, Place
  <2>. QED
    BY <1>1, <1>3, <2>3, <2>4, <2>5, StepInv
<1>. QED
    BY <1>4, <1>5

\* A run that was woken up has no more use for the wake-up it received.
LEMMA ServiceMachPortStep == ASSUME IInv, ServiceMachPort PROVE IInv'
<1>1. /\ Depth > 0 /\ Top \in Frame /\ FrameInv(Top) /\ Attended(Top) /\ Top.pc = "sleep"
    BY TopFrame DEF ServiceMachPort, At
<1>2. UNCHANGED <<blocks, signaled, modeStopped, waker>>
    BY DEF ServiceMachPort, Others
<1>3. ASSUME NEW p \in Source1 \union {MACH_PORT_NULL, WakeUpPort},
             Step([Top EXCEPT !.pc = "woken", !.livePort = p]), messages' \subseteq messages
      PROVE  IInv'
  <2>1. PICK f \in Frame : f = [Top EXCEPT !.pc = "woken", !.livePort = p]
    BY <1>1 DEF Frame
  <2>2. FrameInv(f) /\ f.pc = "woken"
    BY <1>1, <2>1 DEF Frame, FrameInv, Place
  <2>3. Attended(f)'
    BY <2>2 DEF Attended
  <2>4. DataInv'
    BY <1>2, <1>3 DEF IInv, DataInv
  <2>. QED
    BY <1>1, <1>3, <2>1, <2>2, <2>3, <2>4, StepInv
<1>4. CASE \E p \in messages \intersect PortSet :
              messages' = messages \ {p} /\ Step([Top EXCEPT !.pc = "woken", !.livePort = p])
    BY <1>3, <1>4 DEF PortSet
<1>5. CASE Step([Top EXCEPT !.pc = "woken", !.livePort = MACH_PORT_NULL]) /\ UNCHANGED messages
    BY <1>3, <1>5
<1>. QED
    BY <1>4, <1>5 DEF ServiceMachPort

\* From now on wake-ups are ignored.
LEMMA AfterWaitingStep == ASSUME IInv, AfterWaiting PROVE IInv'
<1>1. /\ Depth > 0 /\ Top \in Frame /\ FrameInv(Top) /\ Attended(Top) /\ Top.pc = "woken"
    BY TopFrame DEF AfterWaiting, At
<1>2. UNCHANGED <<blocks, signaled, messages, modeStopped, waker>>
    BY DEF AfterWaiting, Others
<1>3. DataInv'
    BY <1>2 DEF IInv, DataInv
<1>. DEFINE h == [Top EXCEPT !.ignoreWakeUps = TRUE, !.poll = FALSE]
<1>4. PICK f \in Frame : f = IF Top.poll THEN [h EXCEPT !.pc = "handle"] ELSE CallOut(h, "handle")
    BY <1>1 DEF Frame, CallOut
<1>5. Step(f)
    BY <1>4 DEF AfterWaiting
<1>6. FrameInv(f) /\ f.ignoreWakeUps
    BY <1>1, <1>4 DEF Frame, FrameInv, Place, CallOut
<1>7. Attended(f)'
    BY <1>6 DEF Attended, Attentive
<1>. QED
    BY <1>1, <1>3, <1>5, <1>6, <1>7, StepInv

\* They still are, in the callout of a source1 and in the third call of DoBlocks.
LEMMA HandleMessageStep == ASSUME IInv, HandleMessage PROVE IInv'
<1>1. /\ Depth > 0 /\ Top \in Frame /\ FrameInv(Top) /\ Attended(Top) /\ Top.pc = "handle"
    BY TopFrame DEF HandleMessage, At
<1>2. UNCHANGED <<blocks, signaled, messages, modeStopped, waker>>
    BY DEF HandleMessage, Others
<1>3. DataInv'
    BY <1>2 DEF IInv, DataInv
<1>. DEFINE h == [Top EXCEPT !.stage = 3, !.livePort = MACH_PORT_NULL]
<1>4. PICK f \in Frame : f = IF Top.livePort \in Source1
                             THEN CallOut([h EXCEPT !.handled = TRUE], "blocks")
                             ELSE [h EXCEPT !.pc = "blocks"]
    BY <1>1 DEF Frame, CallOut
<1>5. Step(f)
    BY <1>4 DEF HandleMessage
<1>6. FrameInv(f) /\ f.ignoreWakeUps
    BY <1>1, <1>4 DEF Frame, FrameInv, Place, CallOut
<1>7. Attended(f)'
    BY <1>6 DEF Attended, Attentive
<1>. QED
    BY <1>1, <1>3, <1>5, <1>6, <1>7, StepInv

\* The next turn starts only if the run was not stopped, and looks for the rest.
LEMMA EndTurnStep == ASSUME IInv, EndTurn PROVE IInv'
<1>1. /\ Depth > 0 /\ Top \in Frame /\ FrameInv(Top) /\ Attended(Top) /\ Top.pc = "check"
    BY TopFrame DEF EndTurn, At
<1>2. UNCHANGED <<blocks, signaled, messages, waker>> /\ modeStopped' \subseteq modeStopped
    BY DEF EndTurn, Others
<1>3. DataInv'
    BY <1>2 DEF IInv, DataInv
<1>4. CASE Return
    BY <1>1, <1>3, <1>4, ReturnInv
<1>5. CASE ~Over /\ Top.mode \notin modeStopped /\ Step(Turn(Top))
  <2>1. PICK f \in Frame : f = Turn(Top)
    BY <1>1 DEF Frame, Turn
  <2>2. FrameInv(f)
    BY <1>1, <2>1 DEF Frame, FrameInv, Place, Turn
  <2>3. ~f.stopped /\ f.mode = Top.mode /\ Place(f) = "blocks"
    BY <1>1, <1>5, <2>1 DEF Over, Turn, Frame, Place
  <2>4. Attended(f)'
    BY <1>2, <1>5, <2>3 DEF Attended, Place
  <2>. QED
    BY <1>1, <1>3, <1>5, <2>1, <2>2, <2>4, StepInv
<1>. QED
    BY <1>4, <1>5 DEF EndTurn

-----------------------------------------------------------------------------
(* Runs, and the calls of other threads *)

\* A run starts with its own stops done; the run it nests in can do without
\* wake-ups.
LEMMA RunStep == ASSUME IInv, NEW m \in Mode, Run(m) PROVE IInv'
<1>1. /\ stack \in Seq(Frame) /\ Depth \in Nat /\ Depth = Len(stack) /\ Depth < MaxDepth
      /\ MaxDepth \in Nat
    BY LenProperties, LoopAssumption DEF IInv, StackInv, Depth, Run
<1>2. UNCHANGED <<blocks, signaled, messages, waker>> /\ modeStopped' \subseteq modeStopped
    BY DEF Run, Others
<1>3. DataInv'
    BY <1>2 DEF IInv, DataInv
<1>4. CASE UNCHANGED stack
  <2>1. StackInv' /\ Depth' = Depth /\ Top' = Top
    BY <1>4 DEF IInv, StackInv, Depth, Top
  <2>2. Depth > 0 => Attended(Top)'
    BY <1>2, <2>1 DEF IInv, Attended, Waking
  <2>. QED
    BY <1>3, <2>1, <2>2 DEF IInv
<1>5. ASSUME NEW t \in Timeouts, NEW after \in BOOLEAN, m \notin modeStopped, UNCHANGED modeStopped,
             stack' = Append(stack, Activation(m, t, after))
      PROVE  IInv'
  <2>1. t \in {"none", "armed", "fired"}
    BY DEF Timeouts
  <2>2. PICK f \in Frame : f = Activation(m, t, after)
    BY <2>1, EmptySeq DEF Activation, PerRunData, Turn, Frame
  <2>3. /\ stack' \in Seq(Frame) /\ Len(stack') = Depth + 1
        /\ \A d \in 1 .. Depth : stack'[d] = stack[d]
        /\ stack'[Depth + 1] = f
    BY <1>1, <1>5, <2>2, AppendProperties
  <2>4. /\ f.kept = <<>> /\ f.mode = m /\ ~f.stopped /\ f.pc = "blocks" /\ ~f.ignoreWakeUps
        /\ f.stage = 1
    BY <2>2 DEF Activation, PerRunData, Turn
  <2>5. FrameInv(f)
    BY <2>4, EmptySeq DEF FrameInv, Place
  <2>6. Depth > 0 => Top = stack[Depth] /\ Top.pc = "callout" /\ (NestAnywhere \/ ~Attentive(Top))
    BY DEF Run, MayNest, Attentive, Top
  <2>7. ASSUME NEW d \in 1 .. Depth + 1
        PROVE  /\ FrameInv(stack'[d])
               /\ d < Depth + 1 => /\ stack'[d].pc = "callout"
                                   /\ NestAnywhere \/ ~Attentive(stack'[d])
    BY <1>1, <2>3, <2>5, <2>6 DEF IInv, StackInv
  <2>8. Depth' = Depth + 1 /\ Depth' <= MaxDepth /\ Top' = f
    BY <1>1, <2>3 DEF Depth, Top
  <2>9. StackInv'
    BY <2>3, <2>7, <2>8 DEF StackInv
  <2>10. Attended(f)'
    BY <1>2, <1>5, <2>4 DEF Attended, Place
  <2>11. Attended(Top)'
    BY <2>8, <2>10 DEF Attended, Place, Attentive, Waking
  <2>. QED
    BY <1>3, <2>9, <2>11 DEF IInv
<1>. QED
    BY <1>4, <1>5, LoopAssumption DEF Run

\* A caller that is about to wake up the loop may change anything but the run.
LEMMA CallInv ==
    ASSUME IInv, UNCHANGED stack, DataInv', Waking'
    PROVE  IInv'
<1>1. StackInv' /\ Depth' = Depth
    BY DEF IInv, StackInv, Depth
<1>2. Attended(Top)'
    BY DEF Attended
<1>. QED
    BY <1>1, <1>2 DEF IInv

\* A caller other than of a message leaves a wake-up to come.
LEMMA CallWakes ==
    ASSUME IInv, NEW t \in Thread, NEW b \in BOOLEAN, Call(t, b)
    PROVE  /\ waker' \in [Thread \union {Timer} -> BOOLEAN] /\ (b => Waking')
           /\ \A u \in Thread \union {Timer} : waker[u] => waker'[u]
BY DEF IInv, DataInv, Call, Waking

\* A block that is handed in comes with a wake-up.
LEMMA PerformBlockStep ==
    ASSUME IInv, NEW t \in Thread, NEW m \in Mode, CFRunLoopPerformBlock(t, m)
    PROVE  IInv'
<1>1. waker' \in [Thread \union {Timer} -> BOOLEAN] /\ Waking'
    BY CallWakes DEF CFRunLoopPerformBlock
<1>2. blocks' \in Seq(Mode)
    BY AppendProperties DEF IInv, DataInv, CFRunLoopPerformBlock
<1>3. DataInv'
    BY <1>1, <1>2 DEF IInv, DataInv, CFRunLoopPerformBlock
<1>. QED
    BY <1>1, <1>3, CallInv DEF CFRunLoopPerformBlock

\* So does a signal, which needs no lock of the loop.
LEMMA SourceSignalStep ==
    ASSUME IInv, NEW t \in Thread, NEW s \in Source0, CFRunLoopSourceSignal(t, s)
    PROVE  IInv'
<1>1. waker' \in [Thread \union {Timer} -> BOOLEAN] /\ Waking'
    BY CallWakes DEF CFRunLoopSourceSignal
<1>2. DataInv'
    BY <1>1 DEF IInv, DataInv, CFRunLoopSourceSignal
<1>. QED
    BY <1>1, <1>2, CallInv DEF CFRunLoopSourceSignal

\* So does a stop of a mode.
LEMMA StopModeStep ==
    ASSUME IInv, NEW t \in Thread, NEW m \in Mode, _CFRunLoopStopMode(t, m)
    PROVE  IInv'
<1>1. waker' \in [Thread \union {Timer} -> BOOLEAN] /\ Waking'
    BY CallWakes DEF _CFRunLoopStopMode
<1>2. DataInv'
    BY <1>1 DEF IInv, DataInv, _CFRunLoopStopMode
<1>. QED
    BY <1>1, <1>2, CallInv DEF _CFRunLoopStopMode

\* A message of a source1 needs none: the port is in the port set.
LEMMA SendMessageStep ==
    ASSUME IInv, NEW t \in Thread, NEW p \in Source1, SendMessage(t, p)
    PROVE  IInv'
<1>1. /\ waker' \in [Thread \union {Timer} -> BOOLEAN]
      /\ \A u \in Thread \union {Timer} : waker[u] => waker'[u]
    BY CallWakes DEF SendMessage
<1>2. UNCHANGED <<stack, blocks, signaled, modeStopped>> /\ messages' = messages \union {p}
    BY DEF SendMessage
<1>3. DataInv'
    BY <1>1, <1>2 DEF IInv, DataInv
<1>4. StackInv' /\ Depth' = Depth /\ Top' = Top
    BY <1>2 DEF IInv, StackInv, Depth, Top
<1>5. Waking => Waking'
    BY <1>1, <1>2 DEF Waking
<1>6. Depth > 0 => Attended(Top)'
    BY <1>2, <1>4, <1>5 DEF IInv, Attended
<1>. QED
    BY <1>3, <1>4, <1>6 DEF IInv

\* A stop of the innermost run comes with a wake-up.
LEMMA StopStep == ASSUME IInv, NEW t \in Thread, CFRunLoopStop(t) PROVE IInv'
<1>1. Depth > 0 /\ Top \in Frame /\ FrameInv(Top)
    BY TopFrame DEF CFRunLoopStop
<1>2. waker' \in [Thread \union {Timer} -> BOOLEAN] /\ Waking'
    BY CallWakes DEF CFRunLoopStop
<1>3. DataInv'
    BY <1>2 DEF IInv, DataInv, CFRunLoopStop
<1>4. PICK f \in Frame : f = [Top EXCEPT !.stopped = TRUE]
    BY <1>1 DEF Frame
<1>5. FrameInv(f)
    BY <1>1, <1>4 DEF Frame, FrameInv, Place
<1>6. Attended(f)'
    BY <1>2 DEF Attended
<1>. QED
    BY <1>1, <1>3, <1>4, <1>5, <1>6, StepInv DEF CFRunLoopStop

\* So does the end of its time, which may be that of a run further out.
LEMMA TimeoutStep == ASSUME IInv, NEW d \in DOMAIN stack, __CFRunLoopTimeout(d) PROVE IInv'
<1>1. stack \in Seq(Frame) /\ d \in 1 .. Len(stack) /\ stack[d] \in Frame /\ FrameInv(stack[d])
    BY LenProperties, ElementOfSeq DEF IInv, StackInv, Depth
<1>2. /\ stack' = [stack EXCEPT ![d] = [stack[d] EXCEPT !.timeout = "fired"]]
      /\ waker' = [waker EXCEPT ![Timer] = TRUE] /\ UNCHANGED <<blocks, signaled, messages, modeStopped>>
    BY DEF __CFRunLoopTimeout
<1>3. DataInv' /\ Waking'
    BY <1>2 DEF IInv, DataInv, Waking
<1>4. PICK f \in Frame : f = [stack[d] EXCEPT !.timeout = "fired"]
    BY <1>1 DEF Frame
<1>5. /\ FrameInv(f) /\ f.pc = stack[d].pc /\ (Attentive(f) <=> Attentive(stack[d]))
    BY <1>1, <1>4 DEF Frame, FrameInv, Place, Attentive
<1>6. /\ stack' \in Seq(Frame) /\ Len(stack') = Len(stack)
      /\ \A e \in 1 .. Len(stack) : stack'[e] = IF e = d THEN f ELSE stack[e]
    BY <1>1, <1>2, <1>4, ExceptSeq
<1>7. ASSUME NEW e \in 1 .. Depth
      PROVE  /\ FrameInv(stack'[e])
             /\ e < Depth => stack'[e].pc = "callout" /\ (NestAnywhere \/ ~Attentive(stack'[e]))
    BY <1>1, <1>5, <1>6 DEF IInv, StackInv, Depth
<1>8. StackInv'
    BY <1>6, <1>7 DEF IInv, StackInv, Depth
<1>9. Attended(Top)'
    BY <1>3 DEF Attended
<1>. QED
    BY <1>3, <1>8, <1>9 DEF IInv

\* A wake-up gets lost only while nothing runs or the run ignores them.
LEMMA WakeUpStep ==
    ASSUME IInv, NEW t \in Thread \union {Timer}, CFRunLoopWakeUp(t)
    PROVE  IInv'
<1>1. /\ waker' = [waker EXCEPT ![t] = FALSE] /\ UNCHANGED <<stack, blocks, signaled, modeStopped>>
      /\ messages' = IF IgnoringWakeUps THEN messages ELSE messages \union {WakeUpPort}
    BY DEF CFRunLoopWakeUp
<1>2. DataInv'
    BY <1>1 DEF IInv, DataInv
<1>3. StackInv' /\ Depth' = Depth /\ Top' = Top
    BY <1>1 DEF IInv, StackInv, Depth, Top
<1>4. Depth > 0 => Attended(Top)'
  <2>1. CASE IgnoringWakeUps
    BY <1>3, <2>1 DEF IgnoringWakeUps, Attended, Attentive
  <2>2. CASE ~IgnoringWakeUps
    BY <1>1, <2>2 DEF Attended, Waking
  <2>. QED
    BY <2>1, <2>2
<1>. QED
    BY <1>2, <1>3, <1>4 DEF IInv

-----------------------------------------------------------------------------
(* Theorems *)

\* A loop that has not run satisfies the invariant.
LEMMA InvInit == Init => IInv
<1>. SUFFICES ASSUME Init PROVE IInv
    OBVIOUS
<1>1. Depth = 0 /\ stack \in Seq(Frame) /\ blocks \in Seq(Mode)
    BY EmptySeq DEF Init, Depth
<1>2. DataInv
    BY <1>1 DEF Init, DataInv
<1>3. StackInv
    BY <1>1, LoopAssumption DEF StackInv
<1>. QED
    BY <1>1, <1>2, <1>3 DEF IInv

\* Every step preserves it.
LEMMA InvNext == IInv /\ [Next]_vars => IInv'
<1>. SUFFICES ASSUME IInv, [Next]_vars PROVE IInv'
    OBVIOUS
<1>1. CASE Owner
    BY <1>1, CallOutReturnsStep, DetachBlocksStep, DoBlockStep, EndBlocksStep, DoSource0Step,
       EndSources0Step, ServiceMachPortStep, AfterWaitingStep, HandleMessageStep, EndTurnStep
       DEF Owner
<1>2. CASE \E m \in Mode : Run(m)
    BY <1>2, RunStep
<1>3. CASE \E t \in Thread :
               \/ \E m \in Mode : CFRunLoopPerformBlock(t, m) \/ _CFRunLoopStopMode(t, m)
               \/ \E s \in Source0 : CFRunLoopSourceSignal(t, s)
               \/ \E p \in Source1 : SendMessage(t, p)
               \/ CFRunLoopStop(t)
    BY <1>3, PerformBlockStep, StopModeStep, SourceSignalStep, SendMessageStep, StopStep
<1>4. CASE \E d \in DOMAIN stack : __CFRunLoopTimeout(d)
    BY <1>4, TimeoutStep
<1>5. CASE \E t \in Thread \union {Timer} : CFRunLoopWakeUp(t)
    BY <1>5, WakeUpStep
<1>6. CASE UNCHANGED vars
    BY <1>6 DEF vars, IInv, DataInv, StackInv, Attended, Waking, Depth, Top
<1>. QED
    BY <1>1, <1>2, <1>3, <1>4, <1>5, <1>6 DEF Next

\* The invariant holds in every state of the run loop.
THEOREM Invariance == Spec => []IInv
BY InvInit, InvNext, PTL DEF Spec

\* What IInv says of types is TypeOK.
LEMMA InvType == IInv => TypeOK
<1>. SUFFICES ASSUME IInv PROVE TypeOK
    OBVIOUS
<1>1. ASSUME NEW d \in 1 .. Depth
      PROVE  stack[d] \in Frame /\ FrameInv(stack[d]) /\ (d < Depth => stack[d].pc = "callout")
    BY ElementOfSeq DEF IInv, StackInv, Depth
<1>. QED
    BY <1>1 DEF IInv, DataInv, StackInv, TypeOK, Frame, FrameInv

\* Every variable has its type, and only the innermost run is not in a callout.
THEOREM TypeCorrect == Spec => []TypeOK
BY Invariance, InvType, PTL

\* A run that sleeps without end is attentive, so it has seen everything.
LEMMA InvWakeUp == ASSUME ~NestAnywhere PROVE IInv => NoWakeUpLost
<1>. SUFFICES ASSUME IInv, Depth > 0, Top.pc = "sleep", ~Top.poll, WakeUpPort \notin messages,
                     \A t \in DOMAIN waker : ~waker[t]
              PROVE  /\ \A s \in signaled : modeOf[s] # Top.mode
                     /\ \A i \in DOMAIN blocks : blocks[i] # Top.mode
                     /\ ~Top.stopped /\ Top.mode \notin modeStopped /\ Top.timeout # "fired"
    BY DEF NoWakeUpLost, At
<1>1. Top \in Frame /\ FrameInv(Top) /\ Attended(Top) /\ Place(Top) = "sleep"
    BY TopFrame DEF Place
<1>2. Attentive(Top)
    BY <1>1 DEF FrameInv, Attentive
<1>3. ~Waking
    BY DEF IInv, DataInv, Waking
<1>. QED
    BY <1>1, <1>2, <1>3 DEF Attended

\* "We don't want to lose a wakeup", CFRunLoopWakeUp says, and with runs that nest only
\* where this turn got something done none is lost: whatever a run that sleeps
\* without end has to do, a wake-up for it is on its way.
THEOREM NoWakeUpIsLost == ASSUME ~NestAnywhere PROVE Spec => []NoWakeUpLost
<1>1. IInv => NoWakeUpLost
    BY InvWakeUp
<1>. QED
    BY <1>1, Invariance, PTL
=============================================================================
