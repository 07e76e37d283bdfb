-------------------------------- MODULE RunLoop --------------------------------
(***************************************************************************)
(* The run loop of CF-1153.18, CFRunLoop.c: __CFRunLoopRun on a secondary  *)
(* thread, its nested runs, and the calls other threads make to it.        *)
(*                                                                         *)
(* The owner holds the lock of the run loop but when it calls out or is in *)
(* mach_msg; the other threads call in while it does not.  A signal sets a *)
(* flag under the lock of its source alone, and a message needs no lock.   *)
(*                                                                         *)
(* A block is its mode.  Timers, the main queue, common modes, and adding  *)
(* and removing sources are not in the model; of the observers, those at   *)
(* BeforeWaiting and AfterWaiting are.                                     *)
(***************************************************************************)
EXTENDS Integers, Sequences, FiniteSets

CONSTANTS
    Mode,
    Source0, Source1,   \* sources, numbers in their order, and ports
    modeOf,             \* modeOf[s]: the mode a source was added to
    Thread,             \* the threads that call in
    MaxCalls,           \* bound: the calls they make
    MaxRuns, MaxDepth,  \* bounds: the runs of the loop, and how deep they nest
    NestedStopAfter,    \* bound: the values of stopAfterHandle of nested runs
    NestAnywhere        \* may a callout run the loop before this turn has got anything done

Timer == "timer"        \* the thread that handles the timeouts of the runs
MACH_PORT_NULL == 0
WakeUpPort == 1

ASSUME LoopAssumption ==
    /\ Source0 \union Source1 \subseteq Nat \ {MACH_PORT_NULL, WakeUpPort}
    /\ Source0 \intersect Source1 = {} /\ Timer \notin Thread
    /\ modeOf \in [Source0 \union Source1 -> Mode]
    /\ {MaxCalls, MaxRuns, MaxDepth} \subseteq Nat /\ NestAnywhere \in BOOLEAN
    /\ NestedStopAfter \subseteq BOOLEAN

VARIABLES
    stack,      \* the activations of __CFRunLoopRun, each with its per-run data
    blocks,     \* _blocks_head
    signaled,   \* the sources0 that are
    messages,   \* the ports with a message, perhaps WakeUpPort
    modeStopped,
    waker,      \* waker[t]: t is about to call CFRunLoopWakeUp
    calls, runs

vars == <<stack, blocks, signaled, messages, modeStopped, waker, calls, runs>>

Init ==
    /\ stack = <<>> /\ blocks = <<>>
    /\ signaled = {} /\ messages = {} /\ modeStopped = {}
    /\ waker = [t \in Thread \union {Timer} |-> FALSE]
    /\ calls = 0 /\ runs = 0

-----------------------------------------------------------------------------
(* The stack *)

Depth == Len(stack)
Top == stack[Depth]

\* Mutant: wake-ups still are ignored.
TurnIgnoring(f) == [f EXCEPT !.pc = "blocks", !.stage = 1, !.handled = FALSE]

\* A turn of the loop starts.
Turn(f) == [f EXCEPT !.pc = "blocks", !.stage = 1, !.ignoreWakeUps = FALSE, !.handled = FALSE]

\* The per-run data that is pushed, with the locals of __CFRunLoopRun.
PerRunData(m, t, after) ==
    [mode |-> m, pc |-> "check", back |-> "blocks", stage |-> 3, timeout |-> t,
     stopAfterHandle |-> after, ignoreWakeUps |-> FALSE, stopped |-> FALSE,
     handled |-> FALSE, poll |-> FALSE, items |-> <<>>, kept |-> <<>>, sources |-> {},
     livePort |-> MACH_PORT_NULL]

Unlocked == Depth > 0 => Top.pc \in {"items", "sources", "callout", "sleep", "woken"}

Step(f) == stack' = [stack EXCEPT ![Depth] = f]
At(pc) == Depth > 0 /\ Top.pc = pc

CallOut(f, back) == [f EXCEPT !.pc = "callout", !.back = back]

\* Mutant: a run sleeps before it has looked for anything.
ActivationAsleep(m, t, after) == CallOut(PerRunData(m, t, after), "sleep")

Activation(m, t, after) == Turn(PerRunData(m, t, after))

Others == UNCHANGED <<waker, calls>>

ModeIsEmpty(m) ==
    /\ \A s \in Source0 \union Source1 : modeOf[s] # m
    /\ \A i \in DOMAIN blocks : blocks[i] # m

-----------------------------------------------------------------------------
(* CFRunLoopRunSpecific, from the thread or a callout *)

MayNest == Depth > 0 => Top.pc = "callout" /\ (NestAnywhere \/ Top.handled \/ Top.ignoreWakeUps)

\* A timeout of a run: 0 (fired), limited (armed), or over the limit (none); of
\* a nested run a limited one, that may fire at once.
Timeouts == IF Depth = 0 THEN {"none", "armed", "fired"} ELSE {"armed"}

Run(m) ==
    /\ MayNest /\ Depth < MaxDepth /\ runs < MaxRuns /\ ~ModeIsEmpty(m)
    /\ runs' = runs + 1
    /\ \/ /\ m \in modeStopped
          /\ modeStopped' = modeStopped \ {m}
          /\ UNCHANGED stack
       \/ /\ m \notin modeStopped
          /\ \E t \in Timeouts, after \in IF Depth = 0 THEN BOOLEAN ELSE NestedStopAfter :
                 stack' = Append(stack, Activation(m, t, after))
          /\ UNCHANGED modeStopped
    /\ UNCHANGED <<blocks, signaled, messages>> /\ Others

CallOutReturns ==
    /\ At("callout")
    /\ Step([Top EXCEPT !.pc = Top.back, !.back = "blocks"])
    /\ UNCHANGED <<blocks, signaled, messages, modeStopped, runs>> /\ Others

-----------------------------------------------------------------------------
(* The part of a turn between DoBlocks and sleeping, done with the lock held *)

\* Mutant: it sleeps also when a source was handled.
PrepareToSleepAlways(f) ==
    IF f.timeout = "fired" THEN [f EXCEPT !.pc = "sleep", !.poll = TRUE] ELSE CallOut(f, "sleep")

\* poll, and the observers at kCFRunLoopBeforeWaiting.
PrepareToSleep(f) ==
    IF f.handled \/ f.timeout = "fired" THEN [f EXCEPT !.pc = "sleep", !.poll = TRUE]
    ELSE CallOut(f, "sleep")

CollectSources0(f) ==
    LET mine == {s \in signaled : modeOf[s] = f.mode}
    IN  IF mine = {} THEN PrepareToSleep(f)
        ELSE [f EXCEPT !.pc = "sources", !.sources = mine]

-----------------------------------------------------------------------------
(* __CFRunLoopDoBlocks: it is called thrice in a turn *)

AfterBlocks(f) ==
    CASE f.stage = 1 -> CollectSources0(f)
      [] f.stage = 2 -> PrepareToSleep(f)
      [] f.stage = 3 -> [f EXCEPT !.pc = "check"]

DetachBlocks ==
    /\ At("blocks")
    /\ Step(IF blocks = <<>> THEN AfterBlocks(Top)
            ELSE [Top EXCEPT !.pc = "items", !.items = blocks])
    /\ blocks' = <<>>
    /\ UNCHANGED <<signaled, messages, modeStopped, runs>> /\ Others

\* Mutant: a block that is called stays on the list.
DoBlockKept ==
    /\ At("items") /\ Top.items # <<>>
    /\ LET f == [Top EXCEPT !.items = Tail(@), !.kept = Append(@, Head(Top.items))]
       IN  Step(IF Head(Top.items) = Top.mode THEN CallOut(f, "items") ELSE f)
    /\ UNCHANGED <<blocks, signaled, messages, modeStopped, runs>> /\ Others

DoBlock ==
    /\ At("items") /\ Top.items # <<>>
    /\ LET f == [Top EXCEPT !.items = Tail(@)]
       IN  Step(IF Head(Top.items) = Top.mode THEN CallOut(f, "items")
                ELSE [f EXCEPT !.kept = Append(@, Head(Top.items))])
    /\ UNCHANGED <<blocks, signaled, messages, modeStopped, runs>> /\ Others

\* The blocks that were kept go before those that came meanwhile.
EndBlocks ==
    /\ At("items") /\ Top.items = <<>>
    /\ blocks' = Top.kept \o blocks
    /\ Step(AfterBlocks([Top EXCEPT !.kept = <<>>]))
    /\ UNCHANGED <<signaled, messages, modeStopped, runs>> /\ Others

-----------------------------------------------------------------------------
(* __CFRunLoopDoSources0 *)

\* The next source is performed if it still is signaled.
DoSource0 ==
    /\ At("sources") /\ Top.sources # {}
    /\ LET s == CHOOSE s \in Top.sources : \A r \in Top.sources : s <= r
           f == [Top EXCEPT !.sources = @ \ {s}]
       IN  /\ signaled' = signaled \ {s}
           /\ Step(IF s \notin signaled THEN f
                   ELSE CallOut([f EXCEPT !.handled = TRUE,
                                     !.sources = IF f.stopAfterHandle THEN {} ELSE @], "sources"))
    /\ UNCHANGED <<blocks, messages, modeStopped, runs>> /\ Others

EndSources0 ==
    /\ At("sources") /\ Top.sources = {}
    /\ Step(IF Top.handled THEN [Top EXCEPT !.pc = "blocks", !.stage = 2]
            ELSE PrepareToSleep(Top))
    /\ UNCHANGED <<blocks, signaled, messages, modeStopped, runs>> /\ Others

-----------------------------------------------------------------------------
(* Sleeping *)

PortSet == {WakeUpPort} \union {s \in Source1 : modeOf[s] = Top.mode}

\* __CFRunLoopServiceMachPort receives a message, or none at once.
ServiceMachPort ==
    /\ At("sleep")
    /\ \/ \E p \in messages \intersect PortSet :
              /\ messages' = messages \ {p}
              /\ Step([Top EXCEPT !.pc = "woken", !.livePort = p])
       \/ /\ Top.poll /\ messages \intersect PortSet = {}
          /\ Step([Top EXCEPT !.pc = "woken", !.livePort = MACH_PORT_NULL])
          /\ UNCHANGED messages
    /\ UNCHANGED <<blocks, signaled, modeStopped, runs>> /\ Others

\* It locks, ignores wake-ups, and calls the observers at kCFRunLoopAfterWaiting.
AfterWaiting ==
    /\ At("woken")
    /\ LET f == [Top EXCEPT !.ignoreWakeUps = TRUE, !.poll = FALSE]
       IN  Step(IF Top.poll THEN [f EXCEPT !.pc = "handle"] ELSE CallOut(f, "handle"))
    /\ UNCHANGED <<blocks, signaled, messages, modeStopped, runs>> /\ Others

\* handle_msg: a message of a source1 is handled, WakeUpPort's is not.
HandleMessage ==
    /\ At("handle")
    /\ LET f == [Top EXCEPT !.stage = 3, !.livePort = MACH_PORT_NULL]
       IN  Step(IF Top.livePort \in Source1 THEN CallOut([f EXCEPT !.handled = TRUE], "blocks")
                ELSE [f EXCEPT !.pc = "blocks"])
    /\ UNCHANGED <<blocks, signaled, messages, modeStopped, runs>> /\ Others

-----------------------------------------------------------------------------
(* The end of a turn *)

Return == stack' = SubSeq(stack, 1, Depth - 1)

Over == (Top.handled /\ Top.stopAfterHandle) \/ Top.timeout = "fired" \/ Top.stopped

\* Mutant: the end of the turn does not look at the stop.
EndTurnUnstopped ==
    /\ At("check")
    /\ IF (Top.handled /\ Top.stopAfterHandle) \/ Top.timeout = "fired" THEN Return
       ELSE Step(Turn(Top))
    /\ UNCHANGED <<blocks, signaled, messages, modeStopped, runs>> /\ Others

\* The run is over, or the next turn starts.  The time of an armed timeout may
\* have passed before the timer thread has come to it.
EndTurn ==
    /\ At("check")
    /\ \/ (Over \/ Top.timeout = "armed") /\ Return /\ UNCHANGED modeStopped
       \/ /\ ~Over /\ Top.mode \in modeStopped
          /\ Return /\ modeStopped' = modeStopped \ {Top.mode}
       \/ /\ ~Over /\ Top.mode \notin modeStopped
          /\ IF ModeIsEmpty(Top.mode) THEN Return ELSE Step(Turn(Top))
          /\ UNCHANGED modeStopped
    /\ UNCHANGED <<blocks, signaled, messages, runs>> /\ Others

-----------------------------------------------------------------------------
(* Calls of other threads, and of callouts; all but messages wake up the loop *)

\* Thread t calls, and is to call CFRunLoopWakeUp after that, or not.
Call(t, wakes) ==
    /\ ~waker[t] /\ calls < MaxCalls
    /\ calls' = calls + 1
    /\ waker' = [waker EXCEPT ![t] = wakes]
    /\ UNCHANGED runs

CFRunLoopPerformBlock(t, m) ==
    /\ Call(t, TRUE) /\ Unlocked
    /\ blocks' = Append(blocks, m)
    /\ UNCHANGED <<stack, signaled, messages, modeStopped>>

CFRunLoopSourceSignal(t, s) ==
    /\ Call(t, TRUE)
    /\ signaled' = signaled \union {s}
    /\ UNCHANGED <<stack, blocks, messages, modeStopped>>

SendMessage(t, p) ==
    /\ Call(t, FALSE)
    /\ messages' = messages \union {p}
    /\ UNCHANGED <<stack, blocks, signaled, modeStopped>>

\* Of a loop that is not running, it does nothing.
CFRunLoopStop(t) ==
    /\ Call(t, TRUE) /\ Unlocked /\ Depth > 0
    /\ Step([Top EXCEPT !.stopped = TRUE])
    /\ UNCHANGED <<blocks, signaled, messages, modeStopped>>

_CFRunLoopStopMode(t, m) ==
    /\ Call(t, TRUE) /\ Unlocked
    /\ modeStopped' = modeStopped \union {m}
    /\ UNCHANGED <<stack, blocks, signaled, messages>>

\* The timer thread comes to the timeout of a run.
__CFRunLoopTimeout(d) ==
    /\ ~waker[Timer] /\ stack[d].timeout = "armed"
    /\ stack' = [stack EXCEPT ![d].timeout = "fired"]
    /\ waker' = [waker EXCEPT ![Timer] = TRUE]
    /\ UNCHANGED <<blocks, signaled, messages, modeStopped, calls, runs>>

\* The base per-run data, current while nothing runs, ignores them for good.
IgnoringWakeUps == Depth > 0 => Top.ignoreWakeUps

\* The queue of the port holds one message.
CFRunLoopWakeUp(t) ==
    /\ waker[t] /\ Unlocked
    /\ waker' = [waker EXCEPT ![t] = FALSE]
    /\ messages' = IF IgnoringWakeUps THEN messages ELSE messages \union {WakeUpPort}
    /\ UNCHANGED <<stack, blocks, signaled, modeStopped, calls, runs>>

-----------------------------------------------------------------------------
(* Specification *)

Owner ==
    \/ CallOutReturns
    \/ DetachBlocks \/ DoBlock \/ EndBlocks
    \/ DoSource0 \/ EndSources0
    \/ ServiceMachPort \/ AfterWaiting \/ HandleMessage
    \/ EndTurn

Next ==
    \/ Owner
    \/ \E m \in Mode : Run(m)
    \/ \E t \in Thread :
           \/ \E m \in Mode : CFRunLoopPerformBlock(t, m) \/ _CFRunLoopStopMode(t, m)
           \/ \E s \in Source0 : CFRunLoopSourceSignal(t, s)
           \/ \E p \in Source1 : SendMessage(t, p)
           \/ CFRunLoopStop(t)
    \/ \E d \in DOMAIN stack : __CFRunLoopTimeout(d)
    \/ \E t \in Thread \union {Timer} : CFRunLoopWakeUp(t)

Spec == Init /\ [][Next]_vars

\* Callouts return, timers fire, and a thread that is about to wake up the loop
\* does so: it contends for a lock the loop gives up again and again.
Fairness ==
    /\ WF_vars(Owner)
    /\ WF_vars(\E d \in DOMAIN stack : __CFRunLoopTimeout(d))
    /\ \A t \in Thread \union {Timer} : SF_vars(CFRunLoopWakeUp(t))

FairSpec == Spec /\ Fairness

-----------------------------------------------------------------------------
(* Properties *)

\* The type of every variable, and of the activations what they hold.
TypeOK ==
    /\ Depth <= MaxDepth
    /\ \A d \in 1 .. Depth :
           LET f == stack[d]
           IN  /\ f.mode \in Mode
               /\ f.pc \in {"callout", "blocks", "items", "sources", "sleep", "woken",
                           "handle", "check"}
               /\ d < Depth => f.pc = "callout"
               /\ f.timeout \in {"none", "armed", "fired"} /\ f.sources \subseteq Source0
               /\ f.items \in Seq(Mode) /\ f.kept \in Seq(Mode \ {f.mode})
               /\ f.livePort \in Source1 \union {MACH_PORT_NULL, WakeUpPort}
    /\ blocks \in Seq(Mode) /\ modeStopped \subseteq Mode
    /\ signaled \subseteq Source0 /\ messages \subseteq Source1 \union {WakeUpPort}
    /\ waker \in [Thread \union {Timer} -> BOOLEAN]

\* "we don't want to lose a wakeup": a run sleeps without end only if nothing is
\* to be done for it, or a wake-up is on its way: there is no signaled source and
\* no block of its mode, it was not stopped, nor has its time passed.
NoWakeUpLost ==
    At("sleep") /\ ~Top.poll /\ WakeUpPort \notin messages /\ (\A t \in DOMAIN waker : ~waker[t]) =>
        /\ \A s \in signaled : modeOf[s] # Top.mode
        /\ \A i \in DOMAIN blocks : blocks[i] # Top.mode
        /\ ~Top.stopped /\ Top.mode \notin modeStopped /\ Top.timeout # "fired"

\* CFRunLoopStop ends the run it finds, and a timeout the run it is of: as calls
\* and runs are bounded, in the end none is left that should be over.
StoppedRunEnds ==
    (\E d \in 1 .. Depth : stack[d].stopped \/ stack[d].timeout = "fired") ~>
        (\A d \in 1 .. Depth : ~stack[d].stopped /\ stack[d].timeout # "fired")

\* The sources of the mode that are signaled are performed, unless the loop ends.
SignalServed ==
    (Depth > 0 /\ \E s \in signaled : modeOf[s] = stack[1].mode) ~>
        (Depth > 0 => \A s \in signaled : modeOf[s] # stack[1].mode)
=============================================================================
