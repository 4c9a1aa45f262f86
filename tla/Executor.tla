------------------------------ MODULE Executor ------------------------------
(***************************************************************************)
(* Several Executors on one thread, each of them tied to an event loop.    *)
(*                                                                         *)
(* The call stack of the thread is a variable.  Its frames are the         *)
(* callbacks that are executing ("call"), drain() and, while it runs the   *)
(* function it was passed, capture().  What user code calls, it calls from *)
(* the innermost callback, from the function passed to capture(), or from  *)
(* the event loop when the stack is empty.                                 *)
(***************************************************************************)
EXTENDS Queue, FiniteSets

CONSTANTS
  Executors, None,
  EventLoops,
  Capacity,      \* of a new list of tasks
  MaxCalls,      \* bound: callbacks that are submitted
  MaxCaptures,   \* bound: calls of capture() in progress
  MaxDrains      \* bound: explicit calls of drain()

ASSUME ExecutorAssumption ==
  /\ IsFiniteSet(Executors) /\ None \notin Executors
  /\ Capacity \in Nat /\ MaxCalls \in Nat /\ MaxCaptures \in Nat /\ MaxDrains \in Nat

VARIABLES
  eventLoopID, \* Executor::eventLoopID_
  live,        \* the executors that exist
  lists,       \* lists[e] is buffer_ of executor e, lists[n] that of the n-th capture()
  ready,       \* ready[e]: the list that ready_ points to
  running,     \* running[e]: the drain() whose flag running_ points to, 0 for nullptr
  scheduled,   \* scheduled[e]: scheduled_, None for nullptr
  current,     \* current()
  stack,
  calls,       \* history: callbacks submitted so far
  begun,       \* history: those that have begun
  drains,      \* history: explicit calls of drain()
  kept,        \* history: executors destroyed while something else still needed them
  dropped,     \* history: callbacks that were destroyed with a captured list
  missed       \* history: executors whose turn came during capture() and was spent on its list

history == <<calls, begun, drains, kept, dropped>>
vars == <<eventLoopID, live, lists, ready, running, scheduled, current, stack, missed, history>>

\* A callback is a number, in the order of submission; what an executor submits to another
\* is the name of the executor to run.
Tmp == 1..MaxCaptures

Init ==
  /\ eventLoopID \in [Executors -> EventLoops]
  /\ live = Executors
  /\ lists = [l \in Executors \cup Tmp |-> NewQueue(Capacity)]
  /\ ready = [e \in Executors |-> e]
  /\ running = [e \in Executors |-> 0]
  /\ scheduled = [e \in Executors |-> None]
  /\ current = None /\ stack = <<>>
  /\ calls = 0 /\ begun = {} /\ drains = 0
  /\ kept = {} /\ dropped = {} /\ missed = {}

-----------------------------------------------------------------------------

Depth == Len(stack)
Top == stack[Depth]

\* The calls of capture() in progress, by their lists.
Captures == {stack[d].list : d \in {d \in 1..Depth : stack[d].kind # "call"}} \cap Tmp

\* User code has the thread, or the function passed to capture().  That resumes a task or
\* schedules callbacks, in CBPortal and in Nursery; it does nothing else with executors.
Free == stack # <<>> => Top.kind = "call"
Draining == stack # <<>> /\ Top.kind = "drain"
Capturing == stack # <<>> /\ Top.kind = "capture"

\* drain(tasks): a frame for it, and what it does before its loop.
BeginDrain(e, list, why, below) ==
  LET flag == IF running[e] = 0 THEN Len(below) + 1 ELSE running[e]
  IN /\ stack' = Append(below, [kind |-> "drain", ex |-> e, list |-> list, why |-> why,
                                prev |-> current, flag |-> flag, alive |-> TRUE])
     /\ running' = [running EXCEPT ![e] = flag]
     /\ current' = e
     /\ missed' = IF list = e THEN missed \ {e} ELSE IF Draining THEN missed \cup {e} ELSE missed

\* schedule(): x goes to the list that ready_ of executor e points to.
Scheduled(ls, e, x) == [ls EXCEPT ![ready[e]] = push_back(@, x)]

Slated(e) == running[e] # 0 \/ scheduled[e] # None

\* FAULT: an executor runs its callbacks at once unless it runs already.
WaitsNever(e) == FALSE

\* Whether another executor is running for the same event loop: it is asked, so it exists.
Known == current \in live \cup {None}
Waits(e) == current # None /\ eventLoopID[current] = eventLoopID[e]

\* runSoon(), when the lists are ls.
RunSoon(e, ls, below) ==
  \/ /\ Slated(e)
     /\ lists' = ls /\ stack' = below
     /\ UNCHANGED <<running, scheduled, current, missed>>
  \/ /\ ~Slated(e) /\ Known /\ Waits(e)
     /\ scheduled' = [scheduled EXCEPT ![e] = current]
     /\ lists' = Scheduled(ls, current, e) /\ stack' = below
     /\ UNCHANGED <<running, current, missed>>
  \/ /\ ~Slated(e) /\ Known /\ ~Waits(e)
     /\ lists' = ls
     /\ BeginDrain(e, ready[e], "runOnce", below)
     /\ UNCHANGED scheduled

\* runSoon(c).
runSoon(e) ==
  /\ ~Draining /\ (stack # <<>> => Top.kind # "doCancel")
  /\ e \in live /\ calls < MaxCalls
  /\ calls' = calls + 1
  /\ RunSoon(e, Scheduled(lists, e, calls + 1), stack)
  /\ UNCHANGED <<eventLoopID, live, ready, begun, drains, kept, dropped>>

\* drain(), after schedule(c) as in UnsafeNursery::close() or by itself as in run().
drain(e, c) ==
  /\ Free /\ e \in live /\ drains < MaxDrains /\ calls + c <= MaxCalls
  /\ drains' = drains + 1 /\ calls' = calls + c
  /\ lists' = IF c = 1 THEN Scheduled(lists, e, calls + 1) ELSE lists
  /\ BeginDrain(e, ready[e], "drain", stack)
  /\ UNCHANGED <<eventLoopID, live, ready, scheduled, begun, kept, dropped>>

\* The list of the next capture().
Fresh == Cardinality(Captures) + 1

\* capture(fn): until fn is called.
capture(e) ==
  /\ Free /\ e \in live /\ Fresh \in Tmp
  /\ stack' = Append(stack, [kind |-> "capture", ex |-> e, list |-> Fresh,
                             why |-> "capture", old |-> ready[e]])
  /\ ready' = [ready EXCEPT ![e] = Fresh]
  /\ UNCHANGED <<eventLoopID, live, lists, running, scheduled, current, missed, history>>

\* NurseryBase::doCancel(): capture() with a function that schedules the cancellation of c
\* tasks, and then runSoon().
doCancel(e, c) ==
  /\ Free /\ e \in live /\ Fresh \in Tmp /\ calls + c <= MaxCalls
  /\ calls' = calls + c
  /\ lists' = [lists EXCEPT ![Fresh] = append(@, [i \in 1..c |-> calls + i])]
  /\ BeginDrain(e, Fresh, "capture",
                Append(stack, [kind |-> "doCancel", ex |-> e, list |-> None, why |-> "doCancel"]))
  /\ UNCHANGED <<eventLoopID, live, ready, scheduled, begun, drains, kept, dropped>>

\* FAULT: the executor is not run after the captured list.
ThenRunsNever(e) ==
  /\ stack' = SubSeq(stack, 1, Depth - 1)
  /\ UNCHANGED <<lists, running, scheduled, current, missed>>

ThenRuns(e) == RunSoon(e, lists, SubSeq(stack, 1, Depth - 1))

Cancelled ==
  /\ stack # <<>> /\ Top.kind = "doCancel" /\ Top.ex \in live
  /\ ThenRuns(Top.ex)
  /\ UNCHANGED <<eventLoopID, live, ready, history>>

\* fn has returned: the two guards.
Captured ==
  /\ Capturing /\ Top.ex \in live
  /\ ready' = [ready EXCEPT ![Top.ex] = Top.old]
  /\ BeginDrain(Top.ex, Top.list, "capture", SubSeq(stack, 1, Depth - 1))
  /\ UNCHANGED <<eventLoopID, live, lists, scheduled, history>>

\* FAULT: all that the other executor has to do is taken back.
ForgottenAll(ls, e) ==
  IF scheduled[e] = None THEN ls
  ELSE [ls EXCEPT ![scheduled[e]] = replace_items(@, Executors \cup 1..MaxCalls, None)]

\* FAULT: what the executor has asked of another is left there.
ForgottenNever(ls, e) == ls

\* What an executor that is destroyed has asked of another is taken back.
Forgotten(ls, e) ==
  IF scheduled[e] = None THEN ls
  ELSE [ls EXCEPT ![scheduled[e]] = replace_items(@, {e}, None)]

\* The callbacks in list l.
Pending(l) == {x \in {Contents(lists[l])[k] : k \in 1..lists[l].size} : x \in 1..MaxCalls}

\* The captured lists of executor e that have not been worked off.
Unfinished(e) ==
  {l \in Captures :
     /\ lists[l].size > 0
     /\ \E d \in 1..Depth : stack[d].kind # "call" /\ stack[d].ex = e /\ stack[d].list = l}

\* What ~Executor() does not look at: a drain() that will make e the current executor again,
\* a capture() or doCancel() that will go on with e, and captured lists, of e with anything
\* in them or of others with the turn of e.
StillNeeded(e) ==
  \/ \E d \in 1..Depth : stack[d].kind = "drain" /\ stack[d].prev = e
  \/ \E d \in 1..Depth : stack[d].kind \in {"capture", "doCancel"} /\ stack[d].ex = e
  \/ Unfinished(e) # {}
  \/ \E l \in Captures : \E k \in 1..lists[l].size : Contents(lists[l])[k] = e

\* ~Executor().
Destroy(e) ==
  /\ Free /\ e \in live /\ lists[e].size = 0 /\ scheduled[e] \in live \cup {None}
  /\ live' = live \ {e}
  /\ lists' = Forgotten(lists, e)
  /\ stack' = IF running[e] = 0 THEN stack ELSE [stack EXCEPT ![running[e]].alive = FALSE]
  /\ current' = IF current = e THEN None ELSE current
  /\ running' = [running EXCEPT ![e] = 0]
  /\ scheduled' = [scheduled EXCEPT ![e] = None]
  /\ kept' = IF StillNeeded(e) THEN kept \cup {e} ELSE kept
  /\ dropped' = dropped \cup UNION {Pending(l) : l \in Unfinished(e)}
  /\ UNCHANGED <<eventLoopID, ready, calls, begun, drains, missed>>

-----------------------------------------------------------------------------
(* Inside drain().                                                         *)

Alive == stack[Top.flag].alive

\* One turn of the loop: a callback begins, or runOnce() of another executor.
DrainNext ==
  /\ Draining /\ Alive /\ lists[Top.list].size > 0
  /\ lists' = [lists EXCEPT ![Top.list] = pop_front(@)]
  /\ LET x == front(lists[Top.list])
     IN \/ /\ x \in 1..MaxCalls
           /\ stack' = Append(stack, [kind |-> "call", ex |-> Top.ex])
           /\ begun' = begun \cup {x}
           /\ UNCHANGED <<running, scheduled, current, missed>>
        \/ /\ x \in live /\ running[x] = 0
           /\ scheduled' = [scheduled EXCEPT ![x] = None]
           /\ BeginDrain(x, ready[x], "runOnce", stack)
           /\ UNCHANGED begun
        \/ /\ x \in live /\ running[x] # 0
           /\ scheduled' = [scheduled EXCEPT ![x] = None]
           /\ missed' = IF stack[running[x]].why = "capture" THEN missed \cup {x} ELSE missed
           /\ UNCHANGED <<running, current, stack, begun>>
        \/ /\ x = None
           /\ UNCHANGED <<running, scheduled, current, stack, begun, missed>>
  /\ UNCHANGED <<eventLoopID, live, ready, calls, drains, kept, dropped>>

\* The loop is over; the guards.  The list of a capture() is destroyed with it.
DrainEnds ==
  /\ Draining /\ (~Alive \/ lists[Top.list].size = 0)
  /\ current' = Top.prev
  /\ running' = IF Alive /\ running[Top.ex] = Depth THEN [running EXCEPT ![Top.ex] = 0] ELSE running
  /\ stack' = SubSeq(stack, 1, Depth - 1)
  /\ lists' = IF Top.why = "capture" THEN [lists EXCEPT ![Top.list] = NewQueue(Capacity)] ELSE lists
  /\ UNCHANGED <<eventLoopID, live, ready, scheduled, missed, history>>

\* A callback returns to drain().
Return ==
  /\ stack # <<>> /\ Top.kind = "call"
  /\ stack' = SubSeq(stack, 1, Depth - 1)
  /\ UNCHANGED <<eventLoopID, live, lists, ready, running, scheduled, current, missed, history>>

\* The next step is one of an executor that is gone.
Dangling ==
  \/ Draining /\ Alive /\ lists[Top.list].size > 0 /\ front(lists[Top.list]) \in Executors \ live
  \/ stack # <<>> /\ Top.kind \in {"capture", "doCancel"} /\ (Top.ex \notin live \/ ~Known)

\* The event loop waits, or the behaviour of the program is undefined.
Idle == (stack = <<>> \/ Dangling) /\ UNCHANGED vars

Next ==
  \/ DrainNext \/ DrainEnds \/ Return \/ Captured \/ Cancelled \/ Idle
  \/ \E e \in Executors :
       \/ runSoon(e) \/ capture(e) \/ Destroy(e)
       \/ \E c \in {0, 1} : drain(e, c)
       \/ \E c \in {1, 2} : doCancel(e, c)

Spec == Init /\ [][Next]_vars

-----------------------------------------------------------------------------

\* The executors that are left behind: those destroyed with a captured list still to do,
\* those that missed their turn, and those that wait in one of these.
Behind ==
  LET B[n \in 0..Cardinality(Executors)] ==
        IF n = 0 THEN kept \cup missed
        ELSE B[n - 1] \cup {e \in live : scheduled[e] \in B[n - 1]}
  IN B[Cardinality(Executors)]

\* When the thread returns to the event loop no executor is taken for running and none
\* waits: every list is empty, and no executor waits for its turn in another one.  The
\* exceptions are an executor whose turn an explicit drain() of another gives it inside its
\* own capture(), where runOnce() forgets the turn and runs nothing or the captured list,
\* one that was destroyed while something else still needed it, and those that wait in one
\* of the two.
Drained ==
  stack = <<>> =>
    /\ current = None
    /\ \A e \in live : /\ running[e] = 0
                       /\ scheduled[e] \in Behind \cup {None}
                       /\ lists[e].size = 0 \/ e \in Behind

\* Callbacks of one event loop are not nested: one begins inside another only if that has
\* called capture() or drain(), destroyed the executor it belongs to, or called something of
\* another event loop that does so.
NotNested ==
  \A j, k \in 1..Depth :
    /\ j < k /\ stack[j].kind = "call" /\ stack[k].kind = "call"
    /\ \A d \in (j + 1)..(k - 1) : stack[d].kind # "call"
    /\ stack[j].ex \in live /\ eventLoopID[stack[j].ex] = eventLoopID[stack[k].ex]
    => \E d \in (j + 1)..(k - 1) : stack[d].why \in {"capture", "drain"}

\* Nobody holds on to an executor that is gone: not current(), not scheduled_ of another,
\* and no callback that would run it.  ~Executor() sees to it for buffer_ of the executor it
\* waits in, and if it is the current one; the executors that something else still needed,
\* as StillNeeded says, are all that may be held on to.
NoStaleExecutor ==
  LET Held == live \cup kept
  IN /\ current \in Held \cup {None}
     /\ \A e \in live : scheduled[e] \in Held \cup {None}
     /\ \A l \in DOMAIN lists : \A k \in 1..lists[l].size :
          Contents(lists[l])[k] \in Executors => Contents(lists[l])[k] \in Held

\* Each callback begins once, and those of one list in the order they were submitted,
\* whatever is captured, drained or destroyed in between.  Only what is in a captured list
\* when its executor is destroyed never begins.
EachOnceInOrder ==
  LET pending == UNION {Pending(l) : l \in DOMAIN lists}
  IN /\ pending \cap begun = {} /\ (1..calls) \ (pending \cup begun) \subseteq dropped
     /\ dropped \cap begun = {}
     /\ \A l, m \in DOMAIN lists : l # m => Pending(l) \cap Pending(m) = {}
     /\ \A l \in DOMAIN lists : \A j, k \in 1..lists[l].size :
          LET c == Contents(lists[l])
          IN j < k /\ c[j] \in 1..MaxCalls /\ c[k] \in 1..MaxCalls => c[j] < c[k]
=============================================================================
