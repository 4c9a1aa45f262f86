----------------------------- MODULE ThreadPool -----------------------------
(***************************************************************************)
(* corral::ThreadPool: the only part of the library in which threads race. *)
(*                                                                         *)
(* The main thread runs the event loop: it submits functions, is told by   *)
(* tick() of those that have completed, and resumes their awaiting tasks,  *)
(* whose code may use the pool again or destroy it.  Worker threads claim  *)
(* slots of the submission queue, wait for a function there, run it and    *)
(* push it to the completion queue.                                        *)
(*                                                                         *)
(* An action is one access to memory shared between threads, together with *)
(* the thread-local code around it; accesses are sequentially consistent.  *)
(* The CAS loop of pushToCQ() is one action, the CAS that succeeds: the    *)
(* head it compares with is the head it links to.                          *)
(***************************************************************************)
EXTENDS Naturals, Sequences, FiniteSets, Functions

CONSTANTS
  Calls,      \* bound: how often run() is called
  Workers,    \* Data::threads
  Capacity,   \* Data::sqCapacity
  Stride,
  Width,      \* sqHead and sqTail are counted modulo Width (2^64 in the code)
  Empty,      \* a null Slot::task
  Exit        \* ExitRequest

\* Tasks are numbered in the order in which run() is called.
Tasks == 1..Calls

ASSUME ThreadPoolAssumption ==
  /\ Calls \in Nat /\ IsFiniteSet(Workers)
  /\ Capacity \in Nat \ {0} /\ Cardinality(Workers) =< Capacity
  /\ Stride \in Nat /\ Width \in Nat \ {0} /\ Width % Capacity = 0
  /\ \A k \in 1..(Capacity - 1) : (k * Stride) % Capacity # 0  \* they are mutually prime
  /\ Empty \notin Tasks /\ Exit \notin Tasks /\ Empty # Exit

Slots == 0..(Capacity - 1)

VARIABLES
  slot, dequeuing,  \* Slot::task, Slot::dequeuing
  sqHead, sqTail,
  backoff,          \* the list at backoffSqHead
  cq,               \* the list at cqHead, newest first
  ticks,            \* tick() events posted and not run yet
  mpc,              \* where the main thread is: "idle" in the event loop; in
                    \* drainCQ() before the "exchange", in the "list" or in
                    \* "user" code resumed from there; in submitBackoffSQ();
                    \* or "stale", in a tick() of a pool that is gone
  pushing,          \* the main thread is in pushToSQ(), past the CAS
  batch,            \* what drainCQ() has yet to resume
  destroying, exits,  \* ~ThreadPool() is running; exit requests it has made
  alive,            \* the ThreadPool object exists
  wpc, claimed, held, \* where a worker is, the slot and the task it has
  st,               \* st[t]: "new", "submitted", "resumed" or "cancelled"
  cancelState,      \* TaskImpl::cancelState_
  taken             \* history: tasks whose CancelToken confirmed a cancellation

mainVars   == <<mpc, pushing, batch, destroying, exits, alive, backoff, sqTail>>
workerVars == <<wpc, claimed, held, sqHead>>
taskVars   == <<st, cancelState, taken>>
vars == <<slot, dequeuing, cq, ticks, mainVars, workerVars, taskVars>>

TypeOK ==
  /\ slot \in [Slots -> Tasks \cup {Empty, Exit}]
  /\ dequeuing \in [Slots -> BOOLEAN]
  /\ sqHead \in 0..(Width - 1) /\ sqTail \in 0..(Width - 1)
  /\ backoff \in Seq(Tasks) /\ cq \in Seq(Tasks) /\ batch \in Seq(Tasks)
  /\ ticks \in Nat
  /\ mpc \in {"idle", "exchange", "list", "user", "backoff", "stale"}
  /\ pushing \in BOOLEAN /\ destroying \in BOOLEAN /\ alive \in BOOLEAN
  /\ exits \in 0..Cardinality(Workers)
  /\ wpc \in [Workers -> {"pop", "take", "flag", "wait", "asleep", "unflag",
                          "run", "post", "exited"}]
  /\ claimed \in [Workers -> Slots]
  /\ held \in [Workers -> Tasks \cup {Empty, Exit}]
  /\ st \in [Tasks -> {"new", "submitted", "resumed", "cancelled"}]
  /\ cancelState \in [Tasks -> {"None", "Requested", "Confirmed"}]
  /\ taken \subseteq Tasks

\* The pool has been constructed and its threads have been started.
Init ==
  /\ slot = [i \in Slots |-> Empty] /\ dequeuing = [i \in Slots |-> FALSE]
  /\ sqHead = 0 /\ sqTail = 0
  /\ backoff = <<>> /\ cq = <<>> /\ batch = <<>>
  /\ ticks = 0 /\ mpc = "idle" /\ pushing = FALSE
  /\ destroying = FALSE /\ exits = 0 /\ alive = TRUE
  /\ wpc = [w \in Workers |-> "pop"]
  /\ claimed = [w \in Workers |-> 0] /\ held = [w \in Workers |-> Empty]
  /\ st = [t \in Tasks |-> "new"]
  /\ cancelState = [t \in Tasks |-> "None"] /\ taken = {}
-----------------------------------------------------------------------------

Advance(n) == (n + Stride) % Width
Index(n) == n % Capacity

Full == slot[Index(sqTail)] # Empty

\* The CAS of pushToSQ(), which finds the slot free.
PushCAS(x) ==
  /\ ~Full
  /\ slot' = [slot EXCEPT ![Index(sqTail)] = x]
  /\ pushing' = TRUE

\* The rest of pushToSQ(): look at dequeuing, notify, advance the tail.
PushNotify ==
  /\ pushing /\ pushing' = FALSE
  /\ sqTail' = Advance(sqTail)
  /\ LET i == Index(sqTail)
         sleepers == {w \in Workers : wpc[w] = "asleep" /\ claimed[w] = i}
     IN  \/ /\ dequeuing[i] /\ \E w \in sleepers : wpc' = [wpc EXCEPT ![w] = "wait"]
         \/ /\ ~dequeuing[i] \/ sleepers = {}
            /\ UNCHANGED wpc
  /\ UNCHANGED <<slot, dequeuing, cq, ticks, mpc, batch, destroying, exits, alive,
                 backoff, claimed, held, sqHead, taskVars>>

\* The main thread is at a place from which user code calls the pool.
MainMayCall == mpc \in {"idle", "user"} /\ ~pushing /\ ~destroying /\ alive

\* TaskImpl::await_suspend(), with pushToBackoffSQ().
Run(t) ==
  /\ MainMayCall /\ st[t] = "new" /\ \A u \in 1..(t - 1) : st[u] # "new"
  /\ st' = [st EXCEPT ![t] = "submitted"]
  /\ \/ PushCAS(t) /\ UNCHANGED backoff
     \/ Full /\ backoff' = Append(backoff, t) /\ UNCHANGED <<slot, pushing>>
  /\ UNCHANGED <<dequeuing, cq, ticks, mpc, batch, destroying, exits, alive, sqTail,
                 workerVars, cancelState, taken>>

\* TaskImpl::await_cancel().
Cancel(t) ==
  /\ MainMayCall /\ st[t] = "submitted" /\ cancelState[t] = "None"
  /\ cancelState' = [cancelState EXCEPT ![t] = "Requested"]
  /\ UNCHANGED <<slot, dequeuing, cq, ticks, mainVars, workerVars, st, taken>>
-----------------------------------------------------------------------------
(***************************************************************************)
(* The event loop runs tick().                                             *)
(***************************************************************************)
Tick ==
  /\ mpc = "idle" /\ ~pushing /\ ~destroying
  /\ ticks > 0 /\ ticks' = ticks - 1
  /\ mpc' = IF alive THEN "exchange" ELSE "stale"
  /\ UNCHANGED <<slot, dequeuing, cq, pushing, batch, destroying, exits, alive,
                 backoff, sqTail, workerVars, taskVars>>

\* drainCQ() reverses the list it has taken.
Batch(c) == [i \in 1..Len(c) |-> c[(Len(c) - i) + 1]]

\* drainCQ(): cqHead.exchange(nullptr).
Exchange ==
  /\ mpc = "exchange"
  /\ mpc' = IF cq = <<>> THEN "backoff" ELSE "list"
  /\ cq' = <<>> /\ batch' = Batch(cq)
  /\ UNCHANGED <<slot, dequeuing, ticks, pushing, destroying, exits, alive, backoff,
                 sqTail, workerVars, taskVars>>

\* FAULT: a request that was not confirmed is honoured, a confirmed one is not.
MustResumeConfirmed(t) == cancelState[t] # "Requested"

\* TaskImpl::await_must_resume().
MustResume(t) == cancelState[t] # "Confirmed"

\* drainCQ(): the next task of the list is resumed, or the list is at its end.
ResumeParent ==
  /\ mpc = "list"
  /\ \/ /\ batch # <<>>
        /\ mpc' = "user" /\ batch' = Tail(batch)
        /\ LET t == Head(batch)
           IN  st' = [st EXCEPT ![t] = IF cancelState[t] # "None" /\ ~MustResume(t)
                                       THEN "cancelled" ELSE "resumed"]
     \/ /\ batch = <<>>
        /\ mpc' = "exchange" /\ UNCHANGED <<batch, st>>
  /\ UNCHANGED <<slot, dequeuing, cq, ticks, pushing, destroying, exits, alive,
                 backoff, sqTail, workerVars, cancelState, taken>>

\* The code resumed by drainCQ() is done for now.
UserReturns ==
  /\ mpc = "user" /\ ~pushing /\ ~destroying
  /\ mpc' = "list"
  /\ UNCHANGED <<slot, dequeuing, cq, ticks, pushing, batch, destroying, exits, alive,
                 backoff, sqTail, workerVars, taskVars>>

\* FAULT: tick() forgets the backoff queue.
RetryNever == FALSE

\* submitBackoffSQ() has something to submit and room for it.
Retry == backoff # <<>> /\ ~Full

\* The end of tick(): one turn of the loop in submitBackoffSQ(), or return.
SubmitBackoffSQ ==
  /\ mpc = "backoff" /\ ~pushing
  /\ \/ /\ Retry
        /\ PushCAS(Head(backoff)) /\ backoff' = Tail(backoff) /\ UNCHANGED mpc
     \/ /\ ~Retry
        /\ mpc' = "idle" /\ UNCHANGED <<slot, pushing, backoff>>
  /\ UNCHANGED <<dequeuing, cq, ticks, batch, destroying, exits, alive, sqTail,
                 workerVars, taskVars>>
-----------------------------------------------------------------------------
(***************************************************************************)
(* ~ThreadPool(), called when no call of run() is outstanding.             *)
(***************************************************************************)
Destroy ==
  /\ MainMayCall /\ \A t \in Tasks : st[t] # "submitted"
  /\ destroying' = TRUE
  /\ UNCHANGED <<slot, dequeuing, cq, ticks, mpc, pushing, batch, exits, alive,
                 backoff, sqTail, workerVars, taskVars>>

PushExit ==
  /\ destroying /\ ~pushing /\ exits < Cardinality(Workers)
  /\ exits' = exits + 1
  /\ PushCAS(Exit) \/ (Full /\ UNCHANGED <<slot, pushing>>)
  /\ UNCHANGED <<dequeuing, cq, ticks, mpc, batch, destroying, alive, backoff, sqTail,
                 workerVars, taskVars>>

Joined == \A w \in Workers : wpc[w] = "exited"

Join ==
  /\ destroying /\ ~pushing /\ exits = Cardinality(Workers) /\ Joined
  /\ destroying' = FALSE /\ alive' = FALSE
  /\ UNCHANGED <<slot, dequeuing, cq, ticks, mpc, pushing, batch, exits, backoff,
                 sqTail, workerVars, taskVars>>
-----------------------------------------------------------------------------
(***************************************************************************)
(* A worker thread: threadBody(), popFromSQ(), pushToCQ().                 *)
(***************************************************************************)
Claim(w) ==
  /\ wpc[w] = "pop"
  /\ claimed' = [claimed EXCEPT ![w] = Index(sqHead)]
  /\ sqHead' = Advance(sqHead)
  /\ wpc' = [wpc EXCEPT ![w] = "take"]
  /\ UNCHANGED <<slot, dequeuing, cq, ticks, mainVars, held, taskVars>>

\* FAULT: the task is read and left in its slot.
TakenOut(i) == slot

\* The slots after slot i has been exchanged with nullptr.
Emptied(i) == [slot EXCEPT ![i] = Empty]

\* What a worker does with what it has found in its slot.
AfterTake(x) ==
  CASE x = Empty -> "flag" [] x = Exit -> "exited" [] OTHER -> "run"

\* task.exchange(nullptr), before or while spinning.
Take(w) ==
  /\ wpc[w] = "take"
  /\ LET x == slot[claimed[w]]
     IN  /\ held' = [held EXCEPT ![w] = x]
         /\ wpc' = [wpc EXCEPT ![w] = AfterTake(x)]
  /\ slot' = Emptied(claimed[w])
  /\ UNCHANGED <<dequeuing, cq, ticks, mainVars, claimed, sqHead, taskVars>>

\* FAULT: the worker sleeps without another look at its slot.
FlagAndSleep(w) ==
  /\ wpc[w] = "flag"
  /\ dequeuing' = [dequeuing EXCEPT ![claimed[w]] = TRUE]
  /\ wpc' = [wpc EXCEPT ![w] = "asleep"]
  /\ UNCHANGED <<slot, cq, ticks, mainVars, claimed, held, sqHead, taskVars>>

Flag(w) ==
  /\ wpc[w] = "flag"
  /\ dequeuing' = [dequeuing EXCEPT ![claimed[w]] = TRUE]
  /\ wpc' = [wpc EXCEPT ![w] = "wait"]
  /\ UNCHANGED <<slot, cq, ticks, mainVars, claimed, held, sqHead, taskVars>>

\* task.wait(nullptr): compare and go to sleep are one step for notify_one().
Wait(w) ==
  /\ wpc[w] = "wait"
  /\ wpc' = [wpc EXCEPT ![w] = IF slot[claimed[w]] = Empty THEN "asleep" ELSE "unflag"]
  /\ UNCHANGED <<slot, dequeuing, cq, ticks, mainVars, claimed, held, sqHead, taskVars>>

Unflag(w) ==
  /\ wpc[w] = "unflag"
  /\ dequeuing' = [dequeuing EXCEPT ![claimed[w]] = FALSE]
  /\ wpc' = [wpc EXCEPT ![w] = "take"]
  /\ UNCHANGED <<slot, cq, ticks, mainVars, claimed, held, sqHead, taskVars>>

\* The function looks at its CancelToken, or calls consume(), and there is a
\* request to confirm.
Confirm(w) ==
  /\ wpc[w] = "run" /\ held[w] \in Tasks /\ cancelState[held[w]] = "Requested"
  /\ cancelState' = [cancelState EXCEPT ![held[w]] = "Confirmed"]
  /\ taken' = taken \cup {held[w]}
  /\ UNCHANGED <<slot, dequeuing, cq, ticks, mainVars, workerVars, st>>

\* pushToCQ() notifies the main thread if the list was empty.
Notifies(c) == c = <<>>

\* The function returns: pushToCQ().
PushToCQ(w) ==
  /\ wpc[w] = "run"
  /\ cq' = <<held[w]>> \o cq
  /\ held' = [held EXCEPT ![w] = Empty]
  /\ wpc' = [wpc EXCEPT ![w] = IF Notifies(cq) THEN "post" ELSE "pop"]
  /\ UNCHANGED <<slot, dequeuing, ticks, mainVars, claimed, sqHead, st, cancelState,
                 taken>>

\* notification->post(&ThreadPool::tick, this).
Post(w) ==
  /\ wpc[w] = "post"
  /\ ticks' = ticks + 1
  /\ wpc' = [wpc EXCEPT ![w] = "pop"]
  /\ UNCHANGED <<slot, dequeuing, cq, mainVars, claimed, held, sqHead, taskVars>>
-----------------------------------------------------------------------------
\* The event loop has nothing to run.
Poll ==
  /\ mpc = "stale" \/ (mpc = "idle" /\ ~pushing /\ ~destroying /\ ticks = 0)
  /\ UNCHANGED vars

MainStep ==
  \/ PushNotify \/ Tick \/ Exchange \/ ResumeParent \/ UserReturns
  \/ SubmitBackoffSQ \/ PushExit \/ Join

WorkerStep(w) ==
  \/ Claim(w) \/ Take(w) \/ Flag(w) \/ Wait(w) \/ Unflag(w)
  \/ PushToCQ(w) \/ Post(w)

Next ==
  \/ MainStep \/ Destroy \/ Poll
  \/ \E t \in Tasks : Run(t) \/ Cancel(t)
  \/ \E w \in Workers : WorkerStep(w) \/ Confirm(w)

Spec == Init /\ [][Next]_vars

\* Every thread is scheduled, functions return, and so does user code.
Fairness ==
  WF_vars(MainStep) /\ \A w \in Workers : WF_vars(WorkerStep(w))

FairSpec == Spec /\ Fairness
-----------------------------------------------------------------------------
Count(S) == Cardinality(S)
Places(t) ==
  Count({i \in Slots : slot[i] = t}) + Count({w \in Workers : held[w] = t})
  + Count({i \in DOMAIN backoff : backoff[i] = t})
  + Count({i \in DOMAIN cq : cq[i] = t}) + Count({i \in DOMAIN batch : batch[i] = t})

\* A submitted task is in one place: a slot, the backoff queue, a worker's hands,
\* the completion queue or the list drainCQ() has taken; other tasks are nowhere.
OnePlace == \A t \in Tasks : Places(t) = IF st[t] = "submitted" THEN 1 ELSE 0

\* The state is well typed, and every submitted task is in one place.  Nothing is
\* lost and no function runs twice, although workers may overtake each other in a slot.  The
\* assertions of ~ThreadPool() hold: there is room for the exit requests, and when
\* the threads have been joined nothing is left in any queue.
EachTaskOnce ==
  /\ TypeOK
  /\ destroying => backoff = <<>>
  /\ destroying /\ ~pushing /\ exits < Count(Workers) => ~Full
  /\ ~alive => sqHead = sqTail /\ cq = <<>>
  /\ OnePlace

\* Workers that have claimed slot i and taken nothing from it yet.
At(i) == {w \in Workers : claimed[w] = i
                          /\ wpc[w] \in {"take", "flag", "wait", "asleep", "unflag"}}

\* A worker does not sleep beside a task: if there is one in its slot, the main
\* thread is about to see the flag and notify it.
NoLostWakeup ==
  \A w \in Workers :
    wpc[w] = "asleep" /\ slot[claimed[w]] # Empty =>
      pushing /\ Index(sqTail) = claimed[w] /\ dequeuing[claimed[w]]

\* "Once `true` is returned here, the cancellation is considered to have been
\* taken": run() ends as cancelled if, and only if, the function was told.
CancelTokenHonoured ==
  \A t \in Tasks : /\ st[t] = "cancelled" => t \in taken
                   /\ st[t] = "resumed" => t \notin taken

\* Every submitted task is resumed: no completion is left in the queue without a
\* tick() to come, and none is stranded in the backoff queue.  (A task is run()
\* once, so it is enough that time and again none is outstanding.)
EveryTaskResumes ==
  []<>(\A t \in Tasks : st[t] # "submitted")

\* A pool without "any pending or in-progress tasks" may be destroyed: no tick()
\* is run on it afterwards.
NoStaleTick == mpc # "stale"
=============================================================================
