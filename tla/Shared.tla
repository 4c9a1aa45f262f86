------------------------------- MODULE Shared -------------------------------
(***************************************************************************)
(* corral::Shared: one awaitable awaited by several tasks, its parents.    *)
(*                                                                         *)
(* When the awaitable completes, the parents that wait for it are woken:   *)
(* they are scheduled, and it is the first of them to run that fetches the *)
(* result.  In between other tasks may arrive.                             *)
(***************************************************************************)
EXTENDS Naturals, Sequences, FiniteSets, SequencesExt

CONSTANTS
  Parents,   \* tasks that await the Shared, once each
  Kinds,     \* the awaitables there are to choose from
  Early      \* subset of BOOLEAN: the values that early may have

(***************************************************************************)
(* What matters about the awaitable:                                       *)
(*   skip   await_early_cancel() returns true;                             *)
(*   abort  await_cancel() returns true;                                   *)
(*   must   await_must_resume(), should it be asked;                       *)
(*   start  await_ready() is true, await_suspend() throws, or neither;     *)
(*   after  await_ready(), when it has completed.                          *)
(***************************************************************************)
AwaitableKinds == [skip: BOOLEAN, abort: BOOLEAN, must: BOOLEAN,
                   start: {"ready", "throws", "waits"}, after: BOOLEAN]

ASSUME SharedAssumption ==
  IsFiniteSet(Parents) /\ Kinds \subseteq AwaitableKinds /\ Early \subseteq BOOLEAN

VARIABLES
  kind,     \* the awaitable
  early,    \* whether tasks with a pending cancellation await the Shared
  op,       \* its operation: "idle", "running", "done", "taken" (its result was
            \* fetched), or "cancelled"
  misused,  \* what was done to it that an awaiter need not put up with: "no", it was
            \* suspended on "again", or its result was fetched "unready"
  result,   \* State::result_; a value and an exception are both a "Value"
  parents,  \* State::parents_
  ready,    \* parents scheduled on the executor
  st,       \* st[u]: "idle", "waiting", "woken", and in the end "got", "nothing"
            \* (no result to return) or "cancelled"
  cxl       \* cxl[u]: cancellation of u was requested

vars == <<kind, early, op, misused, result, parents, ready, st, cxl>>

TypeOK ==
  /\ kind \in Kinds /\ early \in Early
  /\ op \in {"idle", "running", "done", "taken", "cancelled"}
  /\ misused \in {"no", "again", "unready"}
  /\ result \in {"Incomplete", "CancelPending", "Value", "Cancelling", "Cancelled"}
  /\ parents \in Seq(Parents) /\ ready \in Seq(Parents)
  /\ st \in [Parents -> {"idle", "waiting", "woken", "got", "nothing", "cancelled"}]
  /\ cxl \in [Parents -> BOOLEAN]
  /\ result = "Cancelling" => op = "running"

Init ==
  /\ kind \in Kinds /\ early \in Early
  /\ op = "idle" /\ misused = "no" /\ result = "Incomplete"
  /\ parents = <<>> /\ ready = <<>>
  /\ st = [u \in Parents |-> "idle"] /\ cxl = [u \in Parents |-> FALSE]
-----------------------------------------------------------------------------
AwaitReady ==
  \/ op = "idle" /\ kind.start = "ready"
  \/ op = "done" /\ kind.after

\* FAULT: new arrivals look at the awaitable even if others wait for it.
StateReadyAlone == result # "Incomplete" \/ AwaitReady \/ op = "running"

\* State::ready().
StateReady == result # "Incomplete" \/ (parents = <<>> /\ AwaitReady)

\* State::resultAs(), the first caller fetching the result.
Fetch(u) ==
  \/ /\ result \in {"Incomplete", "CancelPending"}
     /\ result' = "Value" /\ op' = "taken"
     /\ misused' = IF op = "done" \/ (op = "idle" /\ kind.start = "ready")
                   THEN "no" ELSE "unready"
     /\ st' = [st EXCEPT ![u] = "got"]
  \/ /\ result = "Value"
     /\ st' = [st EXCEPT ![u] = "got"]
     /\ UNCHANGED <<op, misused, result>>
  \/ /\ result \in {"Cancelling", "Cancelled"}
     /\ st' = [st EXCEPT ![u] = "nothing"]
     /\ UNCHANGED <<op, misused, result>>

\* State::suspend(), including an await_suspend() that throws.  result is
\* "Incomplete", or the task would not suspend.
Suspend(u) ==
  \/ /\ parents # <<>>
     /\ parents' = Append(parents, u) /\ st' = [st EXCEPT ![u] = "waiting"]
     /\ UNCHANGED <<op, misused, result, ready>>
  \/ /\ parents = <<>> /\ kind.start # "throws"
     /\ parents' = <<u>> /\ st' = [st EXCEPT ![u] = "waiting"]
     /\ op' = "running" /\ misused' = IF op = "idle" THEN "no" ELSE "again"
     /\ UNCHANGED <<result, ready>>
  \/ /\ parents = <<>> /\ kind.start = "throws"
     /\ st' = [st EXCEPT ![u] = "woken"] /\ ready' = Append(ready, u)
     /\ result' = "Value" /\ op' = "taken"
     /\ misused' = IF op = "idle" THEN "no" ELSE "again"
     /\ UNCHANGED parents

\* A task that is not being cancelled awaits the Shared.
Await(u) ==
  /\ misused = "no" /\ st[u] = "idle" /\ ~cxl[u]
  /\ \/ StateReady /\ Fetch(u) /\ UNCHANGED <<parents, ready>>
     \/ ~StateReady /\ Suspend(u)
  /\ UNCHANGED <<kind, early, cxl>>

\* A task with a pending cancellation does: State::earlyCancel(), then ready(),
\* which is true, and mustResume().
AwaitCancelled(u) ==
  /\ misused = "no" /\ st[u] = "idle" /\ cxl[u]
  /\ LET forwards == parents = <<>> /\ result = "Incomplete"
     IN  \/ /\ ~forwards
            /\ st' = [st EXCEPT ![u] = "cancelled"] /\ UNCHANGED <<op, result, ready>>
         \/ /\ forwards /\ kind.skip
            /\ st' = [st EXCEPT ![u] = "cancelled"]
            /\ result' = "Cancelled" /\ op' = "cancelled" /\ UNCHANGED ready
         \/ /\ forwards /\ ~kind.skip /\ kind.must
            /\ st' = [st EXCEPT ![u] = "woken"] /\ ready' = Append(ready, u)
            /\ result' = "CancelPending" /\ UNCHANGED op
         \/ /\ forwards /\ ~kind.skip /\ ~kind.must
            /\ st' = [st EXCEPT ![u] = "cancelled"]
            /\ result' = "CancelPending" /\ UNCHANGED <<op, ready>>
  /\ UNCHANGED <<kind, early, misused, parents, cxl>>

\* FAULT: only the parent that came first is woken.
WakesFirst(ps, dropped) == {ps[1]}

\* The parents State::invoke() wakes; resuming one may cancel the others.
Wakes(ps, dropped) == Range(ps) \ dropped

\* result_ when the awaitable has resumed its handle.
Clarified ==
  IF result # "Cancelling" THEN result
  ELSE IF kind.must THEN "Incomplete" ELSE "Cancelled"

\* The awaitable resumes its handle: State::invoke() and AwaiterBase::wakeUp().
\* The parents in dropped are cancelled in the course of it, by the resumption
\* of the first (an anyOf() of several awaits of the Shared).
Completes(dropped) ==
  /\ misused = "no" /\ op = "running" /\ dropped \subseteq Range(Tail(parents))
  /\ LET cancelled == result = "Cancelling" /\ ~kind.must
         woken     == IF cancelled THEN {} ELSE Wakes(parents, dropped)
     IN  /\ result' = Clarified
         /\ op' = IF cancelled THEN "cancelled" ELSE "done"
         /\ ready' = ready \o SelectSeq(parents, LAMBDA u : u \in woken)
         /\ st' = [u \in Parents |->
                     CASE u \in woken -> "woken"
                       [] u \in Range(parents)
                          /\ (cancelled \/ u \in dropped) -> "cancelled"
                       [] OTHER -> st[u]]
  /\ parents' = <<>>
  /\ cxl' = [u \in Parents |-> cxl[u] \/ u \in dropped]
  /\ UNCHANGED <<kind, early, misused>>

\* The executor runs a woken parent: await_resume().
Resume ==
  /\ misused = "no" /\ ready # <<>> /\ ready' = Tail(ready)
  /\ Fetch(Head(ready))
  /\ UNCHANGED <<kind, early, parents, cxl>>

\* FAULT: any parent's cancellation is forwarded.
ForwardsAny(u) == TRUE

\* State::cancel(): the last parent takes the operation with it.
Forwards(u) == Len(parents) = 1

\* Cancellation of a parent: BasePromise::cancel(), State::cancel().
Cancel(u) ==
  /\ misused = "no" /\ ~cxl[u] /\ cxl' = [cxl EXCEPT ![u] = TRUE]
  /\ \/ /\ st[u] = "idle" /\ early
        /\ UNCHANGED <<op, result, parents, st>>
     \/ /\ st[u] = "waiting" /\ ~Forwards(u)
        /\ parents' = SelectSeq(parents, LAMBDA v : v # u)
        /\ st' = [st EXCEPT ![u] = "cancelled"] /\ UNCHANGED <<op, result>>
     \/ /\ st[u] = "waiting" /\ Forwards(u) /\ kind.abort
        /\ parents' = SelectSeq(parents, LAMBDA v : v # u)
        /\ st' = [st EXCEPT ![u] = "cancelled"]
        /\ op' = "cancelled" /\ result' = "Cancelled"
     \/ /\ st[u] = "waiting" /\ Forwards(u) /\ ~kind.abort
        /\ result' = "Cancelling" /\ UNCHANGED <<op, parents, st>>
  /\ UNCHANGED <<kind, early, misused, ready>>

\* Everybody is through, or nothing can be said of the awaitable any more.
Terminated ==
  /\ \/ \A u \in Parents : st[u] \in {"got", "nothing", "cancelled"}
     \/ misused # "no"
  /\ UNCHANGED vars

Next ==
  \/ \E u \in Parents : Await(u) \/ AwaitCancelled(u) \/ Cancel(u)
  \/ \E dropped \in SUBSET Parents : Completes(dropped)
  \/ Resume \/ Terminated

Spec == Init /\ [][Next]_vars

\* The operation completes and the executor drains its queue.
Fairness ==
  WF_vars(Resume) /\ WF_vars(\E dropped \in SUBSET Parents : Completes(dropped))

FairSpec == Spec /\ Fairness
-----------------------------------------------------------------------------
\* The state is well typed, the operation runs if and only if somebody waits for
\* it, and it knows each parent that does.  "the shared operation will be cancelled
\* if all of its parents are cancelled", and only then: a cancelled operation has no
\* parent that still counts on it.  (Not if a Skippable awaitable has completed and
\* its result is not fetched yet when a task with a pending cancellation arrives:
\* earlyCancel() cancels it.)
Supervised ==
  /\ TypeOK
  /\ op = "running" <=> parents # <<>>
  /\ IsInjective(parents) /\ Range(parents) = {u \in Parents : st[u] = "waiting"}
  /\ ~(early /\ kind.skip) /\ op = "cancelled" =>
       \A u \in Parents : st[u] \in {"idle", "nothing", "cancelled"}

\* The awaitable is used as an awaiter must be.  It is suspended on once, if its
\* await_ready() is true when it has completed: a task may arrive before the result is
\* fetched, when parents_ is empty again, and takes itself for the first.  It is asked
\* for its result only when it is ready or has resumed its handle, unless the first parent
\* brings a cancellation that the awaitable cannot honour at once: ready() is true in
\* CancelPending, and the result of what was never started is fetched.
UsedAsAwaiter ==
  /\ misused = "again" => ~kind.after
  /\ misused = "unready" => early /\ ~kind.skip

\* "The result of the operation will be propagated to each of its parents": a
\* parent that waits is woken and finds a result, or is cancelled.  (The exception
\* of Supervised: it may find nothing.  Those of UsedAsAwaiter: nothing is known of what
\* an awaitable does that is misused.)
ResultReachesAll ==
  \A u \in Parents : st[u] = "waiting" ~>
    \/ st[u] \in {"got", "cancelled"}
    \/ st[u] = "nothing" /\ early /\ kind.skip
    \/ misused # "no"
=============================================================================
