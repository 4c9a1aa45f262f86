------------------------------- MODULE Nursery -------------------------------
(***************************************************************************)
(* A nursery, the tasks that live in it, the task that opened it, and the  *)
(* executor that runs their steps.                                         *)
(*                                                                         *)
(* Everything runs on one thread.  A step of a task is one callback of the *)
(* executor: it begins when the callback is taken from the queue           *)
(* (running = t) and ends when the task suspends or terminates; in between *)
(* the task may call the nursery any number of times.  The model therefore *)
(* has one action per library call made by the running task, and one per   *)
(* awaited operation that completes.                                       *)
(*                                                                         *)
(* The intrusive list tasks_ is a set: its order only orders destructors   *)
(* that run next to each other.  The frames destroyed by one fan-out of    *)
(* cancellations are one callback for the same reason.                     *)
(***************************************************************************)
EXTENDS Naturals, Sequences, FiniteSets

CONSTANTS
  Tasks,       \* every task that can exist in a behaviour
  Body,        \* the task that runs the nursery block
  Outsiders,   \* tasks with a reference to the nursery that do not live in it
  AwaitKinds,  \* the kinds of operations that tasks await
  NoTask

(***************************************************************************)
(* The operations a task can suspend on, told apart by what they do with a *)
(* cancellation request:                                                   *)
(*   "abortable"  await_early_cancel() and await_cancel() return true;     *)
(*   "slow"       both return false; await_must_resume() says later        *)
(*                whether the operation completed or was cancelled;        *)
(*   "shielded"   both return false and await_must_resume() returns true.  *)
(* A task that awaits Nursery::start() of a callable taking a TaskStarted  *)
(* is suspended on "start".                                                *)
(***************************************************************************)
LeafKinds == {"abortable", "slow", "shielded"}

ASSUME NurseryAssumption ==
  /\ IsFiniteSet(Tasks)
  /\ Body \in Tasks
  /\ Outsiders \subseteq Tasks \ {Body}
  /\ NoTask \notin Tasks
  /\ AwaitKinds \subseteq LeafKinds

VARIABLES
  st,         \* st[t]: where task t is in its life, see TypeOK
  cxl,        \* cxl[t]: CancelState::Requested, or doResumeAfterCancel installed
  aw,         \* aw[t]: what a suspended task waits for
  starter,    \* starter[p]: the task whose NurseryStartAwaiter is p's parent
  tasks,      \* NurseryBase::tasks_
  taskCount,         \* NurseryBase::taskCount_
  pendingTaskCount,  \* NurseryBase::pendingTaskCount_
  open,       \* executor_.ptr() # nullptr
  cancelling, \* executor_.bits() & Cancelling
  hasParent,  \* parent_ # nullptr
  error,      \* the task whose error error_ holds
  pst,        \* where the task that opened the nursery is
  pcxl,       \* that task's cancellation was requested
  queue,      \* Executor::buffer_
  running     \* the task whose step is on the CPU

promiseVars == <<st, cxl, aw, starter>>
nurseryVars == <<tasks, taskCount, pendingTaskCount, open, cancelling, hasParent, error>>
parentVars  == <<pst, pcxl>>
vars == <<promiseVars, nurseryVars, parentVars, queue, running>>

(***************************************************************************)
(* Callbacks of the executor.                                              *)
(***************************************************************************)
Run(t)       == [op |-> "run", task |-> t, frames |-> {}]
Destroy(S)   == [op |-> "destroy", task |-> NoTask, frames |-> S]
ResumeParent == [op |-> "resumeParent", task |-> NoTask, frames |-> {}]
RunParent    == [op |-> "runParent", task |-> NoTask, frames |-> {}]

Callbacks == [op: {"run", "destroy", "resumeParent", "runParent"},
              task: Tasks \cup {NoTask}, frames: SUBSET Tasks]

DestroyAll(S) == IF S = {} THEN <<>> ELSE <<Destroy(S)>>

TypeOK ==
  /\ st \in [Tasks -> {"unborn", "ready", "running", "suspended",
                       "finished", "destroyed"}]
  /\ cxl \in [Tasks -> BOOLEAN]
  /\ aw \in [Tasks -> LeafKinds \cup {"none", "start"}]
  /\ starter \in [Tasks -> Tasks \cup {NoTask}]
  /\ tasks \subseteq Tasks
  /\ taskCount \in Nat
  /\ pendingTaskCount \in Nat
  /\ open \in BOOLEAN /\ cancelling \in BOOLEAN /\ hasParent \in BOOLEAN
  /\ error \in Tasks \cup {NoTask}
  /\ pst \in {"running", "awaiting", "ready", "resumed", "cancelled"}
  /\ pcxl \in BOOLEAN
  /\ queue \in Seq(Callbacks)
  /\ running \in Tasks \cup {NoTask}

Init ==
  /\ st = [t \in Tasks |-> IF t \in Outsiders THEN "suspended" ELSE "unborn"]
  /\ cxl = [t \in Tasks |-> FALSE]
  /\ aw = [t \in Tasks |-> IF t \in Outsiders THEN "slow" ELSE "none"]
  /\ starter = [t \in Tasks |-> NoTask]
  /\ tasks = {} /\ taskCount = 0 /\ pendingTaskCount = 0
  /\ open = FALSE /\ cancelling = FALSE /\ hasParent = FALSE
  /\ error = NoTask
  /\ pst = "running" /\ pcxl \in BOOLEAN
  /\ queue = <<>> /\ running = NoTask
-----------------------------------------------------------------------------
(***************************************************************************)
(* Opening: the parent task yields the Scope with or without a pending     *)
(* cancellation.  The block is normally a coroutine; a callable that       *)
(* returns a ready Task or throws ends it before any task exists.          *)
(***************************************************************************)
OpenWithTask ==
  /\ pst = "running" /\ pst' = "awaiting"
  /\ open' = TRUE /\ hasParent' = TRUE /\ cancelling' = pcxl
  /\ tasks' = {Body} /\ taskCount' = 1
  /\ st' = [st EXCEPT ![Body] = "ready"]
  /\ cxl' = [cxl EXCEPT ![Body] = pcxl]
  /\ queue' = Append(queue, Run(Body))
  /\ UNCHANGED <<aw, starter, pendingTaskCount, error, pcxl, running>>

OpenWithoutTask(outcome) ==
  /\ pst = "running" /\ pst' = "awaiting"
  /\ cancelling' = (pcxl \/ outcome # "join")
  /\ error' = IF outcome = "throw" THEN Body ELSE NoTask
  /\ queue' = Append(queue, ResumeParent)
  /\ UNCHANGED <<promiseVars, tasks, taskCount, pendingTaskCount, open,
                 hasParent, pcxl, running>>
-----------------------------------------------------------------------------
\* FAULT: NurseryStartAwaiter::await_cancel() returns true.
SyncCancelledStart(t) ==
  st[t] = "suspended" /\ aw[t] \in {"abortable", "start"}

(***************************************************************************)
(* What a cancellation request does to a task.  A task that is ready or    *)
(* running only records it.  A suspended one forwards it to its awaiter,   *)
(* and terminates at once if the awaiter gives up synchronously; a         *)
(* NurseryStartAwaiter forwards it to the task it is starting.             *)
(***************************************************************************)
SyncCancelled(t) ==
  /\ st[t] = "suspended"
  /\ \/ aw[t] = "abortable"
     \/ /\ aw[t] = "start"
        /\ \E p \in Tasks : /\ starter[p] = t
                            /\ st[p] = "suspended" /\ aw[p] = "abortable"

\* The tasks that tasks of S wait to see started.
StartedBy(S) == {p \in Tasks : starter[p] \in S /\ st[p] # "finished"}

\* The new state of the promises: done have notified their parent, woken are
\* scheduled, told have been asked to cancel.
Promises(done, woken, told) ==
  /\ st' = [t \in Tasks |-> CASE t \in done  -> "finished"
                              [] t \in woken -> "ready"
                              [] OTHER       -> st[t]]
  /\ aw' = [t \in Tasks |-> IF t \in done \cup woken THEN "none" ELSE aw[t]]
  /\ cxl' = [t \in Tasks |-> cxl[t] \/ t \in told]
  /\ UNCHANGED starter

\* FAULT: pendingTaskCount_ is read before it is brought up to date.
ClosesStale(gone, pending) ==
  gone # {} /\ tasks \ gone = {} /\ pendingTaskCount = 0 /\ hasParent

\* The departure of gone leaves the nursery empty, and there is a parent to
\* resume.
Closes(gone, pending) ==
  gone # {} /\ tasks \ gone = {} /\ pending = 0 /\ hasParent

\* What continuation() leaves to the executor, in this order.
Deferred(destroy, closes) ==
  destroy \o (IF closes THEN <<ResumeParent>> ELSE <<>>)

\* NurseryBase::continuation() of every task of gone, after the tasks of
\* dropped have been subtracted from pendingTaskCount_.  The last one closes
\* the nursery.
Continuation(gone, dropped, destroy) ==
  LET pending == pendingTaskCount - Cardinality(dropped)
      closes  == Closes(gone, pending)
  IN  /\ tasks' = tasks \ gone
      /\ taskCount' = taskCount - Cardinality(gone)
      /\ pendingTaskCount' = pending
      /\ hasParent' = (hasParent /\ ~closes)
      /\ open' = (open /\ ~closes)
      /\ queue' = queue \o Deferred(destroy, closes)

\* storeError(): what error_ becomes when e is reported.
StoredError(e) == IF error = NoTask THEN e ELSE error

\* NurseryBase::cancel() and doCancel(): every task of the nursery is asked to
\* cancel before the call returns.
Cancel ==
  LET cut == {t \in tasks : SyncCancelled(t)}
  IN  /\ ~cancelling /\ cancelling' = TRUE
      /\ Promises(cut \cup StartedBy(cut), {}, tasks \cup StartedBy(tasks))
      /\ Continuation(cut, StartedBy(cut), DestroyAll(cut))

\* A task of the nursery terminates.  cancels: it threw, or it is the block
\* and returned corral::cancel, so that storeError() or cancel() comes first.
MemberEnds(t, cancels, err) ==
  LET fan  == cancels /\ ~cancelling
      cut  == IF fan THEN {u \in tasks : SyncCancelled(u)} ELSE {}
      told == IF fan THEN tasks \cup StartedBy(tasks) ELSE {}
  IN  /\ cancelling' = (cancelling \/ cancels)
      /\ error' = IF err THEN StoredError(t) ELSE error
      /\ Promises(cut \cup StartedBy(cut) \cup {t}, {}, told)
      /\ Continuation(cut \cup {t}, StartedBy(cut),
                      DestroyAll(cut) \o <<Destroy({t})>>)

\* A task that is still being started terminates: NurseryStartAwaiter's
\* continuation() resumes its awaiting task, which goes on unless its own
\* cancellation was requested (await_must_resume() is false).
PendingEnds(p) ==
  LET s == starter[p]
  IN  /\ UNCHANGED <<cancelling, error>>
      /\ \/ /\ ~cxl[s]
            /\ Promises({p}, {s}, {})
            /\ pendingTaskCount' = pendingTaskCount - 1
            /\ queue' = Append(queue, Run(s))
            /\ UNCHANGED <<tasks, taskCount, open, hasParent>>
         \/ /\ cxl[s] /\ s \in tasks
            /\ Promises({s, p}, {}, {})
            /\ Continuation({s}, {p}, <<Destroy({s})>>)
         \/ /\ cxl[s] /\ s \notin tasks
            /\ Promises({s, p}, {}, {})
            /\ pendingTaskCount' = pendingTaskCount - 1
            /\ UNCHANGED <<tasks, taskCount, open, hasParent, queue>>

OutsiderEnds(o) ==
  /\ Promises({o}, {}, {})
  /\ UNCHANGED <<nurseryVars, queue>>

\* BasePromise::propagateCancel() or hookFinalSuspend(): the parent is told.
Ends(t, cancels, err) ==
  \/ t \in tasks /\ MemberEnds(t, cancels, err)
  \/ starter[t] # NoTask /\ PendingEnds(t)
  \/ t \in Outsiders /\ OutsiderEnds(t)
-----------------------------------------------------------------------------
(***************************************************************************)
(* The executor takes the next callback.                                   *)
(***************************************************************************)
Idle == running = NoTask /\ pst # "running"

\* The terminated tasks whose frames belong to a NurseryStartAwaiter in the
\* frame of a task of S; they go when that awaiter does.
OwnedBy(S) == {p \in Tasks : starter[p] \in S /\ st[p] = "finished"}

RunTask ==
  /\ Idle /\ queue # <<>> /\ Head(queue).op = "run"
  /\ LET t    == Head(queue).task
         gone == OwnedBy({t})
     IN  /\ running' = t
         /\ st' = [u \in Tasks |-> CASE u = t       -> "running"
                                     [] u \in gone -> "destroyed"
                                     [] OTHER      -> st[u]]
         /\ starter' = [u \in Tasks |-> IF u \in gone THEN NoTask ELSE starter[u]]
  /\ queue' = Tail(queue)
  /\ UNCHANGED <<cxl, aw, nurseryVars, parentVars>>

RunDestroy ==
  /\ Idle /\ queue # <<>> /\ Head(queue).op = "destroy"
  /\ LET gone == Head(queue).frames \cup OwnedBy(Head(queue).frames)
     IN  /\ st' = [u \in Tasks |-> IF u \in gone THEN "destroyed" ELSE st[u]]
         /\ starter' = [u \in Tasks |-> IF u \in gone THEN NoTask ELSE starter[u]]
  /\ queue' = Tail(queue)
  /\ UNCHANGED <<cxl, aw, nurseryVars, parentVars, running>>

\* FAULT: the answer does not depend on the error.
ParentNeverResumes == FALSE

\* NurseryParentAwaiter::await_must_resume().
ParentMustResume == error # NoTask

\* The parent's proxy handle is resumed: doResume(), or doResumeAfterCancel()
\* with NurseryParentAwaiter::await_must_resume().
RunResumeParent ==
  /\ Idle /\ queue # <<>> /\ Head(queue).op = "resumeParent"
  /\ IF pcxl /\ ~ParentMustResume
     THEN pst' = "cancelled" /\ queue' = Tail(queue)
     ELSE pst' = "ready" /\ queue' = Append(Tail(queue), RunParent)
  /\ UNCHANGED <<promiseVars, nurseryVars, pcxl, running>>

RunRunParent ==
  /\ Idle /\ queue # <<>> /\ Head(queue).op = "runParent"
  /\ pst' = "resumed"
  /\ queue' = Tail(queue)
  /\ UNCHANGED <<promiseVars, nurseryVars, pcxl, running>>
-----------------------------------------------------------------------------
(***************************************************************************)
(* Calls made by the running task.  An outsider only uses the nursery      *)
(* while it is open; what a task of the nursery may do is not restricted.  *)
(***************************************************************************)
MayUse(r) == r = running /\ (r \in Outsiders => open)

\* FAULT: the nursery's own cancellation is not looked at.
AdoptedBlindly(t) == cxl[t]

\* adopt(): an arriving task is asked to cancel if the nursery has been.
Adopted(t) == cxl[t] \/ cancelling

\* Nursery::start(callable): makePromise(), adopt(), BasePromise::start().
Start(r, t) ==
  /\ MayUse(r) /\ st[t] = "unborn" /\ t # Body
  /\ tasks' = tasks \cup {t} /\ taskCount' = taskCount + 1
  /\ st' = [st EXCEPT ![t] = "ready"]
  /\ cxl' = [cxl EXCEPT ![t] = Adopted(t)]
  /\ queue' = Append(queue, Run(t))
  /\ UNCHANGED <<aw, starter, pendingTaskCount, open, cancelling, hasParent,
                 error, parentVars, running>>

\* The callable t throws instead of returning a task: storeError().
StartThrows(r, t) ==
  /\ MayUse(r) /\ st[t] = "unborn" /\ t # Body
  /\ error' = StoredError(t)
  /\ \/ Cancel
     \/ /\ cancelling
        /\ UNCHANGED <<promiseVars, tasks, taskCount, pendingTaskCount, open,
                       cancelling, hasParent, queue>>
  /\ UNCHANGED <<parentVars, running>>

\* Nursery::cancel() called by a task.
CancelNursery(r) ==
  /\ MayUse(r)
  /\ Cancel
  /\ UNCHANGED <<error, parentVars, running>>

\* pendingTaskCount_ with one more task being started.
OneMorePending == pendingTaskCount + 1

\* co_await Nursery::start(callable taking TaskStarted): the task suspends on a
\* NurseryStartAwaiter, which becomes the parent of the new task.  (A task that
\* is itself being started does not do this here: one level of nesting.)
StartAndWait(r, p) ==
  /\ MayUse(r) /\ starter[r] = NoTask
  /\ st[p] = "unborn" /\ p # Body
  /\ pendingTaskCount' = OneMorePending
  /\ st' = [st EXCEPT ![r] = "suspended", ![p] = "ready"]
  /\ aw' = [aw EXCEPT ![r] = "start"]
  /\ cxl' = [cxl EXCEPT ![p] = cxl[r]]
  /\ starter' = [starter EXCEPT ![p] = r]
  /\ queue' = Append(queue, Run(p))
  /\ running' = NoTask
  /\ UNCHANGED <<tasks, taskCount, open, cancelling, hasParent, error, parentVars>>

\* BasePromise::reparent(): the nursery becomes the parent of a started task.
Reparented(p) == [starter EXCEPT ![p] = NoTask]

\* TaskStarted::operator(): markStarted() and handOff(), which does nothing if
\* the starting task is being cancelled.
Started(p) ==
  /\ p = running /\ starter[p] # NoTask /\ ~cxl[starter[p]]
  /\ pendingTaskCount' = pendingTaskCount - 1
  /\ tasks' = tasks \cup {p} /\ taskCount' = taskCount + 1
  /\ st' = [st EXCEPT ![starter[p]] = "ready"]
  /\ aw' = [aw EXCEPT ![starter[p]] = "none"]
  /\ cxl' = [cxl EXCEPT ![p] = Adopted(p)]
  /\ starter' = Reparented(p)
  /\ queue' = Append(queue, Run(starter[p]))
  /\ UNCHANGED <<open, cancelling, hasParent, error, parentVars, running>>

\* BasePromise::hookAwaitSuspend() on an operation of kind k.
Suspend(r, k) ==
  /\ r = running
  /\ running' = NoTask
  /\ UNCHANGED parentVars
  /\ \/ /\ cxl[r] /\ k = "abortable"       \* await_early_cancel() succeeds
        /\ Ends(r, FALSE, FALSE)
     \/ /\ ~(cxl[r] /\ k = "abortable")
        /\ st' = [st EXCEPT ![r] = "suspended"]
        /\ aw' = [aw EXCEPT ![r] = k]
        /\ UNCHANGED <<cxl, starter, nurseryVars, queue>>

\* The task returns.  The block returns join or cancel; a task that is being
\* started must have called its TaskStarted unless it is being cancelled.
Return(r) ==
  /\ r = running
  /\ running' = NoTask
  /\ UNCHANGED parentVars
  /\ starter[r] # NoTask => cxl[starter[r]]
  /\ \E retval \in IF r = Body THEN {"join", "cancel"} ELSE {"value"} :
       Ends(r, retval = "cancel", FALSE)

\* The task terminates with an exception.
Throw(r) ==
  /\ r = running
  /\ running' = NoTask
  /\ UNCHANGED parentVars
  /\ Ends(r, TRUE, TRUE)
-----------------------------------------------------------------------------
(***************************************************************************)
(* What happens around the nursery: awaited operations complete, on their  *)
(* own or because of something the running task does; the parent task and  *)
(* the outsiders are cancelled by whoever owns them.                       *)
(***************************************************************************)
\* The awaiter resumes the task's proxy handle: doResume(), or
\* doResumeAfterCancel() with mustResume as await_must_resume()'s answer.
Complete(t, mustResume) ==
  /\ pst # "running"
  /\ st[t] = "suspended" /\ aw[t] \in LeafKinds
  /\ mustResume \/ (cxl[t] /\ aw[t] = "slow")
  /\ \/ /\ mustResume
        /\ Promises({}, {t}, {})
        /\ queue' = Append(queue, Run(t))
        /\ UNCHANGED nurseryVars
     \/ /\ ~mustResume
        /\ Ends(t, FALSE, FALSE)
  /\ UNCHANGED <<parentVars, running>>

\* BasePromise::cancel() of the parent: NurseryParentAwaiter::await_cancel().
CancelParent ==
  /\ Idle /\ pst = "awaiting" /\ ~pcxl
  /\ pcxl' = TRUE
  /\ \/ Cancel
     \/ /\ cancelling
        /\ UNCHANGED <<promiseVars, tasks, taskCount, pendingTaskCount, open,
                       cancelling, hasParent, queue>>
  /\ UNCHANGED <<error, pst, running>>

\* BasePromise::cancel() of an outsider.
CancelOutsider(o) ==
  /\ Idle /\ ~cxl[o] /\ st[o] \in {"ready", "suspended"}
  /\ IF SyncCancelled(o)
     THEN /\ Promises({o} \cup StartedBy({o}), {}, {o} \cup StartedBy({o}))
          /\ pendingTaskCount' = pendingTaskCount - Cardinality(StartedBy({o}))
     ELSE /\ Promises({}, {}, {o} \cup StartedBy({o}))
          /\ UNCHANGED pendingTaskCount
  /\ UNCHANGED <<tasks, taskCount, open, cancelling, hasParent, error, parentVars,
                 queue, running>>

\* The parent has gone on; the outsiders' later steps are not followed.
Terminated ==
  /\ pst \in {"resumed", "cancelled"} /\ queue = <<>> /\ running = NoTask
  /\ UNCHANGED vars

RunNext == RunTask \/ RunDestroy \/ RunResumeParent \/ RunRunParent

Next ==
  \/ OpenWithTask
  \/ \E outcome \in {"join", "cancel", "throw"} : OpenWithoutTask(outcome)
  \/ RunNext
  \/ \E r, t \in Tasks : \/ Start(r, t)
                         \/ StartThrows(r, t)
                         \/ StartAndWait(r, t)
  \/ \E r \in Tasks : CancelNursery(r) \/ Started(r) \/ Return(r) \/ Throw(r)
  \/ \E r \in Tasks, k \in AwaitKinds : Suspend(r, k)
  \/ \E t \in Tasks, mustResume \in BOOLEAN : Complete(t, mustResume)
  \/ CancelParent
  \/ Terminated
  \/ \E o \in Outsiders : CancelOutsider(o)

Spec == Init /\ [][Next]_vars
-----------------------------------------------------------------------------
(***************************************************************************)
(* Safety.                                                                 *)
(***************************************************************************)
\* taskCount_ and pendingTaskCount_, which decide when the nursery closes and
\* how much room doCancel() reserves, agree with the tasks they count, whatever
\* order tasks are started, handed over, cancelled and finished in.
CountsMatch ==
  /\ taskCount = Cardinality(tasks)
  /\ pendingTaskCount = Cardinality(StartedBy(Tasks))

\* Once the nursery is being cancelled every task in it has been asked to
\* cancel, those that arrive later included, and none is asked before; a task
\* being started is asked when the task that waits for it is.
CancelReachesAll ==
  /\ \A t \in tasks : cxl[t] = cancelling
  /\ \A p \in StartedBy(Tasks) : cxl[starter[p]] => cxl[p]

\* A nursery with tasks in it, or about to be handed to it, is open: adopt()
\* never meets "Nursery is closed to new arrivals", and error_ has a parent to
\* go to (storeError() does not terminate the program).
OpenWhileInhabited ==
  tasks # {} \/ pendingTaskCount # 0 => open /\ hasParent

\* The task that awaits Nursery::start() stays suspended on its awaiter for as
\* long as the awaiter is the parent of the task being started: the pointer the
\* new task keeps to it never dangles.
AwaiterOutlivesStart ==
  \A p \in StartedBy(Tasks) : st[starter[p]] = "suspended" /\ aw[starter[p]] = "start"

\* All of these together: the counters, the cancellation flags, the nursery's own
\* state and the pointers between tasks that are updated in different places by
\* start(), hand-over, cancellation and completion never disagree.
Consistent ==
  CountsMatch /\ CancelReachesAll /\ OpenWhileInhabited /\ AwaiterOutlivesStart

Occurrences(P(_)) == Cardinality({i \in DOMAIN queue : P(queue[i])})

\* Every scheduled task, every terminated task's frame and the parent has
\* exactly one callback in the executor's queue, and nothing else has any: no
\* task runs twice, no frame is destroyed twice or used after that.
EachCallbackOnce ==
  /\ \A t \in Tasks :
       /\ Occurrences(LAMBDA c : c.op = "run" /\ c.task = t)
            = IF st[t] = "ready" THEN 1 ELSE 0
       /\ Occurrences(LAMBDA c : t \in c.frames)
            = IF st[t] = "finished" /\ starter[t] = NoTask /\ t \notin Outsiders
              THEN 1 ELSE 0
  /\ Occurrences(LAMBDA c : c.op \in {"resumeParent", "runParent"})
       = IF pst = "ready" \/ (pst = "awaiting" /\ ~hasParent) THEN 1 ELSE 0

\* "Once all tasks in the nursery have exited, execution will proceed in the
\* nursery's parent task": with no task left and none being started, the
\* parent's resumption is scheduled.
IdleNurseryCloses ==
  pst = "awaiting" /\ tasks = {} /\ pendingTaskCount = 0 =>
    \E i \in DOMAIN queue : queue[i] = ResumeParent

\* The first error wins: later ones do not replace it.
FirstErrorKept ==
  [][error # NoTask => error' = error]_vars
-----------------------------------------------------------------------------
(***************************************************************************)
(* Refinement.  The frame of a task that terminated while an outsider was  *)
(* starting it belongs to the outsider.                                    *)
(***************************************************************************)
Insiders == Tasks \ Outsiders

LiveFrames ==
  {t \in Insiders : /\ st[t] \notin {"unborn", "destroyed"}
                    /\ ~(st[t] = "finished" /\ starter[t] \in Outsiders)}

Scope == INSTANCE TaskScope WITH
  Members <- Insiders,
  phase   <- CASE pst = "running"   -> "before"
               [] pst = "awaiting"  -> "inside"
               [] pst = "cancelled" -> "cancelled"
               [] OTHER             -> "resumed",
  lived   <- {t \in Insiders : st[t] # "unborn"},
  live    <- LiveFrames,
  failed  <- error # NoTask

\* The nursery implements TaskScope: no task begins after the parent has gone
\* on, no frame is left then, the parent goes on once, and it learns of errors.
ImplementsTaskScope == Scope!ScopeSpec
-----------------------------------------------------------------------------
(***************************************************************************)
(* Liveness.  The executor drains its queue, a step of a task ends, a task *)
(* whose TaskStarted is due does not spin for ever, and an operation whose *)
(* cancellation was requested does not beat the request for ever.          *)
(***************************************************************************)
StepEnds(r) == Return(r) \/ Throw(r) \/ \E k \in AwaitKinds : Suspend(r, k)

Fairness ==
  /\ WF_vars(RunNext)
  /\ \A t \in Tasks : /\ WF_vars(StepEnds(t))
                      /\ SF_vars(Complete(t, FALSE))
                      /\ WF_vars(Complete(t, TRUE))

FairSpec == Spec /\ Fairness

\* An empty nursery, and a cancelled one whose tasks await operations that honour
\* cancellation, closes, and its parent proceeds; as long as starts in it are awaited only by
\* tasks in it.
NurseryCloses ==
  [](\A t \in Tasks : aw[t] # "shielded" /\ starter[t] \notin Outsiders)
    => ((pst = "awaiting" /\ (cancelling \/ tasks \cup StartedBy(Tasks) = {}))
          ~> pst \in {"resumed", "cancelled"})
=============================================================================
