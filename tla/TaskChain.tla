------------------------------ MODULE TaskChain ------------------------------
(***************************************************************************)
(* BasePromise and TaskAwaiter: a chain of tasks, each of which awaits the *)
(* next, and how a cancellation requested of the outermost one travels     *)
(* down to the awaiter the innermost is suspended on, and back up as the   *)
(* end of every task on the way.                                           *)
(*                                                                         *)
(* Task 1 is awaited by a root (Runner, or a nursery); task i awaits task  *)
(* i + 1 through a TaskAwaiter, and only task depth may run or await       *)
(* something else.  Every awaiter is wrapped in an AwaiterStateChecker.    *)
(***************************************************************************)
EXTENDS AwaiterChecker, Naturals, Sequences, FiniteSetsExt

CONSTANT MaxDepth    \* bound on the length of the chain

ASSUME MaxDepthAssumption == MaxDepth \in Nat \ {0}

VARIABLES
  task,     \* for each level: state_ and cancelState_, the trampoline that resumes the
            \* promise, the checker of its awaiter and the result_ its parent holds
  depth,    \* the level of the innermost task; 0 once task 1 is over
  leaf,     \* how the awaiter under the innermost task answers await_cancel()
  queue,    \* the executor's ready queue
  running,  \* the task on the CPU, or 0
  asked,    \* cancel() was called on task 1
  deaf      \* history: the level whose awaiter threw after cancel() had asked it, if any

vars == <<task, depth, leaf, queue, running, asked, deaf>>

Levels == 1..MaxDepth
Aborts == {"at once", "later", "resumes"}
Nobody == MaxDepth + 1
Answers == {"ready", "throws", "suspends"}

TypeOK ==
  /\ task \in [Levels -> [state: {"Ready", "Running", "Task", "Leaf"}, requested: BOOLEAN,
                          onResume: {"doResume", "doResumeAfterCancel", "doNothing"},
                          checker: Checkers, result: {"none", "value", "error", "cancelled"}]]
  /\ depth \in 0..MaxDepth /\ running \in 0..MaxDepth
  /\ leaf \in Aborts /\ queue \in Seq(Levels)
  /\ asked \in BOOLEAN /\ deaf \in 1..Nobody

\* A promise that its TaskAwaiter starts: doResume() has put it in the queue.
Promise(requested) ==
  [state |-> "Ready", requested |-> requested, onResume |-> "doNothing",
   checker |-> NewChecker, result |-> "none"]

Init ==
  /\ task = [i \in Levels |-> Promise(FALSE)]
  /\ depth = 1 /\ queue = <<1>>
  /\ leaf = "later" /\ running = 0 /\ asked = FALSE /\ deaf = Nobody

hasAwaiter(i) == task[i].state \in {"Task", "Leaf"}

-----------------------------------------------------------------------------
(* Resuming a promise.  Each operator maps the tasks to the tasks.         *)

doResume(tasks, i) ==
  [tasks EXCEPT ![i].state = "Ready", ![i].onResume = "doNothing"]

\* The awaitee completed although it was asked not to.
ResumeAnyway(tasks, i) ==
  doResume([tasks EXCEPT ![i].checker = mustResumeReturned(@, TRUE), ![i].requested = TRUE], i)

\* FAULT: a task that was asked to stop drops whatever its child has returned.
MustResumeNever(result) == FALSE

\* TaskAwaiter::await_must_resume
mustResume(result) == result # "cancelled"

\* Where a cancellation that starts from task i stops: the first task above that is resumed.
StopsAt(tasks, i) ==
  Max({j \in 0..(i - 1) :
         \/ j = 0
         \/ tasks[j].onResume # "doResumeAfterCancel"
         \/ mustResume("cancelled")})

\* The parent of a task that ended is resumed, and will run again.
Continue(tasks, i) ==
  LET told == [tasks EXCEPT ![i].checker = resumed(@)]
  IN IF tasks[i].onResume = "doResume" THEN doResume(told, i) ELSE ResumeAnyway(told, i)

\* Task i ends as cancelled, and so does every task above it up to the one that resumes.
Cancelled(tasks, i) ==
  LET stop == StopsAt(tasks, i)
      ended == [k \in Levels |->
        IF k \in (stop + 1)..i
          THEN [tasks[k] EXCEPT !.result = "cancelled",
                  !.checker = reset(IF k = i THEN @ ELSE mustResumeReturned(resumed(@), FALSE))]
          ELSE tasks[k]]
  IN IF stop = 0 THEN ended ELSE Continue(ended, stop)

\* propagateCancel() of task i.
propagateCancel(tasks, i) ==
  LET stop == StopsAt(tasks, i)
  IN /\ task' = Cancelled(tasks, i)
     /\ depth' = stop
     /\ queue' = IF stop = 0 THEN queue ELSE Append(queue, stop)

\* The handle of task i is resumed by the awaiter it is suspended on.
Resumed(tasks, i) ==
  LET told == [tasks EXCEPT ![i].checker = resumed(@)]
  IN IF tasks[i].onResume = "doResume"
       THEN task' = doResume(told, i) /\ queue' = Append(queue, i) /\ UNCHANGED depth
       ELSE \/ task' = ResumeAnyway(told, i) /\ queue' = Append(queue, i) /\ UNCHANGED depth
            \/ propagateCancel([told EXCEPT ![i].checker = mustResumeReturned(@, FALSE)], i)

\* Task i, suspended on its child, is resumed by the end of the child.
ChildEnded(tasks, i, result) ==
  IF tasks[i].onResume = "doResumeAfterCancel" /\ ~mustResume(result)
    THEN propagateCancel(
           [tasks EXCEPT ![i].checker = mustResumeReturned(resumed(@), FALSE)], i)
    ELSE task' = Continue(tasks, i) /\ depth' = i /\ queue' = Append(queue, i)

-----------------------------------------------------------------------------
(* co_await, by the running task.                                          *)

\* The awaiter the task used before is gone, a new one takes its place in the union.
Fresh(i) ==
  [task EXCEPT ![i].checker = reset(@), ![i].requested = FALSE]

\* FAULT: the exception path of hookAwaitSuspend() does not restore cancelState_.
ThrewForgets(tasks, i, requested) ==
  [tasks EXCEPT ![i].checker = suspendThrew(aboutToSuspend(@))]

\* await_suspend() throws into the task, which goes on.
Threw(tasks, i, requested) ==
  [tasks EXCEPT ![i].checker = suspendThrew(aboutToSuspend(@)), ![i].requested = requested]

\* What happens before await_suspend(): await_ready() said no, and the executor is set.
Prepared(tasks, i, requested) ==
  [tasks EXCEPT
     ![i].onResume = IF requested THEN "doResumeAfterCancel" ELSE "doResume",
     ![i].checker = aboutToSetExecutor(
       readyReturned(IF requested THEN earlyCancelReturned(@, FALSE) ELSE @, FALSE))]

\* co_await of a Task: its promise is asked to stop first if this one is to, and starts.
AwaitTask(i) ==
  /\ running = i /\ i < MaxDepth
  /\ LET requested == task[i].requested
         suspended == [Prepared(Fresh(i), i, requested) EXCEPT
                         ![i].state = "Task", ![i].checker = aboutToSuspend(@)]
     IN task' = [suspended EXCEPT ![i + 1] = Promise(requested)]
  /\ depth' = i + 1
  /\ queue' = Append(queue, i + 1)
  /\ running' = 0
  /\ UNCHANGED <<leaf, asked, deaf>>

\* co_await of anything else when no cancellation is pending.
AwaitLeaf(i) ==
  /\ running = i /\ ~task[i].requested
  /\ \E answer \in Answers, abort \in Aborts :
       /\ (answer # "suspends") => (abort = leaf)
       /\ task' =
            CASE answer = "ready" ->
                   [Fresh(i) EXCEPT ![i].checker = aboutToResume(readyReturned(@, TRUE))]
              [] answer = "throws" -> Threw(Prepared(Fresh(i), i, FALSE), i, FALSE)
              [] answer = "suspends" ->
                   [Prepared(Fresh(i), i, FALSE) EXCEPT
                      ![i].state = "Leaf", ![i].checker = aboutToSuspend(@)]
       /\ running' = IF answer = "suspends" THEN 0 ELSE i
       /\ leaf' = abort
  /\ UNCHANGED <<depth, queue, asked, deaf>>

\* The same with a cancellation pending, if the awaiter can be skipped.
SkipLeaf(i) ==
  /\ running = i /\ task[i].requested
  /\ propagateCancel([Fresh(i) EXCEPT ![i].checker = earlyCancelReturned(@, TRUE)], i)
  /\ running' = 0
  /\ UNCHANGED <<leaf, asked, deaf>>

\* The same, if it cannot be: it is ready, it throws, or the task waits for it.
ShieldedLeaf(i) ==
  /\ running = i /\ task[i].requested
  /\ LET ready == [Fresh(i) EXCEPT
                     ![i].checker = readyReturned(earlyCancelReturned(@, FALSE), TRUE),
                     ![i].onResume = "doResumeAfterCancel"]
     IN \/ /\ task' = ResumeAnyway(ready, i)
           /\ queue' = Append(queue, i) /\ running' = 0 /\ UNCHANGED depth
        \/ /\ propagateCancel([ready EXCEPT ![i].checker = mustResumeReturned(@, FALSE)], i)
           /\ running' = 0
        \/ /\ task' = Threw(Prepared(Fresh(i), i, TRUE), i, TRUE)
           /\ UNCHANGED <<depth, queue, running>>
        \/ /\ task' = [Prepared(Fresh(i), i, TRUE) EXCEPT
                         ![i].state = "Leaf", ![i].checker = aboutToSuspend(@)]
           /\ running' = 0 /\ UNCHANGED <<depth, queue>>
  /\ UNCHANGED <<leaf, asked, deaf>>

-----------------------------------------------------------------------------
(* The other steps.                                                        *)

\* The executor runs the next task, which fetches what it awaited, if it did.
Run ==
  /\ running = 0 /\ queue # <<>>
  /\ LET i == Head(queue)
     IN /\ task' = [task EXCEPT ![i].state = "Running",
                      ![i].checker = IF @ = NewChecker THEN @ ELSE aboutToResume(@)]
        /\ running' = i
  /\ queue' = Tail(queue)
  /\ UNCHANGED <<depth, leaf, asked, deaf>>

\* The running task returns or throws: hookFinalSuspend() continues its parent.
Finish(i) ==
  /\ running = i
  /\ \E result \in {"value", "error"} :
       LET ended == [task EXCEPT ![i].result = result, ![i].checker = reset(@)]
       IN \/ i = 1 /\ task' = ended /\ depth' = 0 /\ UNCHANGED queue
          \/ i > 1 /\ ChildEnded(ended, i - 1, result)
  /\ running' = 0
  /\ deaf' = IF deaf = i THEN Nobody ELSE deaf
  /\ UNCHANGED <<leaf, asked>>

\* The awaiter under the innermost task completes.
LeafCompletes ==
  /\ running = 0 /\ depth > 0 /\ task[depth].state = "Leaf"
  /\ Resumed(task, depth)
  /\ UNCHANGED <<leaf, running, asked, deaf>>

\* FAULT: cancel() forwards the request without intercepting the resumption.
InterceptNever(i) == task[i]

\* A suspended promise is asked to stop: whatever resumes it will find the request.
Intercept(i) ==
  [task[i] EXCEPT !.onResume = "doResumeAfterCancel", !.checker = aboutToCancel(@)]

\* cancel() on task 1, which each TaskAwaiter forwards; at any time, by anyone, but once.
cancel ==
  /\ depth > 0 /\ ~asked
  /\ asked' = TRUE
  /\ LET told == [i \in Levels |->
           IF i > depth THEN task[i]
           ELSE IF hasAwaiter(i) THEN Intercept(i)
           ELSE [task[i] EXCEPT !.requested = TRUE]]
     IN \/ /\ ~hasAwaiter(depth) \/ leaf = "later"
           /\ task' = told /\ UNCHANGED <<depth, queue>>
        \/ /\ hasAwaiter(depth) /\ leaf = "at once"
           /\ propagateCancel([told EXCEPT ![depth].checker = cancelReturned(@, TRUE)], depth)
        \/ /\ hasAwaiter(depth) /\ leaf = "resumes"
           /\ Resumed(told, depth)
  /\ UNCHANGED <<leaf, running, deaf>>

\* co_await of an awaiter whose await_suspend() has task 1 cancelled and then throws.
\* The request reaches the awaiter, which takes its time over it; the task, which had no
\* request when it began to suspend, goes on without one.
ThrowsCancelled(i) ==
  /\ running = i /\ ~asked
  /\ LET thrown == [Prepared(Fresh(i), i, FALSE) EXCEPT
                      ![i].onResume = "doResumeAfterCancel",
                      ![i].checker = suspendThrew(aboutToCancel(aboutToSuspend(@)))]
     IN task' = [j \in Levels |-> IF j < i THEN Intercept(j) ELSE thrown[j]]
  /\ asked' = TRUE /\ deaf' = i
  /\ UNCHANGED <<depth, leaf, queue, running>>

\* Task 1 is over; the root destroys it.
Over == depth = 0 /\ UNCHANGED vars

Next ==
  \/ Run \/ LeafCompletes \/ cancel \/ Over
  \/ \E i \in Levels :
       AwaitTask(i) \/ AwaitLeaf(i) \/ SkipLeaf(i) \/ ShieldedLeaf(i)
       \/ ThrowsCancelled(i) \/ Finish(i)

Spec == Init /\ [][Next]_vars

-----------------------------------------------------------------------------
(* Properties.                                                             *)

\* No assertion of an AwaiterStateChecker fails, on any awaiter of the chain: promises drive
\* both their leaves and each other through the awaiter protocol in its order, whenever the
\* cancellation comes, and destroy no awaiter that is not at rest.
CheckersSilent == \A i \in Levels : task[i].checker.state # "Bad"

\* A request to cancel is not lost: until task 1 is over, the innermost task will find it at
\* its next co_await or when it is resumed, and every task above when its child ends.  The
\* flag shares its storage with the awaiter, so each suspension overwrites it.  One task may
\* not find it: the exception path of hookAwaitSuspend() restores the flag as it was before
\* await_suspend(), so a task whose awaiter was asked meanwhile, and threw, never hears of
\* it, nor do the tasks that it awaits.  Those above it do, and when it has ended everybody.
RequestNotLost ==
  asked => \A i \in 1..depth : i < deaf =>
    IF hasAwaiter(i) THEN task[i].onResume = "doResumeAfterCancel" ELSE task[i].requested

\* A task that returned or threw is always heard: its parent runs again, even one that was
\* asked to stop meanwhile, and no task above ends as cancelled by that step.
ResultsHeard ==
  [][ \A i \in 2..MaxDepth :
        (running = i /\ task[i].result = "none" /\ task'[i].result \in {"value", "error"})
          => depth' = i - 1 ]_vars
=============================================================================
