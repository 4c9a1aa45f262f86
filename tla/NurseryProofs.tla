--------------------------- MODULE NurseryProofs ----------------------------
(***************************************************************************)
(* The nursery's bookkeeping for any number of tasks, inside it and out;   *)
(* what it leaves to the executor; and that it implements TaskScope.       *)
(***************************************************************************)
EXTENDS NurserySteps, FiniteSetTheorems

\* TaskStarted::operator().
LEMMA AfterStarted ==
  ASSUME IInv, QInv, NEW p \in Tasks, Started(p)
  PROVE  QInv' /\ Quiet
<1> DEFINE s == starter[p]
<1>1. /\ p = running /\ s # NoTask /\ tasks \subseteq tasks'
      /\ UNCHANGED <<hasParent, error, pst>> /\ queue' = Append(queue, Run(s))
      /\ st' = [st EXCEPT ![s] = "ready"] /\ starter' = [starter EXCEPT ![p] = NoTask]
  BY DEF Started, parentVars, Reparented
<1>2. /\ st \in [Tasks -> States] /\ starter \in [Tasks -> Tasks \cup {NoTask}]
      /\ queue \in Seq(Callbacks) /\ Insiders \subseteq Tasks
  BY DEF IInv, TypeOK, States, Insiders
<1>3. st[p] = "running"
  BY <1>1, Runner
<1>4. p \in Pending
  BY <1>1, <1>2, <1>3 DEF Pending, StartedBy
<1>5. s \in Tasks /\ st[s] = "suspended"
  BY <1>1, <1>2, <1>4 DEF IInv, PendingOK
<1>6. pst = "awaiting" /\ hasParent /\ ParentCallback = "none"
  BY <1>4, Inhabited
<1>7. /\ \A u \in Tasks : st'[u] = IF u = s THEN "ready" ELSE st[u]
      /\ \A u \in Tasks : starter'[u] = IF u = p THEN NoTask ELSE starter[u]
  BY <1>1, <1>2
<1> HIDE DEF s
<1>8. ReadyTasks' = ReadyTasks \cup {s}
  BY <1>5, <1>7 DEF ReadyTasks
<1>9. DeadFrames' = DeadFrames
  BY <1>2, <1>3, <1>5, <1>7 DEF DeadFrames
<1>10. OwnersKept'
  <2> SUFFICES ASSUME NEW q \in Tasks, st'[q] = "finished", starter'[q] \in Insiders
               PROVE  \/ starter'[q] \in tasks' /\ st'[starter'[q]] = "ready"
                      \/ st'[starter'[q]] = "finished" /\ starter'[starter'[q]] = NoTask
    BY DEF OwnersKept
  <2>1. st[q] = "finished" /\ starter'[q] = starter[q]
    BY <1>3, <1>7
  <2>2. \/ starter[q] \in tasks /\ st[starter[q]] = "ready"
        \/ st[starter[q]] = "finished" /\ starter[starter[q]] = NoTask
    BY Zenon, <2>1 DEF QInv, OwnersKept
  <2>3. starter[q] \in Tasks
    BY <1>2, <2>1
  <2> QED
    BY <1>1, <1>3, <1>5, <1>7, <2>1, <2>2, <2>3
<1>11. ParentCallback' = "none"
  BY <1>1, <1>6 DEF ParentCallback
<1>12. Serves(queue', ReadyTasks', DeadFrames', ParentCallback')
  BY <1>1, <1>2, <1>5, <1>6, <1>8, <1>9, <1>11, ServesRun DEF QInv
<1>13. QInv'
  BY <1>1, <1>6, <1>10, <1>12 DEF QInv
<1>14. Lived' = Lived
  BY <1>2, <1>5, <1>7 DEF Lived
<1>15. LiveFrames' \subseteq LiveFrames
  BY <1>2, <1>3, <1>5, <1>7 DEF LiveFrames
<1> QED
  BY <1>1, <1>13, <1>14, <1>15 DEF Quiet

\* Nothing but the error and the parent's own cancellation is touched.
LEMMA AfterNotes ==
  ASSUME IInv, QInv, UNCHANGED <<st, starter, tasks, hasParent, queue, pst>>,
         error' = error \/ (error = NoTask /\ pst = "awaiting")
  PROVE  QInv' /\ Quiet
<1>1. ReadyTasks' = ReadyTasks /\ DeadFrames' = DeadFrames /\ ParentCallback' = ParentCallback
  BY DEF ReadyTasks, DeadFrames, ParentCallback
<1>2. OwnersKept'
  BY Zenon DEF QInv, OwnersKept
<1>3. Lived' = Lived /\ LiveFrames' = LiveFrames
  BY DEF Lived, LiveFrames
<1>4. QInv'
  BY <1>1, <1>2 DEF QInv
<1> QED
  BY <1>3, <1>4 DEF Quiet

\* Nursery::cancel(), storeError() and NurseryParentAwaiter::await_cancel().
LEMMA AfterRequest ==
  ASSUME IInv, QInv, pst' = pst, error' = error \/ (error = NoTask /\ pst = "awaiting"),
         \/ Cancel
         \/ UNCHANGED <<promiseVars, tasks, hasParent, queue>>
  PROVE  QInv' /\ Quiet
<1>1. CASE Cancel
  BY <1>1, AfterCancel DEF Quiet
<1>2. CASE UNCHANGED <<promiseVars, tasks, hasParent, queue>>
  BY <1>2, AfterNotes DEF promiseVars
<1> QED
  BY <1>1, <1>2

\* storeError() for a callable that threw.
LEMMA AfterStartThrows ==
  ASSUME IInv, QInv, NEW r \in Tasks, NEW t \in Tasks, StartThrows(r, t)
  PROVE  QInv' /\ Quiet
<1>1. pst = "awaiting"
  BY InUse DEF StartThrows
<1>2. pst' = pst /\ (error' = error \/ error = NoTask)
  BY DEF StartThrows, StoredError, parentVars
<1>3. Cancel \/ UNCHANGED <<promiseVars, tasks, hasParent, queue>>
  BY DEF StartThrows
<1> QED
  BY <1>1, <1>2, <1>3, AfterRequest

\* Nursery::cancel().
LEMMA AfterCancelNursery ==
  ASSUME IInv, QInv, NEW r \in Tasks, CancelNursery(r)
  PROVE  QInv' /\ Quiet
<1>1. pst' = pst /\ error' = error /\ Cancel
  BY DEF CancelNursery, parentVars
<1> QED
  BY <1>1, AfterRequest

\* NurseryParentAwaiter::await_cancel().
LEMMA AfterCancelParent ==
  ASSUME IInv, QInv, CancelParent
  PROVE  QInv' /\ Quiet
<1>1. pst' = pst /\ error' = error
  BY DEF CancelParent
<1>2. Cancel \/ UNCHANGED <<promiseVars, tasks, hasParent, queue>>
  BY DEF CancelParent
<1> QED
  BY <1>1, <1>2, AfterRequest

\* The cancellation of an outsider, and of the task it is starting.
LEMMA AfterCancelOutsider ==
  ASSUME IInv, QInv, NEW o \in Outsiders, CancelOutsider(o)
  PROVE  QInv' /\ Quiet
<1> DEFINE out == IF SyncCancelled(o) THEN {o} ELSE {}
           done == out \cup StartedBy(out)
           told == {o} \cup StartedBy({o})
<1>1. UNCHANGED <<tasks, hasParent, error, pst, queue>>
  BY DEF CancelOutsider, parentVars
<1>2. Promises(done, {}, told)
  <2>1. StartedBy({}) = {} /\ {} \cup {} = {}
    BY DEF StartedBy
  <2>2. CASE SyncCancelled(o)
    BY Zenon, <2>2 DEF CancelOutsider
  <2>3. CASE ~SyncCancelled(o)
    BY Zenon, <2>1, <2>3 DEF CancelOutsider
  <2> QED
    BY <2>2, <2>3
<1>3. /\ o \in Tasks /\ o \notin Insiders /\ NoTask \notin Insiders /\ NoTask \notin Outsiders
      /\ starter[o] = NoTask /\ out \in SUBSET Tasks
  BY Zenon, NurseryAssumption DEF NurseryAssumption, IInv, LifeOK, Insiders
<1>4. \A u \in done : st[u] = "suspended"
  <2>1. \A u \in out : SyncCancelled(u)
    OBVIOUS
  <2> HIDE DEF out
  <2> QED
    BY <1>3, <2>1, Synchronous
<1>5. \A u \in done : u \in Tasks /\ (u = o \/ starter[u] = o)
  BY <1>3 DEF StartedBy
<1> HIDE DEF done, told
<1>6. /\ ReadyTasks' = ReadyTasks \cup {}
      /\ DeadFrames' = DeadFrames \cup {u \in done : u \in Insiders /\ starter[u] = NoTask}
      /\ OwnersKept' /\ Lived' = Lived
      /\ LiveFrames' = LiveFrames \ {u \in done : starter[u] \in Outsiders}
  <2>1. /\ done \in SUBSET Tasks /\ {} \in SUBSET Tasks /\ done \cap {} = {}
        /\ \A u \in done : st[u] \in {"running", "suspended"}
        /\ \A u \in {} : st[u] = "suspended"
        /\ tasks \ done \subseteq tasks'
        /\ \A u \in done : starter[u] \notin Insiders
    BY <1>1, <1>3, <1>4, <1>5
  <2> QED
    BY Zenon, <1>2, <2>1, AfterPromises
<1>7. ReadyTasks' = ReadyTasks /\ DeadFrames' = DeadFrames /\ LiveFrames' \subseteq LiveFrames
  BY <1>3, <1>5, <1>6
<1>8. ParentCallback' = ParentCallback
  BY <1>1 DEF ParentCallback
<1>9. QInv'
  BY <1>1, <1>6, <1>7, <1>8 DEF QInv
<1> QED
  BY <1>1, <1>6, <1>7, <1>9 DEF Quiet

\* BasePromise::hookAwaitSuspend().
LEMMA AfterSuspend ==
  ASSUME IInv, QInv, NEW r \in Tasks, NEW k \in AwaitKinds, Suspend(r, k)
  PROVE  QInv' /\ Quiet
<1>1. r = running /\ pst' = pst
  BY DEF Suspend, parentVars
<1>2. st[r] = "running"
  BY <1>1, Runner
<1>3. CASE Ends(r, FALSE, FALSE)
  BY Zenon, <1>1, <1>2, <1>3, AfterEnds
<1>4. CASE /\ st' = [st EXCEPT ![r] = "suspended"]
           /\ UNCHANGED <<cxl, starter, nurseryVars, queue>>
  <2>1. \A u \in Tasks : st'[u] = IF u = r THEN "suspended" ELSE st[u]
    BY <1>4 DEF IInv, TypeOK
  <2>2. UNCHANGED <<starter, tasks, hasParent, error, queue>> /\ Insiders \subseteq Tasks
    BY <1>4 DEF nurseryVars, Insiders
  <2>3. ReadyTasks' = ReadyTasks
    BY <1>2, <2>1 DEF ReadyTasks
  <2>4. DeadFrames' = DeadFrames
    BY Zenon, <1>2, <2>1, <2>2 DEF DeadFrames
  <2>5. Lived' = Lived
    BY <1>2, <2>1, <2>2 DEF Lived
  <2>6. LiveFrames' = LiveFrames
    BY <1>2, <2>1, <2>2 DEF LiveFrames
  <2>7. OwnersKept'
    BY Zenon, <1>2, <2>1, <2>2 DEF QInv, OwnersKept
  <2>8. ParentCallback' = ParentCallback
    BY <1>1, <2>2 DEF ParentCallback
  <2>9. QInv'
    BY <1>1, <2>2, <2>3, <2>4, <2>7, <2>8 DEF QInv
  <2> QED
    BY <1>1, <2>2, <2>5, <2>6, <2>9 DEF Quiet
<1> QED
  BY Zenon, <1>3, <1>4 DEF Suspend

\* A task returns.
LEMMA AfterReturn ==
  ASSUME IInv, QInv, NEW r \in Tasks, Return(r)
  PROVE  QInv' /\ Quiet
<1>1. r = running /\ pst' = pst
  BY DEF Return, parentVars
<1>2. PICK retval : Ends(r, retval = "cancel", FALSE)
  BY Zenon DEF Return
<1>3. st[r] = "running" /\ (retval = "cancel") \in BOOLEAN
  BY <1>1, Runner
<1> QED
  BY Zenon, <1>1, <1>2, <1>3, AfterEnds

\* A task terminates with an exception.
LEMMA AfterThrow ==
  ASSUME IInv, QInv, NEW r \in Tasks, Throw(r)
  PROVE  QInv' /\ Quiet
<1>1. r = running /\ pst' = pst /\ Ends(r, TRUE, TRUE)
  BY Zenon DEF Throw, parentVars
<1>2. st[r] = "running"
  BY <1>1, Runner
<1> QED
  BY Zenon, <1>1, <1>2, AfterEnds

\* An awaited operation completes.
LEMMA AfterComplete ==
  ASSUME IInv, QInv, NEW t \in Tasks, NEW mustResume \in BOOLEAN, Complete(t, mustResume)
  PROVE  QInv' /\ Quiet
<1>1. st[t] = "suspended" /\ pst' = pst
  BY DEF Complete, parentVars
<1>2. CASE Ends(t, FALSE, FALSE)
  BY Zenon, <1>1, <1>2, AfterEnds
<1>3. CASE Promises({}, {t}, {}) /\ queue' = Append(queue, Run(t)) /\ UNCHANGED nurseryVars
  <2>1. UNCHANGED <<tasks, hasParent, error>>
    BY <1>3 DEF nurseryVars
  <2>2. /\ ReadyTasks' = ReadyTasks \cup {t}
        /\ DeadFrames' = DeadFrames \cup {u \in {} : u \in Insiders /\ starter[u] = NoTask}
        /\ OwnersKept' /\ Lived' = Lived
        /\ LiveFrames' = LiveFrames \ {u \in {} : starter[u] \in Outsiders}
    <3>1. /\ {} \in SUBSET Tasks /\ {t} \in SUBSET Tasks /\ {} \cap {t} = {}
          /\ \A u \in {} : st[u] \in {"running", "suspended"}
          /\ \A u \in {t} : st[u] = "suspended"
          /\ tasks \ {} \subseteq tasks'
      BY <1>1, <2>1
    <3> QED
      BY Zenon, <1>3, <3>1, AfterPromises
  <2>3. DeadFrames' = DeadFrames /\ LiveFrames' = LiveFrames
    BY <2>2
  <2>4. ParentCallback' = ParentCallback
    BY <1>1, <2>1 DEF ParentCallback
  <2>5. queue \in Seq(Callbacks) /\ Serves(queue, ReadyTasks, DeadFrames, ParentCallback)
    BY DEF IInv, TypeOK, QInv
  <2>6. Serves(queue', ReadyTasks', DeadFrames', ParentCallback')
    BY <1>3, <2>2, <2>3, <2>4, <2>5, ServesRun
  <2>7. QInv'
    BY <1>1, <2>1, <2>2, <2>3, <2>6 DEF QInv
  <2> QED
    BY <1>1, <2>1, <2>2, <2>3, <2>7 DEF Quiet
<1> QED
  BY Zenon, <1>2, <1>3 DEF Complete

\* Nothing happens.
LEMMA AfterStutter ==
  ASSUME IInv, QInv, UNCHANGED vars
  PROVE  QInv' /\ Quiet
<1>1. UNCHANGED <<st, starter, tasks, hasParent, queue, pst, error>>
  BY DEF vars, promiseVars, nurseryVars, parentVars
<1> QED
  BY <1>1, AfterNotes
-----------------------------------------------------------------------------
\* A quiet step is one of TaskScope's steps, or changes nothing there.
LEMMA QuietInScope ==
  ASSUME IInv, Quiet
  PROVE  [Scope!ScopeNext]_(Scope!scopeVars)
<1> DEFINE S == LiveFrames \ LiveFrames'
<1>1. /\ pst' = pst /\ {t \in Insiders : st'[t] # "unborn"} = {t \in Insiders : st[t] # "unborn"}
      /\ LiveFrames' \subseteq LiveFrames
      /\ error' = error \/ (LiveFrames' = LiveFrames /\ error = NoTask /\ pst = "awaiting")
  BY DEF Quiet, Lived
<1>2. CASE error' = error /\ LiveFrames' = LiveFrames
  BY <1>1, <1>2 DEF Scope!scopeVars
<1>3. CASE error' = error /\ LiveFrames' # LiveFrames
  <2>1. S # {} /\ S \in SUBSET LiveFrames /\ LiveFrames' = LiveFrames \ S
    BY <1>1, <1>3
  <2> HIDE DEF S
  <2>2. Scope!Exit(S)
    BY <1>1, <1>3, <2>1 DEF Scope!Exit
  <2> QED
    BY <2>1, <2>2 DEF Scope!ScopeNext
<1>4. CASE error' # error
  <2>1. Scope!Fail
    BY <1>1, <1>4 DEF Scope!Fail
  <2> QED
    BY <2>1 DEF Scope!ScopeNext
<1> QED
  BY <1>1, <1>2, <1>3, <1>4

\* A task that comes to life in the nursery does so in TaskScope.
LEMMA BirthInScope ==
  ASSUME NEW t \in Insiders, t \notin Lived, Lived' = Lived \cup {t},
         LiveFrames' = LiveFrames \cup {t}, pst = "awaiting", pst' = pst, error' = error
  PROVE  [Scope!ScopeNext]_(Scope!scopeVars)
<1>1. Scope!Spawn(t)
  BY DEF Scope!Spawn, Lived
<1> QED
  BY <1>1 DEF Scope!ScopeNext

\* Opening the nursery enters the scope.
LEMMA OpeningInScope ==
  ASSUME NEW S \in SUBSET Insiders, Lived' = S, LiveFrames' = S, pst = "running",
         pst' = "awaiting", error' # NoTask => S = {}
  PROVE  [Scope!ScopeNext]_(Scope!scopeVars)
<1>1. Scope!Enter
  BY DEF Scope!Enter, Lived
<1> QED
  BY <1>1 DEF Scope!ScopeNext

\* The parent proceeds when its proxy handle is resumed; that its own callback
\* runs later is no step of TaskScope.
LEMMA ResumptionInScope ==
  ASSUME UNCHANGED <<promiseVars, error>>,
         \/ /\ pst = "awaiting" /\ LiveFrames = {}
            /\ pst' = "ready" \/ (pst' = "cancelled" /\ error = NoTask)
         \/ pst = "ready" /\ pst' = "resumed"
  PROVE  [Scope!ScopeNext]_(Scope!scopeVars)
<1>1. /\ {t \in Insiders : st'[t] # "unborn"} = {t \in Insiders : st[t] # "unborn"}
      /\ LiveFrames' = LiveFrames
  BY DEF promiseVars, LiveFrames
<1>2. CASE /\ pst = "awaiting" /\ LiveFrames = {}
           /\ pst' = "ready" \/ (pst' = "cancelled" /\ error = NoTask)
  <2>1. Scope!Proceed
    BY <1>1, <1>2 DEF Scope!Proceed
  <2> QED
    BY <2>1 DEF Scope!ScopeNext
<1>3. CASE pst = "ready" /\ pst' = "resumed"
  BY <1>1, <1>3 DEF Scope!scopeVars
<1> QED
  BY <1>2, <1>3

\* Every step keeps the queue in order and is a step of TaskScope or none there.
LEMMA StepInScope ==
  IInv /\ QInv /\ [Next]_vars => QInv' /\ [Scope!ScopeNext]_(Scope!scopeVars)
<1> DEFINE Good == QInv' /\ [Scope!ScopeNext]_(Scope!scopeVars)
<1> SUFFICES ASSUME IInv, QInv, [Next]_vars PROVE Good
  OBVIOUS
<1>0. QInv' /\ Quiet => Good
  BY QuietInScope
<1>1. ASSUME NEW outcome \in {"join", "cancel", "throw"}, OpenWithoutTask(outcome) PROVE Good
  BY <1>1, AfterOpenWithoutTask, OpeningInScope
<1>2. CASE RunNext
  <2>1. CASE RunTask \/ RunDestroy
    BY <1>0, <2>1, AfterRunTask, AfterRunDestroy
  <2>2. CASE RunResumeParent
    BY <2>2, AfterRunResumeParent, ResumptionInScope
  <2>3. CASE RunRunParent
    BY <2>3, AfterRunRunParent, ResumptionInScope
  <2> QED
    BY <1>2, <2>1, <2>2, <2>3 DEF RunNext
<1>3. ASSUME NEW r \in Tasks, NEW t \in Tasks, Start(r, t) \/ StartAndWait(r, t)
      PROVE  Good
  BY <1>3, AfterStart, AfterStartAndWait, BirthInScope
<1>4. ASSUME NEW r \in Tasks, CancelNursery(r) \/ Started(r) \/ Return(r) \/ Throw(r)
      PROVE  Good
  BY <1>0, <1>4, AfterCancelNursery, AfterStarted, AfterReturn, AfterThrow
<1>5. ASSUME NEW r \in Tasks, NEW k \in AwaitKinds, Suspend(r, k) PROVE Good
  BY <1>0, <1>5, AfterSuspend
<1>6. ASSUME NEW t \in Tasks, NEW mustResume \in BOOLEAN, Complete(t, mustResume) PROVE Good
  BY <1>0, <1>6, AfterComplete
<1>7. CASE Terminated \/ UNCHANGED vars
  BY <1>0, <1>7, AfterStutter DEF Terminated
<1>8. ASSUME NEW o \in Outsiders, CancelOutsider(o) PROVE Good
  BY <1>0, <1>8, AfterCancelOutsider
<1>9. CASE OpenWithTask
  <2>1. {Body} \in SUBSET Insiders /\ pst = "running" /\ error' = error
    BY <1>9, NurseryAssumption DEF NurseryAssumption, Insiders, OpenWithTask
  <2>2. error' = NoTask
    BY <2>1, Before
  <2> QED
    BY <1>9, <2>1, <2>2, AfterOpenWithTask, OpeningInScope
<1>10. CASE CancelParent
  BY <1>0, <1>10, AfterCancelParent
<1>11. ASSUME NEW r \in Tasks, NEW t \in Tasks, StartThrows(r, t) PROVE Good
  BY <1>0, <1>11, AfterStartThrows
<1> HIDE DEF Good
<1> QED
  BY <1>1, <1>2, <1>3, <1>4, <1>5, <1>6, <1>7, <1>8, <1>9, <1>10, <1>11 DEF Next

\* Before the nursery is opened the queue is empty and so is the scope.
LEMMA QInvInit == Init => QInv /\ Scope!ScopeInit
<1> SUFFICES ASSUME Init PROVE QInv /\ Scope!ScopeInit
  OBVIOUS
<1>1. \A t \in Tasks : starter[t] = NoTask /\ st[t] = IF t \in Outsiders THEN "suspended" ELSE "unborn"
  BY DEF Init
<1>2. Insiders \subseteq Tasks /\ \A t \in Insiders : st[t] = "unborn"
  BY <1>1 DEF Insiders
<1>3. queue = <<>> /\ ~hasParent /\ error = NoTask /\ pst = "running"
  BY DEF Init
<1>4. ReadyTasks = {} /\ DeadFrames = {} /\ Lived = {} /\ LiveFrames = {}
  BY <1>1, <1>2 DEF ReadyTasks, DeadFrames, Lived, LiveFrames
<1>5. OwnersKept
  BY <1>1 DEF OwnersKept
<1>6. ParentCallback = "none"
  BY <1>3 DEF ParentCallback
<1>7. QInv
  BY <1>3, <1>4, <1>5, <1>6, ServesOne DEF QInv
<1>8. Scope!ScopeInit
  BY <1>3, <1>4 DEF Scope!ScopeInit, Lived
<1> QED
  BY <1>7, <1>8

\* A set of which any two members are equal has one member or none.
LEMMA Once ==
  ASSUME NEW S, \A i, j \in S : i = j
  PROVE  Cardinality(S) = IF S # {} THEN 1 ELSE 0
<1>1. CASE S = {}
  BY <1>1, FS_EmptySet
<1>2. CASE S # {}
  <2>1. PICK i : S = {i}
    BY <1>2
  <2> QED
    BY <2>1, FS_Singleton
<1> QED
  BY <1>1, <1>2

\* What is counted in the queue.
LEMMA QueueOnce ==
  ASSUME IInv, QInv
  PROVE  EachCallbackOnce
<1>1. Serves(queue, ReadyTasks, DeadFrames, ParentCallback) /\ QueueOK(queue, st)
  BY DEF IInv, QInv
<1>2. ASSUME NEW t \in Tasks
      PROVE  Cardinality({i \in DOMAIN queue : queue[i].op = "run" /\ queue[i].task = t})
               = IF st[t] = "ready" THEN 1 ELSE 0
  <2> DEFINE S == {i \in DOMAIN queue : queue[i].op = "run" /\ queue[i].task = t}
  <2>1. \A i, j \in S : i = j
    BY <1>1 DEF QueueOK
  <2>2. S # {} <=> t \in ReadyTasks
    BY <1>1 DEF Serves
  <2>3. t \in ReadyTasks <=> st[t] = "ready"
    BY DEF ReadyTasks
  <2> HIDE DEF S
  <2>4. Cardinality(S) = IF st[t] = "ready" THEN 1 ELSE 0
    BY <2>1, <2>2, <2>3, Once
  <2> QED
    BY <2>4 DEF S
<1>3. ASSUME NEW t \in Tasks
      PROVE  Cardinality({i \in DOMAIN queue : t \in queue[i].frames})
               = IF st[t] = "finished" /\ starter[t] = NoTask /\ t \notin Outsiders THEN 1 ELSE 0
  <2> DEFINE S == {i \in DOMAIN queue : t \in queue[i].frames}
  <2>1. \A i, j \in S : i = j
    BY <1>1 DEF Serves
  <2>2. S # {} <=> t \in DeadFrames
    BY <1>1 DEF Serves
  <2>3. t \in DeadFrames <=> st[t] = "finished" /\ starter[t] = NoTask /\ t \notin Outsiders
    BY DEF DeadFrames, Insiders
  <2> HIDE DEF S
  <2>4. Cardinality(S) = IF st[t] = "finished" /\ starter[t] = NoTask /\ t \notin Outsiders
                         THEN 1 ELSE 0
    BY <2>1, <2>2, <2>3, Once
  <2> QED
    BY <2>4 DEF S
<1>4. Cardinality({i \in DOMAIN queue : queue[i].op \in {"resumeParent", "runParent"}})
        = IF pst = "ready" \/ (pst = "awaiting" /\ ~hasParent) THEN 1 ELSE 0
  <2> DEFINE S == {i \in DOMAIN queue : queue[i].op \in {"resumeParent", "runParent"}}
  <2>1. \A i, j \in S : i = j
    BY <1>1 DEF Serves
  <2>2. S # {} <=> ParentCallback # "none"
    BY <1>1 DEF Serves
  <2>3. ParentCallback # "none" <=> pst = "ready" \/ (pst = "awaiting" /\ ~hasParent)
    BY DEF ParentCallback
  <2> HIDE DEF S
  <2>4. Cardinality(S) = IF pst = "ready" \/ (pst = "awaiting" /\ ~hasParent) THEN 1 ELSE 0
    BY <2>1, <2>2, <2>3, Once
  <2> QED
    BY <2>4 DEF S
<1> QED
  BY <1>2, <1>3, <1>4 DEF EachCallbackOnce, Occurrences
-----------------------------------------------------------------------------
\* Finite sets of tasks are counted as the invariant assumes.
LEMMA Counting == CountFacts
<1>1. ASSUME NEW S \in SUBSET Tasks PROVE IsFiniteSet(S) /\ Cardinality(S) \in Nat
  BY NurseryAssumption, FS_Subset, FS_CardinalityType DEF NurseryAssumption
<1>2. ASSUME NEW S \in SUBSET Tasks PROVE Cardinality(S) = 0 <=> S = {}
  BY <1>1, FS_EmptySet
<1>3. ASSUME NEW S \in SUBSET Tasks, NEW T \in SUBSET S
      PROVE  /\ Cardinality(T) =< Cardinality(S)
             /\ Cardinality(S \ T) = Cardinality(S) - Cardinality(T)
  <2>1. IsFiniteSet(S) /\ T \subseteq S /\ S \cap T = T
    BY <1>1
  <2>2. Cardinality(T) =< Cardinality(S)
    BY <2>1, FS_Subset
  <2>3. Cardinality(S \ T) = Cardinality(S) - Cardinality(S \cap T)
    BY Zenon, <2>1, FS_Difference
  <2>4. QED
    BY <2>1, <2>2, <2>3
<1>4. ASSUME NEW S \in SUBSET Tasks, NEW t \in Tasks \ S
      PROVE  Cardinality(S \cup {t}) = Cardinality(S) + 1
  BY <1>1, FS_AddElement
<1>5. Cardinality({}) = 0 /\ \A t \in Tasks : Cardinality({t}) = 1
  BY FS_EmptySet, FS_Singleton
<1>6. QED
  BY Zenon, <1>1, <1>2, <1>3, <1>4, <1>5 DEF CountFacts

\* For any number of tasks, inside the nursery and out: the counters agree with
\* the tasks they count, a cancellation request reaches every task including
\* those that arrive later, adopt() never meets a closed nursery, and the awaiter
\* of start() outlives the task it starts.
THEOREM NurserySafe ==
  Spec => [](TypeOK /\ Consistent)
<1>1. Init => IInv
  BY InvInit, Counting
<1>2. IInv /\ [Next]_vars => IInv'
  BY InvNext
<1>3. IInv => TypeOK /\ Consistent
  BY DEF IInv, Consistent, CancelReachesAll, AwaiterOutlivesStart, PendingOK, Pending
<1>4. QED
  BY <1>1, <1>2, <1>3, PTL DEF Spec

\* storeError() keeps the first error for any number of tasks.  Every action
\* that writes error_ after the opening goes through StoredError, and the
\* invariant says that there is no error before it.
THEOREM NurseryFirstError == Spec => FirstErrorKept
<1>1. IInv /\ [Next]_vars => (error # NoTask => error' = error)
  <2> SUFFICES ASSUME IInv, [Next]_vars, error # NoTask PROVE error' = error
    OBVIOUS
  <2>1. pst # "running"
    BY DEF IInv, Init
  <2>2. ASSUME NEW t \in Tasks, NEW cancels, NEW err, Ends(t, cancels, err) PROVE error' = error
    BY <2>2 DEF Ends, MemberEnds, PendingEnds, OutsiderEnds, StoredError, nurseryVars
  <2>3. CASE RunNext
    BY <2>3 DEF RunNext, RunTask, RunDestroy, RunResumeParent, RunRunParent, nurseryVars
  <2>4. ASSUME NEW r \in Tasks, NEW t \in Tasks, Start(r, t) \/ StartThrows(r, t) \/ StartAndWait(r, t)
        PROVE  error' = error
    BY <2>4 DEF Start, StartThrows, StartAndWait, StoredError
  <2>5. ASSUME NEW r \in Tasks, CancelNursery(r) \/ Started(r) \/ Return(r) \/ Throw(r)
        PROVE  error' = error
    <3>1. CASE CancelNursery(r) \/ Started(r)
      BY <3>1 DEF CancelNursery, Started
    <3>2. CASE Return(r)
      <4>1. PICK retval : Ends(r, retval = "cancel", FALSE)
        BY Zenon, <3>2 DEF Return
      <4>2. QED
        BY Zenon, <4>1, <2>2
    <3>3. CASE Throw(r)
      BY Zenon, <3>3, <2>2 DEF Throw
    <3>4. QED
      BY <2>5, <3>1, <3>2, <3>3
  <2>6. ASSUME NEW r \in Tasks, NEW k \in AwaitKinds, Suspend(r, k) PROVE error' = error
    BY Zenon, <2>2, <2>6 DEF Suspend, nurseryVars
  <2>7. ASSUME NEW t \in Tasks, NEW mustResume \in BOOLEAN, Complete(t, mustResume)
        PROVE  error' = error
    BY Zenon, <2>2, <2>7 DEF Complete, nurseryVars
  <2>8. CASE CancelParent
    BY <2>8 DEF CancelParent
  <2>9. ASSUME NEW o \in Outsiders, CancelOutsider(o) PROVE error' = error
    BY <2>9 DEF CancelOutsider
  <2>10. CASE Terminated \/ UNCHANGED vars
    BY <2>10 DEF Terminated, vars, nurseryVars
  <2>11. QED
    BY <2>1, <2>3, <2>4, <2>5, <2>6, <2>7, <2>8, <2>9, <2>10 DEF Next, OpenWithTask, OpenWithoutTask
<1>2. QED
  <2>1. Init => IInv
    BY InvInit, Counting
  <2>2. QED
    BY <1>1, <2>1, InvNext, PTL DEF Spec, FirstErrorKept

\* For any number of tasks: each ready task, each dead frame and the parent has
\* exactly one callback in the executor's queue.  No task runs twice, no frame is
\* destroyed twice or left to nobody.
THEOREM NurseryCallbacksOnce == Spec => []EachCallbackOnce
<1>1. Init => IInv /\ QInv
  BY InvInit, Counting, QInvInit
<1>2. IInv /\ QInv /\ [Next]_vars => IInv' /\ QInv'
  BY InvNext, StepInScope
<1>3. IInv /\ QInv => EachCallbackOnce
  BY QueueOnce
<1> QED
  BY <1>1, <1>2, <1>3, PTL DEF Spec

\* For any number of tasks the nursery implements TaskScope: the parent goes on
\* once, no frame is left then, no task begins afterwards, and the parent that
\* would be cancelled is resumed if there is an error it has to learn of.
THEOREM NurseryIsTaskScope == Spec => ImplementsTaskScope
<1>1. Init => IInv /\ QInv /\ Scope!ScopeInit
  BY InvInit, Counting, QInvInit
<1>2. IInv /\ QInv /\ [Next]_vars => IInv' /\ QInv' /\ [Scope!ScopeNext]_(Scope!scopeVars)
  BY InvNext, StepInScope
<1> QED
  BY <1>1, <1>2, PTL DEF Spec, ImplementsTaskScope, Scope!ScopeSpec
=============================================================================
