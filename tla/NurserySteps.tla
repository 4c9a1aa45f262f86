---------------------------- MODULE NurserySteps ----------------------------
(***************************************************************************)
(* Every step preserves the invariant, one lemma per action.               *)
(***************************************************************************)
EXTENDS NurseryInvariant
-----------------------------------------------------------------------------
(***************************************************************************)
(* The executor's callbacks, the opening and the starting of tasks.        *)
(***************************************************************************)

\* The queue after the callback of task t has been taken from it.
LEMMA QueueRest ==
  ASSUME NEW q \in Seq(Callbacks), NEW s, NEW s2, QueueOK(q, s), NEW t \in Tasks,
         s[t] \notin Gone,
         \A i \in DOMAIN q : q[i].op = "run" => q[i].task # t,
         \A u \in Tasks \ {t} : /\ s[u] = "ready" => s2[u] = "ready"
                                /\ s[u] \in Gone => s2[u] \in Gone
  PROVE  QueueOK(q, s2)
<1>1. \A i \in DOMAIN q : q[i] \in Callbacks
  OBVIOUS
<1>2. \A i \in DOMAIN q : q[i].frames \subseteq Tasks
  BY <1>1 DEF Callbacks
<1>3. QED
  BY <1>2 DEF QueueOK

\* What the invariant says about the task that is on the CPU.
LEMMA Runner ==
  ASSUME IInv, NEW r \in Tasks, r = running
  PROVE  /\ pst # "running" /\ st[r] = "running"
         /\ r \in tasks \/ r \in Pending \/ r \in Outsiders
         /\ \A p \in Pending : starter[p] # r
         /\ r \notin Outsiders => open /\ hasParent
<1>1. NoTask \notin Tasks
  BY NurseryAssumption DEF NurseryAssumption
<1>2. pst # "running" /\ st[r] = "running"
  BY <1>1 DEF IInv, LifeOK, Init
<1>3. r \in tasks \/ r \in Pending \/ r \in Outsiders
  BY <1>2 DEF IInv, TypeOK, LifeOK, Pending, StartedBy, Live
<1>4. \A p \in Pending : starter[p] # r
  BY <1>2 DEF IInv, PendingOK
<1>5. Pending # {} => pendingTaskCount # 0
  <2>1. Pending \in SUBSET Tasks
    BY DEF Pending, StartedBy
  <2>2. pendingTaskCount = Cardinality(Pending)
    BY DEF IInv, CountsMatch, Pending
  <2>3. QED
    BY <2>1, <2>2, CardinalitySmall
<1>6. QED
  BY <1>2, <1>3, <1>4, <1>5 DEF IInv, OpenWhileInhabited

\* The executor resumes a task: the frames it owned through start() go.
LEMMA StepRunTask ==
  ASSUME IInv, RunTask
  PROVE  IInv'
<1> DEFINE q == Tail(queue)
<1>0. /\ tasks \subseteq Tasks /\ Outsiders \subseteq Tasks /\ queue \in Seq(Callbacks)
      /\ NoTask \notin Tasks /\ queue # <<>> /\ Head(queue).op = "run"
      /\ running = NoTask /\ pst # "running" /\ QueueOK(queue, st)
  BY NurseryAssumption DEF NurseryAssumption, IInv, TypeOK, RunTask, Idle
<1>a. PICK t : t = Head(queue).task
  OBVIOUS
<1> DEFINE G == OwnedBy({t})
<1>1. /\ t \in Tasks /\ st[t] = "ready" /\ q \in Seq(Callbacks) /\ QueueOK(q, st)
      /\ \A i \in DOMAIN q : q[i].op = "run" => q[i].task # t
  BY <1>0, <1>a, QueueTake
<1>2. /\ running' = t /\ queue' = q
      /\ st' = [u \in Tasks |-> IF u = t THEN "running"
                                ELSE IF u \in G THEN "destroyed" ELSE st[u]]
      /\ starter' = [u \in Tasks |-> IF u \in G THEN NoTask ELSE starter[u]]
      /\ UNCHANGED <<cxl, aw, nurseryVars, parentVars>>
  BY <1>1, <1>a DEF RunTask, OwnedBy
<1>3. UNCHANGED <<tasks, taskCount, pendingTaskCount, open, cancelling, hasParent, error, pst, pcxl>>
  BY <1>2 DEF nurseryVars, parentVars
<1>4. \A u \in Tasks : /\ u \in G <=> starter[u] = t /\ st[u] = "finished"
                       /\ u # t /\ u \notin G => st'[u] = st[u]
                       /\ u \in G => st'[u] = "destroyed" /\ starter'[u] = NoTask
                       /\ u \notin G => starter'[u] = starter[u]
  BY <1>1, <1>2 DEF OwnedBy
<1> HIDE DEF q, G
<1>5. st'[t] = "running" /\ starter'[t] = starter[t]
  BY <1>1, <1>2, <1>4
<1>6. QueueOK(queue', st')
  <2>1. /\ st[t] \notin Gone
        /\ \A u \in Tasks \ {t} : /\ st[u] = "ready" => st'[u] = "ready"
                                  /\ st[u] \in Gone => st'[u] \in Gone
    BY <1>1, <1>4 DEF Gone
  <2>2. QueueOK(q, st')
    BY <1>1, <2>1, QueueRest
  <2>3. QED
    BY <1>2, <2>2
<1>7. Pending' = Pending
  BY <1>0, <1>1, <1>4, <1>5 DEF Pending, StartedBy
<1>8. TypeOK'
  BY <1>1, <1>2, <1>3 DEF IInv, TypeOK
<1>9. LifeOK'
  <2>1. \A u \in Tasks : st'[u] = "running" => u = running'
    BY <1>0, <1>1, <1>2, <1>4 DEF IInv, LifeOK
  <2>2. \A u \in Tasks : st'[u] = "unborn" => ~cxl'[u] /\ starter'[u] = NoTask /\ u \notin Outsiders
    BY <1>1, <1>2, <1>4, <1>5 DEF IInv, LifeOK
  <2>3. \A u \in Tasks : u \in tasks => u \notin G
    BY <1>0, <1>1, <1>4 DEF IInv, LifeOK
  <2>4. \A u \in Tasks : u \in tasks' => /\ starter'[u] = NoTask /\ st'[u] \in Live
                                         /\ u \notin Outsiders
    BY <1>3, <1>4, <1>5, <2>3 DEF IInv, LifeOK, Live
  <2>5. \A u \in Tasks : st'[u] \in Live => u \in tasks' \/ starter'[u] # NoTask \/ u \in Outsiders
    BY <1>1, <1>3, <1>4, <1>5 DEF IInv, LifeOK, Live
  <2>6. \A u \in Tasks : starter'[u] # NoTask => u \notin Outsiders
    BY <1>4 DEF IInv, LifeOK
  <2>7. QED
    BY <1>2, <1>5, <2>1, <2>2, <2>4, <2>5, <2>6 DEF LifeOK
<1>10. PendingOK'
  <2>1. \A p \in Pending : /\ p \in Tasks /\ starter[p] \in Tasks /\ st[p] # "finished"
                           /\ st[starter[p]] = "suspended" /\ st[p] \in Live
    BY DEF Pending, StartedBy, IInv, PendingOK
  <2>2. \A p \in Pending : /\ st'[p] \in Live /\ starter'[p] = starter[p]
                           /\ st'[starter[p]] = "suspended"
    BY <1>1, <1>4, <1>5, <2>1 DEF Live
  <2>3. QED
    BY <1>2, <1>3, <1>7, <2>2 DEF IInv, PendingOK
<1>11. CountsMatch'
  BY <1>3, <1>7 DEF IInv, CountsMatch, Pending
<1>12. QED
  BY <1>0, <1>2, <1>3, <1>6, <1>8, <1>9, <1>10, <1>11 DEF IInv, OpenWhileInhabited

\* The executor destroys the frames of terminated tasks.
LEMMA StepRunDestroy ==
  ASSUME IInv, RunDestroy
  PROVE  IInv'
<1> DEFINE q == Tail(queue)
           F == Head(queue).frames
           G == F \cup OwnedBy(F)
<1>0. /\ tasks \subseteq Tasks /\ Outsiders \subseteq Tasks /\ queue \in Seq(Callbacks)
      /\ NoTask \notin Tasks /\ queue # <<>> /\ pst # "running" /\ QueueOK(queue, st)
  BY NurseryAssumption DEF NurseryAssumption, IInv, TypeOK, RunDestroy, Idle
<1>1. /\ q \in Seq(Callbacks) /\ QueueOK(q, st) /\ \A u \in F : st[u] \in Gone
  BY <1>0, QueueTake
<1>2. /\ queue' = q
      /\ st' = [u \in Tasks |-> IF u \in G THEN "destroyed" ELSE st[u]]
      /\ starter' = [u \in Tasks |-> IF u \in G THEN NoTask ELSE starter[u]]
      /\ UNCHANGED <<cxl, aw, nurseryVars, parentVars, running>>
  BY DEF RunDestroy
<1>3. UNCHANGED <<tasks, taskCount, pendingTaskCount, open, cancelling, hasParent, error, pst, pcxl>>
  BY <1>2 DEF nurseryVars, parentVars
<1>4. \A u \in G : st[u] \in Gone
  BY <1>1 DEF OwnedBy, Gone
<1> HIDE DEF q, F, G
<1>5. \A u \in Tasks : /\ u \notin G => st'[u] = st[u] /\ starter'[u] = starter[u]
                       /\ u \in G => st'[u] = "destroyed" /\ starter'[u] = NoTask
  BY <1>2
<1>6. QueueOK(queue', st')
  <2>1. \A u \in Tasks : /\ st[u] = "ready" => st'[u] = "ready"
                         /\ st[u] \in Gone => st'[u] \in Gone
    BY <1>4, <1>5 DEF Gone
  <2>2. QueueOK(q, st')
    BY <1>1, <2>1, QueueKept
  <2>3. QED
    BY <1>2, <2>2
<1>7. \A p \in Pending : p \notin G /\ p \in Tasks /\ starter[p] \notin G /\ starter[p] \in Tasks
  BY <1>4 DEF Pending, StartedBy, IInv, PendingOK, Live, Gone
<1>8. Pending' = Pending
  BY <1>0, <1>5, <1>7 DEF Pending, StartedBy
<1>9. TypeOK'
  BY <1>1, <1>2, <1>3 DEF IInv, TypeOK
<1>10. LifeOK'
  <2>1. \A u \in Tasks : st[u] \in Live \cup {"unborn"} => u \notin G
    BY <1>4 DEF Gone, Live
  <2>2. running' # NoTask => st'[running'] = "running"
    BY <1>0, <1>2, <1>5, <2>1 DEF IInv, TypeOK, LifeOK, Live
  <2>3. \A u \in Tasks : /\ st'[u] = "running" => u = running'
                         /\ st'[u] = "unborn" => ~cxl'[u] /\ starter'[u] = NoTask /\ u \notin Outsiders
    BY <1>2, <1>5 DEF IInv, LifeOK
  <2>4. \A u \in Tasks : u \in tasks' => /\ starter'[u] = NoTask /\ st'[u] \in Live
                                         /\ u \notin Outsiders
    BY <1>3, <1>5, <2>1 DEF IInv, LifeOK
  <2>5. \A u \in Tasks : /\ st'[u] \in Live => u \in tasks' \/ starter'[u] # NoTask \/ u \in Outsiders
                         /\ starter'[u] # NoTask => u \notin Outsiders
    BY <1>3, <1>5 DEF IInv, LifeOK, Live
  <2>6. QED
    BY <2>2, <2>3, <2>4, <2>5 DEF LifeOK
<1>11. PendingOK'
  BY <1>2, <1>3, <1>5, <1>7, <1>8 DEF IInv, PendingOK
<1>12. CountsMatch'
  BY <1>3, <1>8 DEF IInv, CountsMatch, Pending
<1>13. QED
  BY <1>0, <1>2, <1>3, <1>6, <1>9, <1>10, <1>11, <1>12 DEF IInv, OpenWhileInhabited

\* A step that changes only the parent and callbacks that concern it.
LEMMA StepOfParent ==
  ASSUME IInv, pst # "running", pst' \in {"ready", "resumed", "cancelled"},
         queue' \in Seq(Callbacks), QueueOK(queue', st),
         UNCHANGED <<promiseVars, nurseryVars, pcxl, running>>
  PROVE  IInv'
<1>1. UNCHANGED <<st, cxl, aw, starter, tasks, taskCount, pendingTaskCount, open, cancelling,
                  hasParent, error, pcxl, running>>
  BY DEF promiseVars, nurseryVars
<1>2. TypeOK'
  BY <1>1 DEF IInv, TypeOK
<1>3. LifeOK' /\ PendingOK' /\ CountsMatch' /\ OpenWhileInhabited'
  <2>1. LifeOK'
    BY <1>1 DEF IInv, LifeOK
  <2>2. PendingOK'
    BY <1>1 DEF IInv, PendingOK, Pending, StartedBy
  <2>3. CountsMatch' /\ OpenWhileInhabited'
    BY <1>1 DEF IInv, CountsMatch, StartedBy, OpenWhileInhabited
  <2>4. QED
    BY <2>1, <2>2, <2>3
<1>4. QED
  BY <1>1, <1>2, <1>3 DEF IInv

\* The parent's proxy handle is resumed.
LEMMA StepRunResumeParent ==
  ASSUME IInv, RunResumeParent
  PROVE  IInv'
<1> DEFINE q == Tail(queue) e == <<RunParent>>
<1>0. queue \in Seq(Callbacks) /\ queue # <<>> /\ pst # "running" /\ QueueOK(queue, st)
  BY DEF IInv, TypeOK, RunResumeParent, Idle
<1>1. q \in Seq(Callbacks) /\ QueueOK(q, st)
  BY <1>0, QueueTake
<1>2. e \in Seq(Callbacks) /\ \A i \in DOMAIN e : e[i].op # "run" /\ \A t \in e[i].frames : st[t] \in Gone
  BY DEF RunParent, Callbacks
<1>3. Append(q, RunParent) = q \o e
  BY <1>1
<1>4. /\ queue' = q \/ queue' = Append(q, RunParent)
      /\ pst' \in {"ready", "resumed", "cancelled"}
      /\ UNCHANGED <<promiseVars, nurseryVars, pcxl, running>>
  BY DEF RunResumeParent
<1> DEFINE a == q \o e
<1>5. queue' = q \/ queue' = a
  BY <1>3, <1>4
<1>6. QueueOK(queue', st) /\ queue' \in Seq(Callbacks)
  <2> HIDE DEF q, e
  <2>1. QueueOK(a, st) /\ a \in Seq(Callbacks)
    BY <1>1, <1>2, QueueConcat
  <2> HIDE DEF a
  <2>2. QED
    BY <1>1, <1>5, <2>1
<1>7. QED
  BY <1>0, <1>4, <1>6, StepOfParent

\* The parent's next step begins.
LEMMA StepRunRunParent ==
  ASSUME IInv, RunRunParent
  PROVE  IInv'
<1> DEFINE q == Tail(queue)
<1>0. queue \in Seq(Callbacks) /\ queue # <<>> /\ pst # "running" /\ QueueOK(queue, st)
  BY DEF IInv, TypeOK, RunRunParent, Idle
<1>1. q \in Seq(Callbacks) /\ QueueOK(q, st)
  BY <1>0, QueueTake
<1>2. /\ queue' = q /\ pst' = "resumed"
      /\ UNCHANGED <<promiseVars, nurseryVars, pcxl, running>>
  BY DEF RunRunParent
<1>3. QED
  BY <1>0, <1>1, <1>2, StepOfParent

\* The nursery is opened and its block scheduled.
LEMMA StepOpenWithTask ==
  ASSUME IInv, OpenWithTask
  PROVE  IInv'
<1>0. /\ Init /\ Body \in Tasks /\ Body \notin Outsiders /\ NoTask \notin Tasks
      /\ queue \in Seq(Callbacks) /\ QueueOK(queue, st) /\ pcxl \in BOOLEAN
  BY NurseryAssumption DEF NurseryAssumption, IInv, OpenWithTask, TypeOK
<1>1. /\ st[Body] = "unborn" /\ queue = <<>> /\ running = NoTask /\ tasks = {}
      /\ \A t \in Tasks : starter[t] = NoTask /\ ~cxl[t]
      /\ pendingTaskCount = 0
  BY <1>0 DEF Init
<1>2. /\ st' = [st EXCEPT ![Body] = "ready"] /\ cxl' = [cxl EXCEPT ![Body] = pcxl]
      /\ open' /\ hasParent' /\ open' = TRUE /\ hasParent' = TRUE
      /\ cancelling' = pcxl /\ tasks' = {Body} /\ taskCount' = 1
      /\ queue' = Append(queue, Run(Body)) /\ pst' = "awaiting"
      /\ UNCHANGED <<aw, starter, pendingTaskCount, error, pcxl, running>>
  BY DEF OpenWithTask
<1>3. QueueOK(queue', st') /\ queue' \in Seq(Callbacks)
  <2>1. /\ st'[Body] = "ready" /\ st[Body] # "ready" /\ st[Body] \notin Gone
        /\ \A u \in Tasks \ {Body} : /\ st[u] = "ready" => st'[u] = "ready"
                                     /\ st[u] \in Gone => st'[u] \in Gone
    BY <1>0, <1>1, <1>2 DEF Gone, IInv, TypeOK
  <2>2. QueueOK(Append(queue, Run(Body)), st') /\ Append(queue, Run(Body)) \in Seq(Callbacks)
    BY <1>0, <2>1, QueueRun
  <2>3. QED
    BY <1>2, <2>2
<1>4. TypeOK'
  BY <1>0, <1>2, <1>3 DEF IInv, TypeOK
<1>5. Pending' = {}
  BY <1>0, <1>1, <1>2 DEF Pending, StartedBy
<1>6. /\ st'[Body] = "ready" /\ cxl'[Body] = pcxl
      /\ \A t \in Tasks \ {Body} : st'[t] = st[t] /\ ~cxl'[t]
      /\ \A t \in Tasks : starter'[t] = NoTask
  BY <1>0, <1>1, <1>2 DEF IInv, TypeOK
<1>7. LifeOK'
  <2>1. \A t \in Tasks \ {Body} : /\ t \in Outsiders => st[t] = "suspended"
                                  /\ t \notin Outsiders => st[t] = "unborn"
    BY <1>0 DEF Init
  <2>2. QED
    BY <1>0, <1>1, <1>2, <1>6, <2>1 DEF LifeOK, Live
<1>8. PendingOK'
  BY <1>5 DEF PendingOK
<1>9. CountsMatch'
  <2>1. Cardinality({Body}) = 1 /\ Cardinality({}) = 0
    BY <1>0, CardinalitySmall
  <2>2. QED
    BY <1>1, <1>2, <1>5, <2>1 DEF CountsMatch, Pending
<1>10. QED
  BY <1>0, <1>2, <1>3, <1>4, <1>6, <1>7, <1>8, <1>9 DEF IInv, OpenWhileInhabited

\* The nursery's block ends before a task exists.
LEMMA StepOpenWithoutTask ==
  ASSUME IInv, NEW outcome \in {"join", "cancel", "throw"}, OpenWithoutTask(outcome)
  PROVE  IInv'
<1> DEFINE e == <<ResumeParent>>
<1>0. /\ Init /\ Body \in Tasks /\ NoTask \notin Tasks
      /\ queue \in Seq(Callbacks) /\ QueueOK(queue, st) /\ pcxl \in BOOLEAN
  BY NurseryAssumption DEF NurseryAssumption, IInv, OpenWithoutTask, TypeOK
<1>1. /\ queue' = Append(queue, ResumeParent) /\ pst' = "awaiting"
      /\ cancelling' \in BOOLEAN /\ error' \in Tasks \cup {NoTask}
      /\ UNCHANGED <<st, cxl, aw, starter, tasks, taskCount, pendingTaskCount, open, hasParent,
                     pcxl, running>>
  BY <1>0 DEF OpenWithoutTask, promiseVars
<1>2. e \in Seq(Callbacks) /\ \A i \in DOMAIN e : e[i].op # "run" /\ \A t \in e[i].frames : st[t] \in Gone
  BY DEF ResumeParent, Callbacks
<1>3. queue' = queue \o e
  BY <1>0, <1>1
<1> HIDE DEF e
<1>4. QueueOK(queue', st) /\ queue' \in Seq(Callbacks)
  BY <1>0, <1>2, <1>3, QueueConcat
<1>5. TypeOK'
  BY <1>1, <1>4 DEF IInv, TypeOK
<1>6. LifeOK' /\ PendingOK' /\ CountsMatch' /\ OpenWhileInhabited'
  <2>1. LifeOK'
    BY <1>1 DEF IInv, LifeOK
  <2>2. PendingOK'
    BY <1>1 DEF IInv, PendingOK, Pending, StartedBy
  <2>3. CountsMatch' /\ OpenWhileInhabited'
    BY <1>1 DEF IInv, CountsMatch, StartedBy, OpenWhileInhabited
  <2>4. QED
    BY <2>1, <2>2, <2>3
<1>7. tasks' = {}
  BY <1>0, <1>1 DEF Init
<1>8. QED
  BY <1>1, <1>4, <1>5, <1>6, <1>7 DEF IInv

\* A task is started and adopted.
LEMMA StepStart ==
  ASSUME IInv, NEW r \in Tasks, NEW t \in Tasks, Start(r, t)
  PROVE  IInv'
<1>0. /\ tasks \subseteq Tasks /\ Outsiders \subseteq Tasks /\ queue \in Seq(Callbacks)
      /\ NoTask \notin Tasks /\ QueueOK(queue, st) /\ cancelling \in BOOLEAN
      /\ st[t] = "unborn" /\ r = running /\ (r \in Outsiders => open)
  BY NurseryAssumption DEF NurseryAssumption, IInv, TypeOK, Start, MayUse
<1>1. /\ pst # "running" /\ open /\ hasParent
      /\ ~cxl[t] /\ starter[t] = NoTask /\ t \notin Outsiders /\ t \notin tasks
  BY Zenon, <1>0, Runner DEF IInv, LifeOK, Live
<1>2. /\ tasks' = tasks \cup {t} /\ taskCount' = taskCount + 1
      /\ st' = [st EXCEPT ![t] = "ready"] /\ cxl' = [cxl EXCEPT ![t] = Adopted(t)]
      /\ queue' = Append(queue, Run(t))
      /\ UNCHANGED <<aw, starter, pendingTaskCount, open, cancelling, hasParent, error, pst, pcxl, running>>
  BY DEF Start, parentVars
<1>3. Adopted(t) = cancelling
  BY <1>0, <1>1 DEF Adopted, IInv, TypeOK
<1>4. QueueOK(queue', st') /\ queue' \in Seq(Callbacks)
  <2>1. /\ st'[t] = "ready" /\ st[t] # "ready" /\ st[t] \notin Gone
        /\ \A u \in Tasks \ {t} : /\ st[u] = "ready" => st'[u] = "ready"
                                  /\ st[u] \in Gone => st'[u] \in Gone
    BY <1>0, <1>2 DEF Gone, IInv, TypeOK
  <2>2. QueueOK(Append(queue, Run(t)), st') /\ Append(queue, Run(t)) \in Seq(Callbacks)
    BY <1>0, <2>1, QueueRun
  <2>3. QED
    BY <1>2, <2>2
<1>5. /\ taskCount' \in Nat /\ taskCount' = Cardinality(tasks')
  <2>1. tasks \in SUBSET Tasks /\ t \in Tasks \ tasks
    BY <1>0, <1>1
  <2>2. Cardinality(tasks) \in Nat /\ Cardinality(tasks \cup {t}) = Cardinality(tasks) + 1
    BY <2>1, CardinalityPlus
  <2>3. QED
    BY <1>2, <2>2 DEF IInv, CountsMatch
<1>6. TypeOK'
  BY <1>0, <1>2, <1>3, <1>4, <1>5 DEF IInv, TypeOK
<1>7. \A u \in Tasks : /\ st'[u] = IF u = t THEN "ready" ELSE st[u]
                       /\ cxl'[u] = IF u = t THEN cancelling ELSE cxl[u]
                       /\ starter'[u] = starter[u]
  BY <1>2, <1>3 DEF IInv, TypeOK
<1>8. Pending' = Pending /\ \A p \in Pending : p # t /\ starter[p] # t /\ p \in Tasks /\ starter[p] \in Tasks
  <2>1. \A p \in Pending : p # t /\ starter[p] # t /\ p \in Tasks /\ starter[p] \in Tasks
    BY <1>0, <1>1 DEF Pending, StartedBy, IInv, PendingOK
  <2>2. Pending' = Pending
    BY <1>0, <1>1, <1>2, <1>7 DEF Pending, StartedBy
  <2>3. QED
    BY <2>1, <2>2
<1>9. LifeOK'
  <2>1. running' # NoTask => st'[running'] = "running"
    BY <1>0, <1>2, <1>7, Runner
  <2>2. ASSUME NEW u \in Tasks
        PROVE  /\ st'[u] = "running" => u = running'
               /\ st'[u] = "unborn" => ~cxl'[u] /\ starter'[u] = NoTask /\ u \notin Outsiders
               /\ u \in tasks' => starter'[u] = NoTask /\ st'[u] \in Live /\ u \notin Outsiders
               /\ st'[u] \in Live => u \in tasks' \/ starter'[u] # NoTask \/ u \in Outsiders
               /\ starter'[u] # NoTask => u \notin Outsiders
    <3>1. CASE u = t
      BY <1>1, <1>2, <1>7, <3>1 DEF Live
    <3>2. CASE u # t
      <4>1. /\ st'[u] = st[u] /\ cxl'[u] = cxl[u] /\ starter'[u] = starter[u]
            /\ (u \in tasks' <=> u \in tasks) /\ running' = running
        BY <1>2, <1>7, <3>2
      <4>2. QED
        BY <4>1 DEF IInv, LifeOK
    <3>3. QED
      BY <3>1, <3>2
  <2>3. QED
    BY <2>1, <2>2 DEF LifeOK
<1>10. PendingOK'
  <2>1. \A p \in Pending : /\ st'[p] = st[p] /\ cxl'[p] = cxl[p] /\ starter'[p] = starter[p]
                           /\ st'[starter[p]] = st[starter[p]] /\ cxl'[starter[p]] = cxl[starter[p]]
    BY <1>7, <1>8
  <2>2. aw' = aw /\ tasks \subseteq tasks'
    BY <1>2
  <2>3. QED
    BY <1>8, <2>1, <2>2 DEF IInv, PendingOK
<1>11. CountsMatch'
  BY <1>2, <1>5, <1>8 DEF IInv, CountsMatch, Pending
<1>12. \A u \in tasks' : cxl'[u] = cancelling'
  BY <1>0, <1>2, <1>7 DEF IInv
<1>13. QED
  BY <1>1, <1>2, <1>4, <1>6, <1>9, <1>10, <1>11, <1>12 DEF IInv, OpenWhileInhabited

\* A task is started by one that waits for it.
LEMMA StepStartAndWait ==
  ASSUME IInv, NEW r \in Tasks, NEW p \in Tasks, StartAndWait(r, p)
  PROVE  IInv'
<1>0. /\ tasks \subseteq Tasks /\ Outsiders \subseteq Tasks /\ queue \in Seq(Callbacks)
      /\ NoTask \notin Tasks /\ QueueOK(queue, st)
      /\ st[p] = "unborn" /\ r = running /\ (r \in Outsiders => open) /\ starter[r] = NoTask
      /\ open = hasParent
  BY NurseryAssumption DEF NurseryAssumption, IInv, TypeOK, StartAndWait, MayUse
<1>1. /\ pst # "running" /\ open /\ hasParent /\ st[r] = "running" /\ r # p
      /\ \A q \in Pending : starter[q] # r
  BY <1>0, Runner
<1>2. /\ starter[p] = NoTask /\ p \notin Outsiders /\ p \notin tasks /\ r \in tasks \cup Outsiders
  BY Zenon, <1>0, <1>1 DEF IInv, LifeOK, Live
<1>3. /\ pendingTaskCount' = pendingTaskCount + 1
      /\ st' = [st EXCEPT ![r] = "suspended", ![p] = "ready"]
      /\ aw' = [aw EXCEPT ![r] = "start"] /\ cxl' = [cxl EXCEPT ![p] = cxl[r]]
      /\ starter' = [starter EXCEPT ![p] = r] /\ queue' = Append(queue, Run(p))
      /\ running' = NoTask
      /\ UNCHANGED <<tasks, taskCount, open, cancelling, hasParent, error, pst, pcxl>>
  BY DEF StartAndWait, OneMorePending, parentVars
<1>4. /\ st'[r] = "suspended" /\ st'[p] = "ready" /\ aw'[r] = "start"
      /\ cxl'[p] = cxl[r] /\ cxl'[r] = cxl[r] /\ starter'[p] = r
      /\ \A u \in Tasks \ {r, p} : st'[u] = st[u]
      /\ \A u \in Tasks \ {p} : cxl'[u] = cxl[u] /\ starter'[u] = starter[u]
      /\ \A u \in Tasks \ {r} : aw'[u] = aw[u]
      /\ tasks' = tasks
  BY <1>1, <1>3 DEF IInv, TypeOK
<1>5. QueueOK(queue', st') /\ queue' \in Seq(Callbacks)
  <2>1. /\ st'[p] = "ready" /\ st[p] # "ready" /\ st[p] \notin Gone
        /\ \A u \in Tasks \ {p} : /\ st[u] = "ready" => st'[u] = "ready"
                                  /\ st[u] \in Gone => st'[u] \in Gone
    BY Zenon, <1>0, <1>1, <1>4 DEF Gone
  <2>2. QueueOK(Append(queue, Run(p)), st') /\ Append(queue, Run(p)) \in Seq(Callbacks)
    BY <1>0, <2>1, QueueRun
  <2>3. QED
    BY <1>3, <2>2
<1>6. \A q \in Pending : /\ q \notin {p, r} /\ starter[q] \notin {p, r}
                         /\ q \in Tasks /\ starter[q] \in Tasks
  BY <1>0, <1>1, <1>2 DEF Pending, StartedBy, IInv, PendingOK
<1>7. Pending' = Pending \cup {p} /\ p \in Tasks \ Pending /\ Pending \in SUBSET Tasks
  <2>1. \A u \in Tasks : u \in Pending' <=> u \in Pending \cup {p}
    BY Zenon, <1>0, <1>1, <1>2, <1>4 DEF Pending, StartedBy
  <2>2. Pending' \subseteq Tasks /\ Pending \subseteq Tasks
    BY DEF Pending, StartedBy
  <2>3. QED
    BY <1>6, <2>1, <2>2
<1>8. pendingTaskCount' \in Nat /\ pendingTaskCount' = Cardinality(Pending')
  <2>1. Cardinality(Pending) \in Nat /\ Cardinality(Pending \cup {p}) = Cardinality(Pending) + 1
    BY <1>7, CardinalityPlus
  <2>2. QED
    BY <1>3, <1>7, <2>1 DEF IInv, CountsMatch, Pending
<1>9. TypeOK'
  BY <1>0, <1>3, <1>5, <1>8 DEF IInv, TypeOK
<1>10. LifeOK'
  <2>1. \A u \in Tasks : st'[u] = "running" => u = running'
    BY <1>0, <1>4 DEF IInv, LifeOK
  <2>2. \A u \in Tasks : st'[u] = "unborn" => ~cxl'[u] /\ starter'[u] = NoTask /\ u \notin Outsiders
    BY Zenon, <1>4 DEF IInv, LifeOK
  <2>3. \A u \in Tasks : u \in tasks' => starter'[u] = NoTask /\ st'[u] \in Live /\ u \notin Outsiders
    <3>1. \A u \in tasks : starter[u] = NoTask /\ st[u] \in Live /\ u \notin Outsiders /\ u # p
      BY <1>0, <1>2 DEF IInv, LifeOK
    <3>2. st'[r] \in Live
      BY <1>4 DEF Live
    <3>3. \A u \in Tasks : u = r \/ u = p \/ u \in Tasks \ {r, p}
      OBVIOUS
    <3>4. QED
      BY <1>1, <1>4, <3>1, <3>2, <3>3
  <2>4. \A u \in Tasks : /\ st'[u] \in Live => u \in tasks' \/ starter'[u] # NoTask \/ u \in Outsiders
                         /\ starter'[u] # NoTask => u \notin Outsiders
    <3>1. \A u \in Tasks : /\ st[u] \in Live => u \in tasks \/ starter[u] # NoTask \/ u \in Outsiders
                           /\ starter[u] # NoTask => u \notin Outsiders
      BY Zenon DEF IInv, LifeOK
    <3>2. starter'[p] # NoTask /\ r \in tasks' \cup Outsiders /\ starter'[r] = NoTask
      BY <1>0, <1>1, <1>2, <1>3, <1>4
    <3>3. \A u \in Tasks : u = r \/ u = p \/ u \in Tasks \ {r, p}
      OBVIOUS
    <3>4. QED
      BY Zenon, <1>1, <1>2, <1>4, <3>1, <3>2, <3>3
  <2>5. running' = NoTask
    BY <1>3
  <2>6. QED
    BY <2>1, <2>2, <2>3, <2>4, <2>5 DEF LifeOK
<1>11. PendingOK'
  <2>1. \A q \in Pending : /\ st'[q] = st[q] /\ starter'[q] = starter[q] /\ cxl'[q] = cxl[q]
                           /\ st'[starter[q]] = st[starter[q]] /\ aw'[starter[q]] = aw[starter[q]]
                           /\ cxl'[starter[q]] = cxl[starter[q]]
    BY <1>4, <1>6
  <2>2. \A q \in Pending' : /\ st'[q] \in Live /\ starter'[q] \in tasks' \cup Outsiders
                            /\ st'[starter'[q]] = "suspended" /\ aw'[starter'[q]] = "start"
                            /\ cxl'[q] = cxl'[starter'[q]]
    <3>1. \A q \in Pending : /\ st[q] \in Live /\ starter[q] \in tasks \cup Outsiders
                             /\ st[starter[q]] = "suspended" /\ aw[starter[q]] = "start"
                             /\ cxl[q] = cxl[starter[q]]
      BY Zenon DEF IInv, PendingOK
    <3>2. st'[p] \in Live
      BY <1>4 DEF Live
    <3>3. \A q \in Pending' : q = p \/ q \in Pending
      BY <1>7
    <3>4. QED
      BY <1>2, <1>4, <2>1, <3>1, <3>2, <3>3
  <2>3. \A q, u \in Pending' : starter'[q] = starter'[u] => q = u
    <3>1. \A q, u \in Pending : starter'[q] = starter'[u] => q = u
      BY <2>1 DEF IInv, PendingOK
    <3>2. \A q \in Pending : starter'[q] # starter'[p]
      BY <1>1, <1>4, <1>6, <2>1
    <3>3. QED
      BY <1>7, <3>1, <3>2
  <2>4. QED
    BY <2>2, <2>3 DEF PendingOK
<1>12. CountsMatch'
  BY <1>3, <1>8 DEF IInv, CountsMatch, Pending
<1>13. \A u \in tasks' : cxl'[u] = cancelling'
  BY <1>0, <1>2, <1>3, <1>4 DEF IInv
<1>14. QED
  BY <1>1, <1>3, <1>5, <1>9, <1>10, <1>11, <1>12, <1>13 DEF IInv, OpenWhileInhabited
-----------------------------------------------------------------------------
(***************************************************************************)
(* The other actions.                                                      *)
(***************************************************************************)

\* A task being started calls its TaskStarted and is handed to the nursery.
LEMMA StepStarted ==
  ASSUME IInv, NEW p \in Tasks, Started(p)
  PROVE  IInv'
<1> DEFINE s == starter[p]
<1>0. /\ tasks \subseteq Tasks /\ Outsiders \subseteq Tasks /\ queue \in Seq(Callbacks)
      /\ NoTask \notin Tasks /\ QueueOK(queue, st) /\ cancelling \in BOOLEAN
      /\ p = running /\ s # NoTask /\ ~cxl[s]
  BY NurseryAssumption DEF NurseryAssumption, IInv, TypeOK, Started
<1>1. /\ p \in Pending /\ st[p] = "running" /\ p \notin tasks /\ p \notin Outsiders
      /\ pst # "running" /\ open /\ hasParent
  <2>1. p \notin tasks /\ p \notin Outsiders
    BY <1>0 DEF IInv, LifeOK
  <2>2. QED
    BY <1>0, <2>1, Runner
<1>2. /\ s \in tasks \cup Outsiders /\ s \in Tasks /\ s # p /\ st[s] = "suspended" /\ ~cxl[p]
      /\ \A q \in Pending : starter[q] = s => q = p
  BY <1>0, <1>1 DEF IInv, PendingOK, TypeOK
<1>3. /\ pendingTaskCount' = pendingTaskCount - 1
      /\ tasks' = tasks \cup {p} /\ taskCount' = taskCount + 1
      /\ st' = [st EXCEPT ![s] = "ready"] /\ aw' = [aw EXCEPT ![s] = "none"]
      /\ cxl' = [cxl EXCEPT ![p] = Adopted(p)] /\ starter' = [starter EXCEPT ![p] = NoTask]
      /\ queue' = Append(queue, Run(s))
      /\ UNCHANGED <<open, cancelling, hasParent, error, pst, pcxl, running>>
  BY DEF Started, Reparented, parentVars
<1>4. Adopted(p) = cancelling
  BY <1>0, <1>2 DEF Adopted, IInv, TypeOK
<1> HIDE DEF s
<1>5. /\ st'[s] = "ready" /\ cxl'[p] = cancelling /\ starter'[p] = NoTask
      /\ \A u \in Tasks \ {s} : st'[u] = st[u] /\ aw'[u] = aw[u]
      /\ \A u \in Tasks \ {p} : cxl'[u] = cxl[u] /\ starter'[u] = starter[u]
  BY <1>2, <1>3, <1>4 DEF IInv, TypeOK
<1>6. QueueOK(queue', st') /\ queue' \in Seq(Callbacks)
  <2>1. /\ st'[s] = "ready" /\ st[s] # "ready" /\ st[s] \notin Gone
        /\ \A u \in Tasks \ {s} : /\ st[u] = "ready" => st'[u] = "ready"
                                  /\ st[u] \in Gone => st'[u] \in Gone
    BY <1>2, <1>5 DEF Gone
  <2>2. QueueOK(Append(queue, Run(s)), st') /\ Append(queue, Run(s)) \in Seq(Callbacks)
    BY <1>0, <1>2, <2>1, QueueRun
  <2>3. QED
    BY <1>3, <2>2
<1>7. Pending' = Pending \ {p}
  BY <1>0, <1>1, <1>2, <1>5 DEF Pending, StartedBy
<1>8. pendingTaskCount' \in Nat /\ pendingTaskCount' = Cardinality(Pending')
  <2> DEFINE D == {p}
  <2>0. Cardinality(D) = 1
    BY CardinalitySmall
  <2>1. D \in SUBSET Pending /\ Pending' = Pending \ D
    BY <1>1, <1>7
  <2>2. Pending \in SUBSET Tasks
    BY DEF Pending, StartedBy
  <2> HIDE DEF D
  <2>3. /\ Cardinality(Pending) \in Nat /\ 1 =< Cardinality(Pending)
        /\ Cardinality(Pending \ D) = Cardinality(Pending) - 1
    BY <2>0, <2>1, <2>2, CardinalityMinus
  <2>4. pendingTaskCount = Cardinality(Pending)
    BY DEF IInv, CountsMatch, Pending
  <2>5. QED
    BY <1>3, <2>1, <2>3, <2>4
<1>9. taskCount' \in Nat /\ taskCount' = Cardinality(tasks')
  <2>1. tasks \in SUBSET Tasks /\ p \in Tasks \ tasks
    BY <1>0, <1>1
  <2>2. Cardinality(tasks) \in Nat /\ Cardinality(tasks \cup {p}) = Cardinality(tasks) + 1
    BY <2>1, CardinalityPlus
  <2>3. QED
    BY <1>3, <2>2 DEF IInv, CountsMatch
<1>10. TypeOK'
  BY <1>0, <1>2, <1>3, <1>4, <1>6, <1>8, <1>9 DEF IInv, TypeOK
<1>11. LifeOK'
  <2>1. /\ running' # NoTask => st'[running'] = "running"
        /\ \A u \in Tasks : st'[u] = "running" => u = running'
    BY <1>0, <1>1, <1>2, <1>3, <1>5 DEF IInv, LifeOK
  <2>2. \A u \in Tasks : st'[u] = "unborn" => ~cxl'[u] /\ starter'[u] = NoTask /\ u \notin Outsiders
    BY <1>1, <1>2, <1>5 DEF IInv, LifeOK
  <2>3. \A u \in Tasks : u \in tasks' => starter'[u] = NoTask /\ st'[u] \in Live /\ u \notin Outsiders
    BY <1>1, <1>2, <1>3, <1>5 DEF IInv, LifeOK, Live
  <2>4. \A u \in Tasks : /\ st'[u] \in Live => u \in tasks' \/ starter'[u] # NoTask \/ u \in Outsiders
                         /\ starter'[u] # NoTask => u \notin Outsiders
    BY <1>2, <1>3, <1>5 DEF IInv, LifeOK, Live
  <2>5. QED
    BY <2>1, <2>2, <2>3, <2>4 DEF LifeOK
<1>12. PendingOK'
  <2>1. \A q \in Pending' : /\ q \in Pending /\ q # p /\ q \in Tasks /\ starter[q] # s
                            /\ starter[q] # p /\ starter[q] \in Tasks /\ q # s
    <3>1. \A q \in Pending' : q \in Pending /\ q # p /\ q \in Tasks /\ starter[q] \in Tasks
      BY <1>7 DEF Pending, StartedBy
    <3>2. \A q \in Pending : starter[q] # p /\ q # s
      BY <1>0, <1>1, <1>2 DEF IInv, PendingOK, LifeOK, Pending, StartedBy
    <3>3. QED
      BY <1>2, <3>1, <3>2
  <2>2. \A q \in Pending' : /\ st'[q] = st[q] /\ st'[starter[q]] = st[starter[q]]
                            /\ aw'[starter[q]] = aw[starter[q]] /\ starter'[q] = starter[q]
                            /\ cxl'[q] = cxl[q] /\ cxl'[starter[q]] = cxl[starter[q]]
    BY <1>5, <2>1
  <2>3. ASSUME NEW q \in Pending'
        PROVE  /\ st'[q] \in Live /\ starter'[q] \in tasks' \cup Outsiders
               /\ st'[starter'[q]] = "suspended" /\ aw'[starter'[q]] = "start"
               /\ cxl'[q] = cxl'[starter'[q]]
    <3>1. /\ st[q] \in Live /\ starter[q] \in tasks \cup Outsiders
          /\ st[starter[q]] = "suspended" /\ aw[starter[q]] = "start"
          /\ cxl[q] = cxl[starter[q]]
      BY <2>1 DEF IInv, PendingOK
    <3>2. tasks \subseteq tasks'
      BY <1>3
    <3> QED
      BY <2>2, <3>1, <3>2
  <2>4. ASSUME NEW q \in Pending', NEW r \in Pending', starter'[q] = starter'[r] PROVE q = r
    <3>1. starter[q] = starter[r] /\ q \in Pending /\ r \in Pending
      BY <2>1, <2>2, <2>4
    <3> QED
      BY <3>1 DEF IInv, PendingOK
  <2>5. QED
    BY <2>3, <2>4, Zenon DEF PendingOK
<1>13. CountsMatch'
  BY <1>8, <1>9 DEF CountsMatch, Pending
<1>14. \A u \in tasks' : cxl'[u] = cancelling'
  BY <1>0, <1>1, <1>3, <1>5 DEF IInv
<1>15. QED
  BY <1>1, <1>3, <1>6, <1>10, <1>11, <1>12, <1>13, <1>14 DEF IInv, OpenWhileInhabited

\* An outsider is cancelled, and the task it is starting with it.
LEMMA StepCancelOutsider ==
  ASSUME IInv, NEW o \in Outsiders, CancelOutsider(o)
  PROVE  IInv'
<1> DEFINE none == {}
           out == IF SyncCancelled(o) THEN {o} ELSE {}
           dropped == StartedBy(out)
           told == {o} \cup StartedBy({o})
<1>0. /\ tasks \subseteq Tasks /\ Outsiders \subseteq Tasks /\ queue \in Seq(Callbacks)
      /\ taskCount \in Nat /\ pendingTaskCount \in Nat /\ Pending \subseteq Tasks
      /\ NoTask \notin Tasks /\ running = NoTask /\ pst # "running" /\ o \in Tasks
  BY NurseryAssumption DEF NurseryAssumption, IInv, TypeOK, Pending, StartedBy, CancelOutsider, Idle
<1>1. UNCHANGED <<tasks, taskCount, open, cancelling, hasParent, error, pst, pcxl, queue, running>>
  BY DEF CancelOutsider, parentVars
<1>2. Cardinality(none) = 0
  BY CardinalitySmall
<1>3. /\ Promises(out \cup dropped, {}, told)
      /\ pendingTaskCount' = pendingTaskCount - Cardinality(dropped)
  <2>1. CASE SyncCancelled(o)
    BY <2>1 DEF CancelOutsider
  <2>2. CASE ~SyncCancelled(o)
    <3>1. out = {} /\ dropped = {} /\ out \cup dropped = {}
      BY <2>2 DEF StartedBy
    <3>2. Promises({}, {}, told) /\ pendingTaskCount' = pendingTaskCount
      BY <2>2 DEF CancelOutsider
    <3> HIDE DEF out, dropped, told
    <3>3. QED
      BY <1>0, <1>2, <3>1, <3>2 DEF none
  <2>3. QED
    BY <2>1, <2>2
<1>4. out \in SUBSET Outsiders /\ out \in SUBSET Tasks /\ \A t \in out : SyncCancelled(t)
  BY <1>0
<1>5. /\ told \in SUBSET (tasks \cup Pending \cup Outsiders)
      /\ \A p \in Pending : starter[p] \in out => p \in dropped
  BY <1>0 DEF Pending, StartedBy
<1>6. dropped \in SUBSET Pending /\ \A t \in out \cup dropped : st[t] = "suspended"
  <2> HIDE DEF out
  <2>1. QED
    BY <1>4, Synchronous
<1>7. \A t \in tasks' : cxl'[t] = cancelling'
  <2>1. \A t \in tasks : t \notin told
    BY <1>0 DEF StartedBy, IInv, LifeOK
  <2> HIDE DEF told
  <2>2. QED
    BY <1>0, <1>1, <1>3, <2>1 DEF Promises, IInv, TypeOK
<1>8. ASSUME NEW p \in Pending PROVE cxl'[p] = cxl'[starter[p]]
  <2>1. /\ p \in Tasks /\ starter[p] \in tasks \cup Outsiders /\ cxl[p] = cxl[starter[p]]
        /\ starter[p] \in Tasks
    BY <1>0, <1>8 DEF IInv, PendingOK, Pending, StartedBy
  <2>2. p \in told <=> starter[p] = o
    BY <1>0, <1>8, <2>1 DEF IInv, LifeOK, Pending, StartedBy
  <2>3. starter[p] \in told <=> starter[p] = o
    BY <1>0, <2>1 DEF IInv, LifeOK, StartedBy
  <2> HIDE DEF told
  <2>4. QED
    BY <1>3, <2>1, <2>2, <2>3 DEF Promises
<1>9. Frees(<<>>, none) /\ queue' = queue \o <<>>
  BY <1>0, <1>1 DEF Frees
<1> HIDE DEF out, dropped, told
<1>10. /\ none \in SUBSET tasks /\ none \cup dropped \cup out = out \cup dropped
       /\ none \cup out = out /\ tasks' = tasks \ none
       /\ taskCount' = taskCount - Cardinality(none)
       /\ cancelling' \in BOOLEAN /\ open' \in BOOLEAN /\ hasParent' = open' /\ open' = open
       /\ error' \in Tasks \cup {NoTask} /\ pcxl' \in BOOLEAN
  BY <1>0, <1>1, <1>2 DEF IInv, TypeOK
<1>11. /\ \A t \in none \cup dropped \cup out : st[t] \in {"running", "suspended"}
       /\ \A p \in Pending : starter[p] \in none \cup out => p \in dropped
       /\ running' = IF running \in none \cup dropped \cup out THEN NoTask ELSE running
  BY <1>0, <1>1, <1>5, <1>6, <1>10
<1> HIDE DEF none
<1>12. Promises(none \cup dropped \cup out, {}, told)
  BY <1>3, <1>10
<1>13. QED
  BY Zenon, <1>0, <1>1, <1>3, <1>4, <1>5, <1>6, <1>7, <1>8, <1>9, <1>10, <1>11, <1>12, Departure


\* An awaited operation completes.
LEMMA StepComplete ==
  ASSUME IInv, NEW t \in Tasks, NEW mustResume \in BOOLEAN, Complete(t, mustResume)
  PROVE  IInv'
<1>0. /\ tasks \subseteq Tasks /\ Outsiders \subseteq Tasks /\ queue \in Seq(Callbacks)
      /\ NoTask \notin Tasks /\ QueueOK(queue, st) /\ pst # "running"
      /\ st[t] = "suspended" /\ aw[t] \in LeafKinds /\ UNCHANGED <<parentVars, running>>
  BY NurseryAssumption DEF NurseryAssumption, IInv, TypeOK, Complete
<1>1. aw[t] # "start" /\ t # running
  BY <1>0 DEF LeafKinds, IInv, LifeOK
<1>2. CASE Ends(t, FALSE, FALSE)
  <2>1. /\ st[t] \in {"running", "suspended"} /\ UNCHANGED parentVars
        /\ st[t] = "suspended" => aw[t] # "start" /\ ~FALSE
        /\ running' = IF t = running THEN NoTask ELSE running
    BY <1>0, <1>1
  <2>2. QED
    BY Zenon, <1>0, <1>2, <2>1, EndsStep
<1>3. CASE Promises({}, {t}, {}) /\ queue' = Append(queue, Run(t)) /\ UNCHANGED nurseryVars
  <2>1. UNCHANGED <<tasks, taskCount, pendingTaskCount, open, cancelling, hasParent, error, pst, pcxl, running>>
    BY <1>0, <1>3 DEF nurseryVars, parentVars
  <2>2. /\ st' = [u \in Tasks |-> IF u = t THEN "ready" ELSE st[u]]
        /\ aw' = [u \in Tasks |-> IF u = t THEN "none" ELSE aw[u]]
        /\ starter' = starter
    BY <1>3 DEF Promises
  <2>3. cxl' \in [Tasks -> BOOLEAN] /\ \A u \in Tasks : cxl'[u] = cxl[u]
    BY <1>3 DEF Promises, IInv, TypeOK
  <2>4. \A p \in Pending : starter[p] # t /\ p \in Tasks /\ starter[p] \in Tasks
    BY <1>1 DEF IInv, PendingOK, Pending, StartedBy
  <2>5. QueueOK(queue', st') /\ queue' \in Seq(Callbacks)
    <3>1. /\ st'[t] = "ready" /\ st[t] # "ready" /\ st[t] \notin Gone
          /\ \A u \in Tasks \ {t} : /\ st[u] = "ready" => st'[u] = "ready"
                                    /\ st[u] \in Gone => st'[u] \in Gone
      BY <1>0, <2>2 DEF Gone
    <3>2. QueueOK(Append(queue, Run(t)), st') /\ Append(queue, Run(t)) \in Seq(Callbacks)
      BY <1>0, <3>1, QueueRun
    <3>3. QED
      BY <1>3, <3>2
  <2>6. TypeOK'
    BY <2>1, <2>2, <2>3, <2>5 DEF IInv, TypeOK
  <2>7. Pending' = Pending
    BY <1>0, <2>2 DEF Pending, StartedBy
  <2>8. LifeOK'
    <3>1. running' # NoTask => running \in Tasks /\ st'[running'] = "running"
      BY <1>1, <2>1, <2>2 DEF IInv, TypeOK, LifeOK
    <3>2. QED
      BY <1>0, <2>1, <2>2, <2>3, <3>1 DEF IInv, LifeOK, Live
  <2>9. PendingOK'
    BY <2>1, <2>2, <2>3, <2>4, <2>7 DEF IInv, PendingOK, Live
  <2>10. CountsMatch' /\ OpenWhileInhabited' /\ \A u \in tasks' : cxl'[u] = cancelling'
    BY <1>0, <2>1, <2>3, <2>7 DEF IInv, CountsMatch, OpenWhileInhabited, Pending
  <2>11. QED
    BY <1>0, <2>1, <2>5, <2>6, <2>8, <2>9, <2>10 DEF IInv
<1>4. \/ Ends(t, FALSE, FALSE)
      \/ Promises({}, {t}, {}) /\ queue' = Append(queue, Run(t)) /\ UNCHANGED nurseryVars
  BY Zenon DEF Complete
<1>5. QED
  BY Zenon, <1>2, <1>3, <1>4

\* The running task suspends, or terminates if the operation is skipped.
LEMMA StepSuspend ==
  ASSUME IInv, NEW r \in Tasks, NEW k \in AwaitKinds, Suspend(r, k)
  PROVE  IInv'
<1>0. /\ tasks \subseteq Tasks /\ Outsiders \subseteq Tasks /\ queue \in Seq(Callbacks)
      /\ NoTask \notin Tasks /\ QueueOK(queue, st) /\ k \in LeafKinds
      /\ r = running /\ running' = NoTask /\ UNCHANGED parentVars
  BY NurseryAssumption DEF NurseryAssumption, IInv, TypeOK, Suspend
<1>1. /\ st[r] = "running" /\ pst # "running" /\ \A p \in Pending : starter[p] # r
  BY <1>0, Runner
<1>2. CASE Ends(r, FALSE, FALSE)
  <2>1. /\ st[r] \in {"running", "suspended"}
        /\ st[r] = "suspended" => aw[r] # "start" /\ ~FALSE
        /\ running' = IF r = running THEN NoTask ELSE running
    BY <1>0, <1>1
  <2>2. QED
    BY Zenon, <1>0, <1>1, <1>2, <2>1, EndsStep
<1>3. CASE /\ st' = [st EXCEPT ![r] = "suspended"] /\ aw' = [aw EXCEPT ![r] = k]
           /\ UNCHANGED <<cxl, starter, nurseryVars, queue>>
  <2>1. UNCHANGED <<tasks, taskCount, pendingTaskCount, open, cancelling, hasParent, error, pst, pcxl,
                    cxl, starter, queue>>
    BY <1>0, <1>3 DEF nurseryVars, parentVars
  <2>2. /\ st'[r] = "suspended" /\ \A u \in Tasks \ {r} : st'[u] = st[u] /\ aw'[u] = aw[u]
    BY <1>3 DEF IInv, TypeOK
  <2>3. QueueOK(queue', st') /\ queue' \in Seq(Callbacks)
    <3>1. \A u \in Tasks : /\ st[u] = "ready" => st'[u] = "ready"
                           /\ st[u] \in Gone => st'[u] \in Gone
      BY <1>1, <2>2 DEF Gone
    <3>2. QueueOK(queue, st')
      BY <1>0, <3>1, QueueKept
    <3>3. QED
      BY <1>0, <2>1, <3>2
  <2>4. TypeOK'
    BY <1>0, <1>3, <2>1 DEF IInv, TypeOK
  <2>5. Pending' = Pending /\ \A p \in Pending : p \in Tasks /\ starter[p] \in Tasks
    BY Zenon, <1>0, <1>1, <2>1, <2>2 DEF Pending, StartedBy
  <2>6. LifeOK'
    BY <1>0, <1>1, <2>1, <2>2 DEF IInv, LifeOK, Live
  <2>7. PendingOK'
    <3>1. \A p \in Pending : st'[p] \in Live
      BY <2>2, <2>5 DEF IInv, PendingOK, Live
    <3>2. \A p \in Pending : st'[starter[p]] = "suspended" /\ aw'[starter[p]] = "start"
      BY <1>1, <2>2, <2>5 DEF IInv, PendingOK
    <3>3. QED
      BY Zenon, <2>1, <2>5, <3>1, <3>2 DEF IInv, PendingOK
  <2>8. CountsMatch' /\ OpenWhileInhabited' /\ \A u \in tasks' : cxl'[u] = cancelling'
    BY <2>1, <2>5 DEF IInv, CountsMatch, OpenWhileInhabited, Pending
  <2>9. QED
    BY <1>1, <2>1, <2>3, <2>4, <2>6, <2>7, <2>8 DEF IInv
<1>4. \/ Ends(r, FALSE, FALSE)
      \/ /\ st' = [st EXCEPT ![r] = "suspended"] /\ aw' = [aw EXCEPT ![r] = k]
         /\ UNCHANGED <<cxl, starter, nurseryVars, queue>>
  BY Zenon DEF Suspend
<1>5. QED
  BY Zenon, <1>2, <1>3, <1>4

\* The running task returns.
LEMMA StepReturn ==
  ASSUME IInv, NEW r \in Tasks, Return(r)
  PROVE  IInv'
<1>1. r = running /\ running' = NoTask /\ UNCHANGED parentVars
  BY DEF Return
<1>2. st[r] = "running" /\ pst # "running"
  BY <1>1, Runner
<1>3. PICK retval \in {"join", "cancel", "value"} : Ends(r, retval = "cancel", FALSE)
  BY Zenon DEF Return
<1> DEFINE cancels == retval = "cancel"
<1>4. cancels \in BOOLEAN /\ Ends(r, cancels, FALSE)
  BY Zenon, <1>3
<1>5. /\ st[r] \in {"running", "suspended"} /\ (st[r] = "suspended" => aw[r] # "start" /\ ~cancels)
      /\ running' = IF r = running THEN NoTask ELSE running
  BY <1>1, <1>2
<1> HIDE DEF cancels
<1>6. QED
  BY Zenon, <1>1, <1>2, <1>4, <1>5, EndsStep

\* The running task throws.
LEMMA StepThrow ==
  ASSUME IInv, NEW r \in Tasks, Throw(r)
  PROVE  IInv'
<1>1. r = running /\ running' = NoTask /\ UNCHANGED parentVars /\ Ends(r, TRUE, TRUE)
  BY Zenon DEF Throw
<1>2. st[r] = "running" /\ pst # "running"
  BY <1>1, Runner
<1>3. /\ st[r] \in {"running", "suspended"} /\ (st[r] = "suspended" => aw[r] # "start" /\ ~TRUE)
      /\ running' = IF r = running THEN NoTask ELSE running
  BY <1>1, <1>2
<1>4. QED
  BY Zenon, <1>1, <1>2, <1>3, EndsStep

\* A step that changes no more than error_ and the parent's cancellation.
LEMMA StepNotes ==
  ASSUME IInv, pst # "running", pst' = pst, error' \in Tasks \cup {NoTask}, pcxl' \in BOOLEAN,
         UNCHANGED <<promiseVars, tasks, taskCount, pendingTaskCount, open, cancelling, hasParent,
                     queue, running>>
  PROVE  IInv'
<1>1. UNCHANGED <<st, cxl, aw, starter, tasks, taskCount, pendingTaskCount, open, cancelling,
                  hasParent, queue, running>>
  BY DEF promiseVars
<1>2. TypeOK'
  BY <1>1 DEF IInv, TypeOK
<1>3. LifeOK' /\ PendingOK' /\ CountsMatch' /\ OpenWhileInhabited'
  <2>1. LifeOK'
    BY <1>1 DEF IInv, LifeOK
  <2>2. PendingOK'
    BY <1>1 DEF IInv, PendingOK, Pending, StartedBy
  <2>3. CountsMatch' /\ OpenWhileInhabited'
    BY <1>1 DEF IInv, CountsMatch, StartedBy, OpenWhileInhabited
  <2>4. QED
    BY <2>1, <2>2, <2>3
<1>4. QueueOK(queue', st')
  BY <1>1 DEF IInv
<1>5. QED
  BY <1>1, <1>2, <1>3, <1>4 DEF IInv

\* A callable passed to start() throws.
LEMMA StepStartThrows ==
  ASSUME IInv, NEW r \in Tasks, NEW t \in Tasks, StartThrows(r, t)
  PROVE  IInv'
<1>1. /\ r = running /\ error' \in Tasks \cup {NoTask} /\ pcxl' \in BOOLEAN
      /\ pst' = pst /\ running' = running
  BY DEF StartThrows, MayUse, StoredError, parentVars, IInv, TypeOK
<1>2. pst # "running"
  BY <1>1, Runner
<1>3. \/ Cancel
      \/ UNCHANGED <<promiseVars, tasks, taskCount, pendingTaskCount, open, cancelling, hasParent,
                     queue, running>>
  BY DEF StartThrows
<1>4. QED
  BY <1>1, <1>2, <1>3, CancelStep, StepNotes

\* A task cancels the nursery.
LEMMA StepCancelNursery ==
  ASSUME IInv, NEW r \in Tasks, CancelNursery(r)
  PROVE  IInv'
<1>1. /\ r = running /\ error' \in Tasks \cup {NoTask} /\ pcxl' \in BOOLEAN
      /\ pst' = pst /\ running' = running /\ Cancel
  BY DEF CancelNursery, MayUse, parentVars, IInv, TypeOK
<1>2. pst # "running"
  BY <1>1, Runner
<1>3. QED
  BY <1>1, <1>2, CancelStep

\* The parent is cancelled.
LEMMA StepCancelParent ==
  ASSUME IInv, CancelParent
  PROVE  IInv'
<1>1. /\ pst # "running" /\ error' \in Tasks \cup {NoTask} /\ pcxl' \in BOOLEAN
      /\ pst' = pst /\ running' = running
  BY DEF CancelParent, Idle, IInv, TypeOK
<1>2. \/ Cancel
      \/ UNCHANGED <<promiseVars, tasks, taskCount, pendingTaskCount, open, cancelling, hasParent,
                     queue, running>>
  BY DEF CancelParent
<1>3. QED
  BY <1>1, <1>2, CancelStep, StepNotes

\* Nothing changes.
LEMMA StepStutter ==
  ASSUME IInv, UNCHANGED vars
  PROVE  IInv'
<1>1. UNCHANGED <<st, cxl, aw, starter, tasks, taskCount, pendingTaskCount, open, cancelling,
                  hasParent, error, pst, pcxl, queue, running>>
  BY DEF vars, promiseVars, nurseryVars, parentVars
<1>2. TypeOK' /\ LifeOK' /\ PendingOK' /\ CountsMatch' /\ OpenWhileInhabited' /\ QueueOK(queue', st')
  BY <1>1 DEF IInv, TypeOK, LifeOK, PendingOK, Pending, StartedBy, CountsMatch, OpenWhileInhabited
<1>3. (pst = "running" => Init)'
  BY <1>1 DEF IInv, Init
<1>4. QED
  BY <1>1, <1>2, <1>3 DEF IInv
-----------------------------------------------------------------------------
\* The invariant holds before the nursery is opened.
LEMMA InvInit == CountFacts /\ Init => IInv
<1> SUFFICES ASSUME CountFacts, Init PROVE IInv
  OBVIOUS
<1>0. NoTask \notin Tasks /\ Outsiders \subseteq Tasks
  BY NurseryAssumption DEF NurseryAssumption
<1>1. TypeOK
  <2>1. /\ st \in [Tasks -> States] /\ aw \in [Tasks -> LeafKinds \cup {"none", "start"}]
    BY DEF Init, States, LeafKinds
  <2>2. cxl \in [Tasks -> BOOLEAN] /\ starter \in [Tasks -> Tasks \cup {NoTask}]
    BY DEF Init
  <2>3. queue \in Seq(Callbacks)
    BY DEF Init
  <2>4. QED
    BY Zenon, <2>1, <2>2, <2>3 DEF Init, TypeOK, States
<1>2. \A t \in Tasks : /\ starter[t] = NoTask /\ ~cxl[t]
                       /\ t \in Outsiders => st[t] = "suspended"
                       /\ t \notin Outsiders => st[t] = "unborn"
  BY DEF Init
<1>3. running = NoTask /\ tasks = {} /\ taskCount = 0 /\ pendingTaskCount = 0 /\ open = hasParent
      /\ queue = <<>>
  BY Zenon DEF Init
<1>4. Pending = {}
  BY <1>0, <1>2 DEF Pending, StartedBy
<1>5. QueueOK(queue, st)
  BY <1>3 DEF QueueOK
<1>6. LifeOK
  BY <1>2, <1>3 DEF LifeOK, Live
<1>7. PendingOK
  BY <1>4 DEF PendingOK
<1>8. CountsMatch
  BY <1>3, <1>4 DEF CountFacts, CountsMatch, Pending
<1>9. QED
  BY <1>1, <1>3, <1>5, <1>6, <1>7, <1>8 DEF IInv, OpenWhileInhabited

\* Every step preserves the invariant.
LEMMA InvNext == IInv /\ [Next]_vars => IInv'
<1> SUFFICES ASSUME IInv, [Next]_vars PROVE IInv'
  OBVIOUS
<1>1. ASSUME NEW outcome \in {"join", "cancel", "throw"}, OpenWithoutTask(outcome) PROVE IInv'
  BY <1>1, StepOpenWithoutTask
<1>2. CASE RunNext
  BY <1>2, StepRunTask, StepRunDestroy, StepRunResumeParent, StepRunRunParent DEF RunNext
<1>3. ASSUME NEW r \in Tasks, NEW t \in Tasks, Start(r, t) \/ StartThrows(r, t) \/ StartAndWait(r, t)
      PROVE  IInv'
  BY <1>3, StepStart, StepStartThrows, StepStartAndWait
<1>4. ASSUME NEW r \in Tasks, CancelNursery(r) \/ Started(r) \/ Return(r) \/ Throw(r)
      PROVE  IInv'
  BY <1>4, StepCancelNursery, StepStarted, StepReturn, StepThrow
<1>5. ASSUME NEW r \in Tasks, NEW k \in AwaitKinds, Suspend(r, k) PROVE IInv'
  BY <1>5, StepSuspend
<1>6. ASSUME NEW t \in Tasks, NEW mustResume \in BOOLEAN, Complete(t, mustResume) PROVE IInv'
  BY <1>6, StepComplete
<1>7. CASE Terminated \/ UNCHANGED vars
  BY <1>7, StepStutter DEF Terminated
<1>8. ASSUME NEW o \in Outsiders, CancelOutsider(o) PROVE IInv'
  BY <1>8, StepCancelOutsider
<1>9. CASE OpenWithTask
  BY <1>9, StepOpenWithTask
<1>10. CASE CancelParent
  BY <1>10, StepCancelParent
<1>11. QED
  BY <1>1, <1>2, <1>3, <1>4, <1>5, <1>6, <1>7, <1>8, <1>9, <1>10 DEF Next
-----------------------------------------------------------------------------
\* The executor runs a task; awaiters in its frame go, with the frames they own.
LEMMA AfterRunTask ==
  ASSUME IInv, QInv, RunTask
  PROVE  QInv' /\ Quiet
<1> DEFINE t == Head(queue).task
           gone == OwnedBy({t})
<1>1. /\ queue \in Seq(Callbacks) /\ queue # <<>> /\ Head(queue).op = "run"
      /\ t \in Tasks /\ st[t] = "ready" /\ NoTask \notin Tasks /\ Insiders \subseteq Tasks
      /\ \A i \in DOMAIN Tail(queue) : Tail(queue)[i].op = "run" => Tail(queue)[i].task # t
  BY NurseryAssumption, QueueTake DEF NurseryAssumption, IInv, TypeOK, RunTask, Insiders
<1>2. /\ \A u \in Tasks : st'[u] = IF u = t THEN "running" ELSE IF u \in gone THEN "destroyed" ELSE st[u]
      /\ \A u \in Tasks : starter'[u] = IF u \in gone THEN NoTask ELSE starter[u]
      /\ queue' = Tail(queue) /\ UNCHANGED <<nurseryVars, parentVars>>
  <2>1. t \notin gone
    BY <1>1 DEF OwnedBy
  <2> QED
    BY <2>1 DEF RunTask
<1>3. UNCHANGED <<pst, error, tasks, hasParent>>
  BY <1>2 DEF nurseryVars, parentVars
<1>4. \A u \in gone : u \in Tasks /\ st[u] = "finished" /\ starter[u] = t
  BY DEF OwnedBy
<1>5. \A u \in Tasks : st[u] = "finished" /\ starter[u] = t => u \in gone
  BY DEF OwnedBy
<1>6. Serves(queue, ReadyTasks, DeadFrames, ParentCallback)
  BY DEF QInv
<1>7. /\ Serves(Tail(queue), ReadyTasks \ {t}, DeadFrames \ Head(queue).frames, ParentCallback)
      /\ Head(queue).frames = {}
  BY Zenon, <1>1, <1>6, ServesRest
<1> HIDE DEF t, gone
<1>8. ReadyTasks' = ReadyTasks \ {t}
  BY <1>1, <1>2, <1>4 DEF ReadyTasks
<1>9. DeadFrames' = DeadFrames
  BY <1>1, <1>2, <1>4 DEF DeadFrames
<1>10. OwnersKept'
  <2> SUFFICES ASSUME NEW p \in Tasks, st'[p] = "finished", starter'[p] \in Insiders
               PROVE  \/ starter'[p] \in tasks' /\ st'[starter'[p]] = "ready"
                      \/ st'[starter'[p]] = "finished" /\ starter'[starter'[p]] = NoTask
    BY DEF OwnersKept
  <2>1. p # t /\ p \notin gone /\ st[p] = "finished" /\ starter'[p] = starter[p]
    BY <1>2
  <2>2. starter[p] # t /\ starter[p] \in Insiders /\ starter[p] \in Tasks
    BY <1>1, <1>5, <2>1
  <2>3. \/ starter[p] \in tasks /\ st[starter[p]] = "ready"
        \/ st[starter[p]] = "finished" /\ starter[starter[p]] = NoTask
    BY <2>1, <2>2 DEF QInv, OwnersKept
  <2>4. starter[p] \notin gone
    BY <1>1, <1>4, <2>3
  <2> QED
    BY <1>2, <1>3, <2>1, <2>2, <2>3, <2>4
<1>11. ParentCallback' = ParentCallback
  BY <1>3 DEF ParentCallback
<1>12. QInv'
  BY Zenon, <1>2, <1>3, <1>7, <1>8, <1>9, <1>10, <1>11 DEF QInv
<1>13. Lived' = Lived
  BY <1>1, <1>2, <1>4 DEF Lived
<1>14. LiveFrames' \subseteq LiveFrames
  BY <1>1, <1>2, <1>4 DEF LiveFrames
<1> QED
  BY <1>3, <1>12, <1>13, <1>14 DEF Quiet

\* The executor destroys frames.
LEMMA AfterRunDestroy ==
  ASSUME IInv, QInv, RunDestroy
  PROVE  QInv' /\ Quiet
<1> DEFINE F == Head(queue).frames
           gone == F \cup OwnedBy(F)
<1>1. /\ queue \in Seq(Callbacks) /\ queue # <<>> /\ Head(queue).op = "destroy"
      /\ NoTask \notin Tasks /\ Insiders \subseteq Tasks
  BY NurseryAssumption DEF NurseryAssumption, IInv, TypeOK, RunDestroy, Insiders
<1>2. /\ \A u \in Tasks : st'[u] = IF u \in gone THEN "destroyed" ELSE st[u]
      /\ \A u \in Tasks : starter'[u] = IF u \in gone THEN NoTask ELSE starter[u]
      /\ queue' = Tail(queue) /\ UNCHANGED <<nurseryVars, parentVars>>
  BY DEF RunDestroy
<1>3. UNCHANGED <<pst, error, tasks, hasParent>>
  BY <1>2 DEF nurseryVars, parentVars
<1>4. Serves(queue, ReadyTasks, DeadFrames, ParentCallback)
  BY DEF QInv
<1>5. Serves(Tail(queue), ReadyTasks, DeadFrames \ F, ParentCallback) /\ F \subseteq DeadFrames
  BY Zenon, <1>1, <1>4, ServesRest
<1>6. \A u \in F : u \in Insiders /\ st[u] = "finished" /\ starter[u] = NoTask
  BY <1>5 DEF DeadFrames
<1>7. \A u \in OwnedBy(F) : u \in Tasks /\ st[u] = "finished" /\ starter[u] \in F
  BY DEF OwnedBy
<1>8. \A u \in Tasks : st[u] = "finished" /\ starter[u] \in F => u \in gone
  BY DEF OwnedBy
<1>9. \A u \in gone : u \in Tasks /\ st[u] = "finished" /\ (starter[u] = NoTask => u \in F)
  BY <1>1, <1>6, <1>7
<1> HIDE DEF F
<1>10. ReadyTasks' = ReadyTasks
  BY <1>2, <1>9 DEF ReadyTasks
<1>11. DeadFrames' = DeadFrames \ F
  BY <1>1, <1>2, <1>9 DEF DeadFrames
<1>12. OwnersKept'
  <2> SUFFICES ASSUME NEW p \in Tasks, st'[p] = "finished", starter'[p] \in Insiders
               PROVE  \/ starter'[p] \in tasks' /\ st'[starter'[p]] = "ready"
                      \/ st'[starter'[p]] = "finished" /\ starter'[starter'[p]] = NoTask
    BY DEF OwnersKept
  <2>1. p \notin gone /\ st[p] = "finished" /\ starter'[p] = starter[p]
    BY <1>2
  <2>2. starter[p] \notin F /\ starter[p] \in Insiders /\ starter[p] \in Tasks
    BY <1>1, <1>8, <2>1
  <2>3. \/ starter[p] \in tasks /\ st[starter[p]] = "ready"
        \/ st[starter[p]] = "finished" /\ starter[starter[p]] = NoTask
    BY <2>1, <2>2 DEF QInv, OwnersKept
  <2>4. starter[p] \notin gone
    BY <1>9, <2>2, <2>3
  <2> QED
    BY <1>2, <1>3, <2>1, <2>2, <2>3, <2>4
<1>13. ParentCallback' = ParentCallback
  BY <1>3 DEF ParentCallback
<1>14. QInv'
  BY <1>2, <1>3, <1>5, <1>10, <1>11, <1>12, <1>13 DEF QInv
<1>15. Lived' = Lived
  BY <1>1, <1>2, <1>9 DEF Lived
<1>16. LiveFrames' \subseteq LiveFrames
  BY <1>1, <1>2, <1>9 DEF LiveFrames
<1> QED
  BY <1>3, <1>14, <1>15, <1>16 DEF Quiet

\* A closed nursery whose frames have been destroyed has left nothing behind.
LEMMA Emptied ==
  ASSUME IInv, QInv, ~hasParent, DeadFrames = {}
  PROVE  LiveFrames = {}
<1>1. tasks = {} /\ Pending = {}
  BY Inhabited
<1> SUFFICES ASSUME NEW t \in LiveFrames PROVE FALSE
  OBVIOUS
<1>2. /\ t \in Tasks /\ t \notin Outsiders /\ st[t] \in Live \cup {"finished"}
      /\ st[t] = "finished" => starter[t] \notin Outsiders
      /\ starter[t] \in Tasks \cup {NoTask}
  BY DEF LiveFrames, Insiders, IInv, TypeOK, Live
<1>3. CASE st[t] \in Live
  <2>1. starter[t] # NoTask /\ st[t] # "finished"
    BY Zenon, <1>1, <1>2, <1>3 DEF IInv, LifeOK, Live
  <2>2. t \in Pending
    BY <1>2, <2>1 DEF Pending, StartedBy
  <2> QED
    BY <1>1, <2>2
<1>4. CASE st[t] = "finished"
  <2>1. starter[t] # NoTask
    BY <1>2, <1>4 DEF DeadFrames, Insiders
  <2>2. starter[t] \in Insiders
    BY <1>2, <1>4, <2>1 DEF Insiders
  <2>3. st[starter[t]] = "finished" /\ starter[starter[t]] = NoTask
    BY <1>1, <1>2, <1>4, <2>2 DEF QInv, OwnersKept
  <2> QED
    BY <2>2, <2>3 DEF DeadFrames
<1> QED
  BY <1>2, <1>3, <1>4

\* The parent's turn comes: all frames are gone by then.
LEMMA AfterRunResumeParent ==
  ASSUME IInv, QInv, RunResumeParent
  PROVE  /\ QInv' /\ pst = "awaiting" /\ LiveFrames = {}
         /\ UNCHANGED <<promiseVars, error>>
         /\ pst' = "ready" \/ (pst' = "cancelled" /\ error = NoTask)
<1>1. /\ queue \in Seq(Callbacks) /\ queue # <<>> /\ Head(queue).op = "resumeParent"
      /\ Tail(queue) \in Seq(Callbacks)
      /\ UNCHANGED <<promiseVars, nurseryVars>>
      /\ \/ pst' = "cancelled" /\ queue' = Tail(queue) /\ error = NoTask
         \/ pst' = "ready" /\ queue' = Append(Tail(queue), RunParent)
  BY DEF IInv, TypeOK, RunResumeParent, ParentMustResume
<1>2. UNCHANGED <<st, starter, error, tasks, hasParent>>
  BY <1>1 DEF promiseVars, nurseryVars
<1>3. Serves(queue, ReadyTasks, DeadFrames, ParentCallback)
  BY DEF QInv
<1>4. /\ Serves(Tail(queue), ReadyTasks, DeadFrames \ Head(queue).frames, "none")
      /\ Head(queue).frames = {} /\ ParentCallback = "resumeParent" /\ DeadFrames = {}
  BY Zenon, <1>1, <1>3, ServesRest
<1>5. pst = "awaiting" /\ ~hasParent
  BY <1>4 DEF ParentCallback
<1>6. LiveFrames = {}
  BY <1>4, <1>5, Emptied
<1>7. ReadyTasks' = ReadyTasks /\ DeadFrames' = DeadFrames /\ OwnersKept'
  BY <1>2 DEF ReadyTasks, DeadFrames, QInv, OwnersKept
<1>8. Serves(Tail(queue), ReadyTasks, {}, "none")
  BY <1>4
<1>9. CASE pst' = "cancelled" /\ queue' = Tail(queue)
  <2>1. ParentCallback' = "none"
    BY <1>9 DEF ParentCallback
  <2> QED
    BY Zenon, <1>1, <1>2, <1>4, <1>5, <1>6, <1>7, <1>8, <1>9, <2>1 DEF QInv
<1>10. CASE pst' = "ready" /\ queue' = Append(Tail(queue), RunParent)
  <2>1. ParentCallback' = "runParent"
    BY <1>10 DEF ParentCallback
  <2>2. queue' = Tail(queue) \o <<RunParent>>
    BY <1>1, <1>10, ServesOne
  <2>3. Serves(queue', ReadyTasks \cup {}, {} \cup {}, IF "none" = "none" THEN "runParent" ELSE "none")
    BY Zenon, <1>1, <1>8, <2>2, ServesOne, ServesBoth
  <2>4. Serves(queue', ReadyTasks, {}, "runParent")
    BY <2>3
  <2> QED
    BY <1>1, <1>2, <1>4, <1>5, <1>6, <1>7, <1>10, <2>1, <2>4 DEF QInv
<1> QED
  BY <1>1, <1>9, <1>10

\* The parent goes on.
LEMMA AfterRunRunParent ==
  ASSUME IInv, QInv, RunRunParent
  PROVE  QInv' /\ pst = "ready" /\ pst' = "resumed" /\ UNCHANGED <<promiseVars, error>>
<1>1. /\ queue \in Seq(Callbacks) /\ queue # <<>> /\ Head(queue).op = "runParent"
      /\ UNCHANGED <<promiseVars, nurseryVars>> /\ pst' = "resumed" /\ queue' = Tail(queue)
  BY DEF IInv, TypeOK, RunRunParent
<1>2. UNCHANGED <<st, starter, error, tasks, hasParent>>
  BY <1>1 DEF promiseVars, nurseryVars
<1>3. Serves(queue, ReadyTasks, DeadFrames, ParentCallback)
  BY DEF QInv
<1>4. /\ Serves(Tail(queue), ReadyTasks, DeadFrames \ Head(queue).frames, "none")
      /\ Head(queue).frames = {} /\ ParentCallback = "runParent" /\ DeadFrames = {}
  <2>1. Head(queue).op # "run" /\ Head(queue).op # "destroy" /\ Head(queue).op \in {"resumeParent", "runParent"}
    BY <1>1
  <2>2. \A i \in DOMAIN Tail(queue) : Head(queue).op = "run" /\ Tail(queue)[i].op = "run"
                                        => Tail(queue)[i].task # Head(queue).task
    BY <2>1
  <2> QED
    BY Zenon, <1>1, <1>3, <2>1, <2>2, ServesRest
<1>5. pst = "ready" /\ ~hasParent
  BY Zenon, <1>4 DEF ParentCallback, QInv, IInv, TypeOK
<1>6. ReadyTasks' = ReadyTasks /\ DeadFrames' = DeadFrames /\ OwnersKept'
  BY Zenon, <1>2 DEF ReadyTasks, DeadFrames, QInv, OwnersKept
<1>7. Serves(Tail(queue), ReadyTasks, {}, "none") /\ ParentCallback' = "none"
  BY Zenon, <1>1, <1>4 DEF ParentCallback
<1> QED
  BY <1>1, <1>2, <1>4, <1>5, <1>6, <1>7 DEF QInv

\* Before the nursery is opened there is nothing.
LEMMA Before ==
  ASSUME IInv, pst = "running"
  PROVE  /\ queue = <<>> /\ ReadyTasks = {} /\ DeadFrames = {} /\ Lived = {} /\ LiveFrames = {}
         /\ ~hasParent /\ error = NoTask
         /\ \A t \in Tasks : starter[t] = NoTask /\ st[t] \in {"unborn", "suspended"}
         /\ \A t \in Insiders : st[t] = "unborn"
<1>1. Init /\ Insiders \subseteq Tasks
  BY DEF IInv, Insiders
<1>2. \A t \in Tasks : starter[t] = NoTask /\ st[t] = IF t \in Outsiders THEN "suspended" ELSE "unborn"
  BY <1>1 DEF Init
<1>3. \A t \in Insiders : st[t] = "unborn"
  BY <1>2 DEF Insiders
<1>4. queue = <<>> /\ ~hasParent /\ error = NoTask
  BY <1>1 DEF Init
<1>5. ReadyTasks = {} /\ DeadFrames = {} /\ Lived = {} /\ LiveFrames = {}
  BY <1>2, <1>3 DEF ReadyTasks, DeadFrames, Lived, LiveFrames
<1> QED
  BY <1>2, <1>3, <1>4, <1>5

\* The nursery is opened with its block as the first task.
LEMMA AfterOpenWithTask ==
  ASSUME IInv, QInv, OpenWithTask
  PROVE  /\ QInv' /\ pst = "running" /\ pst' = "awaiting" /\ error' = error
         /\ Lived' = {Body} /\ LiveFrames' = {Body}
<1>1. /\ pst = "running" /\ pst' = "awaiting" /\ hasParent' = TRUE /\ error' = error
      /\ starter' = starter /\ queue' = Append(queue, Run(Body))
      /\ Body \in Tasks /\ Body \in Insiders /\ Insiders \subseteq Tasks
  BY NurseryAssumption DEF NurseryAssumption, OpenWithTask, Insiders
<1>2. \A t \in Tasks : st'[t] = IF t = Body THEN "ready" ELSE st[t]
  BY DEF OpenWithTask, IInv, TypeOK
<1>3. ReadyTasks' = {} \cup {Body} /\ DeadFrames' = {} /\ Lived' = {Body} /\ LiveFrames' = {Body}
  <2>1. ReadyTasks' = {Body}
    BY <1>1, <1>2, Before DEF ReadyTasks
  <2>2. DeadFrames' = {}
    BY <1>1, <1>2, Before DEF DeadFrames
  <2>3. Lived' = {Body}
    BY <1>1, <1>2, Before DEF Lived
  <2>4. LiveFrames' = {Body}
    BY <1>1, <1>2, Before DEF LiveFrames
  <2> QED
    BY <2>1, <2>2, <2>3, <2>4
<1>4. OwnersKept'
  BY <1>1, <1>2, Before DEF OwnersKept
<1>5. queue \in Seq(Callbacks) /\ Serves(queue, {}, {}, "none")
  BY Zenon, <1>1, Before, ServesOne
<1>6. Serves(queue', {} \cup {Body}, {}, "none")
  BY <1>1, <1>5, ServesRun
<1>7. ParentCallback' = "none"
  BY <1>1 DEF ParentCallback
<1> QED
  BY <1>1, <1>3, <1>4, <1>6, <1>7 DEF QInv

\* The block ends before there is a task.
LEMMA AfterOpenWithoutTask ==
  ASSUME IInv, QInv, NEW outcome, OpenWithoutTask(outcome)
  PROVE  /\ QInv' /\ pst = "running" /\ pst' = "awaiting"
         /\ Lived' = {} /\ LiveFrames' = {}
<1>1. /\ pst = "running" /\ pst' = "awaiting" /\ queue' = Append(queue, ResumeParent)
      /\ st' = st /\ starter' = starter /\ tasks' = tasks /\ hasParent' = hasParent
  BY DEF OpenWithoutTask, promiseVars
<1>2. /\ ReadyTasks' = {} /\ DeadFrames' = {} /\ Lived' = {} /\ LiveFrames' = {} /\ OwnersKept'
  BY Zenon, <1>1, Before DEF ReadyTasks, DeadFrames, Lived, LiveFrames, QInv, OwnersKept
<1>3. queue' = <<ResumeParent>>
  BY <1>1, Before
<1>4. Serves(queue', {}, {}, "resumeParent")
  BY <1>3, ServesOne
<1>5. ~hasParent' /\ ParentCallback' = "resumeParent"
  BY <1>1, Before DEF ParentCallback
<1> QED
  BY <1>1, <1>2, <1>4, <1>5 DEF QInv

\* Whoever uses the nursery, its parent is waiting.
LEMMA InUse ==
  ASSUME IInv, QInv, NEW r \in Tasks, MayUse(r)
  PROVE  pst = "awaiting" /\ hasParent /\ st[r] = "running" /\ ParentCallback = "none"
<1>1. r = running /\ (r \in Outsiders => open)
  BY DEF MayUse
<1>2. hasParent /\ st[r] = "running"
  BY <1>1, Runner DEF IInv
<1> QED
  BY <1>2 DEF QInv, ParentCallback

\* A task that comes to life is scheduled, and has nothing to do with frames that
\* are waiting for their destruction.
LEMMA AfterBirth ==
  ASSUME IInv, QInv, NEW t \in Tasks, st[t] = "unborn", st'[t] = "ready",
         \A u \in Tasks \ {t} : /\ starter'[u] = starter[u]
                                /\ \/ st'[u] = st[u]
                                   \/ st[u] = "running" /\ st'[u] = "suspended",
         starter'[t] \in Tasks \cup {NoTask}, tasks \subseteq tasks',
         pst = "awaiting", pst' = pst, hasParent, hasParent',
         queue' = Append(queue, Run(t))
  PROVE  /\ QInv' /\ t \in Insiders /\ t \notin Lived
         /\ Lived' = Lived \cup {t} /\ LiveFrames' = LiveFrames \cup {t}
<1>1. /\ starter[t] = NoTask /\ t \in Insiders /\ Insiders \subseteq Tasks /\ NoTask \notin Insiders
      /\ queue \in Seq(Callbacks)
  BY Zenon, NurseryAssumption DEF NurseryAssumption, IInv, TypeOK, LifeOK, Insiders
<1>2. t \notin Lived /\ Lived' = Lived \cup {t}
  BY Zenon, <1>1 DEF Lived
<1>3. LiveFrames' = LiveFrames \cup {t}
  BY <1>1 DEF LiveFrames
<1>4. ReadyTasks' = ReadyTasks \cup {t}
  BY DEF ReadyTasks
<1>5. DeadFrames' = DeadFrames
  BY <1>1 DEF DeadFrames
<1>6. OwnersKept'
  <2> SUFFICES ASSUME NEW p \in Tasks, st'[p] = "finished", starter'[p] \in Insiders
               PROVE  \/ starter'[p] \in tasks' /\ st'[starter'[p]] = "ready"
                      \/ st'[starter'[p]] = "finished" /\ starter'[starter'[p]] = NoTask
    BY DEF OwnersKept
  <2>1. st[p] = "finished" /\ starter'[p] = starter[p]
    OBVIOUS
  <2>2. \/ starter[p] \in tasks /\ st[starter[p]] = "ready"
        \/ st[starter[p]] = "finished" /\ starter[starter[p]] = NoTask
    BY <2>1 DEF QInv, OwnersKept
  <2>3. starter[p] # t /\ starter[p] \in Tasks
    BY <1>1, <2>1, <2>2
  <2> QED
    BY <2>1, <2>2, <2>3
<1>7. ParentCallback = "none" /\ ParentCallback' = "none"
  BY DEF ParentCallback
<1>8. Serves(queue, ReadyTasks, DeadFrames, "none")
  BY Zenon, <1>7 DEF QInv
<1>9. Serves(queue', ReadyTasks', DeadFrames', ParentCallback')
  BY <1>1, <1>4, <1>5, <1>7, <1>8, ServesRun
<1> QED
  BY <1>1, <1>2, <1>3, <1>6, <1>9 DEF QInv

\* Nursery::start().
LEMMA AfterStart ==
  ASSUME IInv, QInv, NEW r \in Tasks, NEW t \in Tasks, Start(r, t)
  PROVE  /\ QInv' /\ t \in Insiders /\ t \notin Lived
         /\ Lived' = Lived \cup {t} /\ LiveFrames' = LiveFrames \cup {t}
         /\ pst = "awaiting" /\ pst' = pst /\ error' = error
<1>1. /\ MayUse(r) /\ st[t] = "unborn" /\ tasks \subseteq tasks'
      /\ UNCHANGED <<starter, hasParent, error, pst>>
      /\ queue' = Append(queue, Run(t)) /\ st' = [st EXCEPT ![t] = "ready"]
  BY DEF Start, parentVars
<1>2. st \in [Tasks -> States] /\ starter[t] \in Tasks \cup {NoTask}
  BY DEF IInv, TypeOK, States
<1>3. st'[t] = "ready" /\ \A u \in Tasks \ {t} : st'[u] = st[u]
  BY Zenon, <1>1, <1>2
<1>4. pst = "awaiting" /\ hasParent
  BY <1>1, InUse
<1> QED
  BY <1>1, <1>2, <1>3, <1>4, AfterBirth

\* co_await Nursery::start() of a callable taking a TaskStarted.
LEMMA AfterStartAndWait ==
  ASSUME IInv, QInv, NEW r \in Tasks, NEW p \in Tasks, StartAndWait(r, p)
  PROVE  /\ QInv' /\ p \in Insiders /\ p \notin Lived
         /\ Lived' = Lived \cup {p} /\ LiveFrames' = LiveFrames \cup {p}
         /\ pst = "awaiting" /\ pst' = pst /\ error' = error
<1>1. /\ MayUse(r) /\ st[p] = "unborn" /\ tasks \subseteq tasks'
      /\ UNCHANGED <<hasParent, error, pst>>
      /\ queue' = Append(queue, Run(p))
      /\ st' = [st EXCEPT ![r] = "suspended", ![p] = "ready"]
      /\ starter' = [starter EXCEPT ![p] = r]
  BY DEF StartAndWait, parentVars
<1>2. st \in [Tasks -> States] /\ starter \in [Tasks -> Tasks \cup {NoTask}]
  BY DEF IInv, TypeOK, States
<1>3. pst = "awaiting" /\ hasParent /\ st[r] = "running"
  BY <1>1, InUse
<1>4. /\ st'[p] = "ready" /\ starter'[p] = r
      /\ \A u \in Tasks \ {p} : /\ starter'[u] = starter[u]
                                /\ st'[u] = IF u = r THEN "suspended" ELSE st[u]
  BY <1>1, <1>2, <1>3
<1>5. \A u \in Tasks \ {p} : /\ starter'[u] = starter[u]
                             /\ \/ st'[u] = st[u]
                                \/ st[u] = "running" /\ st'[u] = "suspended"
  BY <1>3, <1>4
<1> QED
  BY Zenon, <1>1, <1>3, <1>4, <1>5, AfterBirth

=============================================================================
