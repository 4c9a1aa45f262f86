-------------------------- MODULE NurseryInvariant --------------------------
(***************************************************************************)
(* The inductive invariant behind NurseryProofs, and what its proof needs  *)
(* of the executor's queue and of the counters; the ends of tasks.         *)
(***************************************************************************)
EXTENDS Nursery, TLAPS

States == {"unborn", "ready", "running", "suspended", "finished", "destroyed"}
Live == {"ready", "running", "suspended"}
Gone == {"finished", "destroyed"}

\* The callbacks in q run ready tasks, each once, and destroy dead frames, when
\* s says where the tasks are.
QueueOK(q, s) ==
  /\ \A i \in DOMAIN q : /\ q[i].op = "run" => q[i].task \in Tasks /\ s[q[i].task] = "ready"
                         /\ \A t \in q[i].frames : s[t] \in Gone
  /\ \A i, j \in DOMAIN q :
       q[i].op = "run" /\ q[j].op = "run" /\ q[i].task = q[j].task => i = j

\* One task runs at a time; a task that has not come to life is nowhere; a live
\* one is in the nursery, being started, or an outsider.
LifeOK ==
  /\ running # NoTask => st[running] = "running"
  /\ \A t \in Tasks :
       /\ st[t] = "running" => t = running
       /\ st[t] = "unborn" => ~cxl[t] /\ starter[t] = NoTask /\ t \notin Outsiders
       /\ t \in tasks => starter[t] = NoTask /\ st[t] \in Live /\ t \notin Outsiders
       /\ st[t] \in Live => t \in tasks \/ starter[t] # NoTask \/ t \in Outsiders
       /\ starter[t] # NoTask => t \notin Outsiders

Pending == StartedBy(Tasks)

\* Each task being started has a starter to itself, which is not being started,
\* waits for it, and shares its cancellation.
PendingOK ==
  /\ \A p \in Pending : /\ st[p] \in Live
                        /\ starter[p] \in tasks \cup Outsiders
                        /\ st[starter[p]] = "suspended" /\ aw[starter[p]] = "start"
                        /\ cxl[p] = cxl[starter[p]]
  /\ \A p, q \in Pending : starter[p] = starter[q] => p = q

\* How finite sets of tasks are counted: the library's theorems, for Tasks.
CountFacts ==
  /\ Cardinality({}) = 0
  /\ \A t \in Tasks : Cardinality({t}) = 1
  /\ \A S \in SUBSET Tasks :
       /\ Cardinality(S) \in Nat /\ (Cardinality(S) = 0 <=> S = {})
       /\ \A T \in SUBSET S : /\ Cardinality(T) =< Cardinality(S)
                              /\ Cardinality(S \ T) = Cardinality(S) - Cardinality(T)
       /\ \A t \in Tasks \ S : Cardinality(S \cup {t}) = Cardinality(S) + 1

\* The inductive invariant.  (CountFacts mentions no variable; NurseryProofs
\* proves it, so that the library stays out of the proofs below.)
IInv ==
  /\ CountFacts
  /\ TypeOK /\ QueueOK(queue, st) /\ LifeOK /\ PendingOK
  /\ CountsMatch
  /\ \A t \in tasks : cxl[t] = cancelling
  /\ OpenWhileInhabited /\ open = hasParent
  /\ pst = "running" => Init
-----------------------------------------------------------------------------
(***************************************************************************)
(* The ready queue.                                                        *)
(***************************************************************************)
\* Scheduled tasks stay ready and dead ones dead: the queue stays in order.
LEMMA QueueKept ==
  ASSUME NEW q \in Seq(Callbacks), NEW s, NEW s2, QueueOK(q, s),
         \A t \in Tasks : /\ s[t] = "ready" => s2[t] = "ready"
                          /\ s[t] \in Gone => s2[t] \in Gone
  PROVE  QueueOK(q, s2)
<1>1. \A i \in DOMAIN q : q[i] \in Callbacks
  OBVIOUS
<1>2. \A i \in DOMAIN q : q[i].frames \subseteq Tasks
  BY <1>1 DEF Callbacks
<1>3. QED
  BY <1>2 DEF QueueOK

\* Callbacks that run no task are added.
LEMMA QueueConcat ==
  ASSUME NEW q \in Seq(Callbacks), NEW e \in Seq(Callbacks), NEW s, QueueOK(q, s),
         \A i \in DOMAIN e : e[i].op # "run" /\ \A t \in e[i].frames : s[t] \in Gone
  PROVE  QueueOK(q \o e, s) /\ q \o e \in Seq(Callbacks)
<1> DEFINE r == q \o e
<1>1. r \in Seq(Callbacks) /\ Len(r) = Len(q) + Len(e)
  OBVIOUS
<1>2. /\ Len(q) \in Nat /\ Len(e) \in Nat /\ DOMAIN q = 1..Len(q) /\ DOMAIN e = 1..Len(e)
      /\ DOMAIN r = 1..(Len(q) + Len(e))
  BY <1>1
<1>3. \A i \in DOMAIN r : r[i] = IF i =< Len(q) THEN q[i] ELSE e[i - Len(q)]
  BY <1>2
<1> HIDE DEF r
<1>4. \A i \in DOMAIN r : \/ i \in DOMAIN q /\ r[i] = q[i]
                          \/ r[i].op # "run" /\ \A t \in r[i].frames : s[t] \in Gone
  <2> SUFFICES ASSUME NEW i \in DOMAIN r, ~(i \in DOMAIN q /\ r[i] = q[i])
               PROVE  r[i].op # "run" /\ \A t \in r[i].frames : s[t] \in Gone
    OBVIOUS
  <2>1. i \in 1..(Len(q) + Len(e)) /\ ~(i =< Len(q))
    BY <1>2, <1>3
  <2>2. i - Len(q) \in DOMAIN e
    BY <1>2, <2>1
  <2>3. r[i] = e[i - Len(q)]
    BY <1>3, <2>1
  <2>4. QED
    BY <2>2, <2>3
<1>5. QueueOK(r, s)
  BY <1>4 DEF QueueOK
<1>6. QED
  BY <1>1, <1>5 DEF r

\* A task is scheduled that was not.
LEMMA QueueRun ==
  ASSUME NEW q \in Seq(Callbacks), NEW s, NEW t \in Tasks, QueueOK(q, s), s[t] # "ready",
         NEW s2, s2[t] = "ready",
         \A u \in Tasks \ {t} : /\ s[u] = "ready" => s2[u] = "ready"
                                /\ s[u] \in Gone => s2[u] \in Gone,
         s[t] \notin Gone
  PROVE  QueueOK(Append(q, Run(t)), s2) /\ Append(q, Run(t)) \in Seq(Callbacks)
<1> DEFINE r == Append(q, Run(t))
<1>1. Run(t) \in Callbacks /\ Run(t).op = "run" /\ Run(t).task = t /\ Run(t).frames = {}
  BY DEF Run, Callbacks
<1>2. /\ r \in Seq(Callbacks) /\ Len(q) \in Nat /\ DOMAIN q = 1..Len(q)
      /\ DOMAIN r = 1..(Len(q) + 1)
      /\ \A i \in 1..Len(q) : r[i] = q[i]
      /\ r[Len(q) + 1] = Run(t)
  BY <1>1
<1>3. QueueOK(q, s2)
  BY QueueKept
<1>4. \A i \in DOMAIN q : q[i].op = "run" => q[i].task # t
  BY DEF QueueOK
<1> HIDE DEF r
<1>5. \A i \in DOMAIN r : \/ i \in DOMAIN q /\ r[i] = q[i]
                          \/ i = Len(q) + 1 /\ r[i] = Run(t) /\ i \notin DOMAIN q
  BY <1>2
<1>6. QueueOK(r, s2)
  BY <1>1, <1>3, <1>4, <1>5 DEF QueueOK
<1>7. QED
  BY <1>2, <1>6 DEF r

\* The oldest callback is taken.
LEMMA QueueTake ==
  ASSUME NEW q \in Seq(Callbacks), NEW s, QueueOK(q, s), q # <<>>
  PROVE  /\ Tail(q) \in Seq(Callbacks) /\ QueueOK(Tail(q), s) /\ Head(q) \in Callbacks
         /\ Head(q).op = "run" =>
              /\ Head(q).task \in Tasks /\ s[Head(q).task] = "ready"
              /\ \A i \in DOMAIN Tail(q) :
                   Tail(q)[i].op = "run" => Tail(q)[i].task # Head(q).task
         /\ \A t \in Head(q).frames : s[t] \in Gone
<1>1. /\ Head(q) = q[1] /\ Tail(q) \in Seq(Callbacks) /\ Head(q) \in Callbacks
      /\ Len(q) \in Nat \ {0} /\ DOMAIN q = 1..Len(q)
      /\ DOMAIN Tail(q) = 1..(Len(q) - 1)
      /\ \A i \in 1..(Len(q) - 1) : Tail(q)[i] = q[i + 1]
  OBVIOUS
<1>2. 1 \in DOMAIN q /\ \A i \in DOMAIN Tail(q) :
        i + 1 \in DOMAIN q /\ i + 1 # 1 /\ Tail(q)[i] = q[i + 1] /\ i \in Nat
  BY <1>1
<1>3. QueueOK(Tail(q), s)
  <2>1. \A i \in DOMAIN Tail(q) :
          /\ Tail(q)[i].op = "run" => Tail(q)[i].task \in Tasks /\ s[Tail(q)[i].task] = "ready"
          /\ \A t \in Tail(q)[i].frames : s[t] \in Gone
    BY <1>2 DEF QueueOK
  <2>2. ASSUME NEW i \in DOMAIN Tail(q), NEW j \in DOMAIN Tail(q),
               Tail(q)[i].op = "run", Tail(q)[j].op = "run",
               Tail(q)[i].task = Tail(q)[j].task
        PROVE  i = j
    <3>1. i + 1 = j + 1
      BY <1>2, <2>2 DEF QueueOK
    <3>2. QED
      BY <1>2, <3>1
  <2>3. QED
    BY <2>1, <2>2 DEF QueueOK
<1>4. QED
  BY <1>1, <1>2, <1>3 DEF QueueOK

\* Callbacks that run no task and destroy no frame but those of G.
Frees(e, G) ==
  /\ e \in Seq(Callbacks)
  /\ \A i \in DOMAIN e : e[i].op # "run" /\ e[i].frames \subseteq G

\* Two lots of such callbacks are one.
LEMMA FreesConcat ==
  ASSUME NEW G, NEW a, NEW b, Frees(a, G), Frees(b, G)
  PROVE  Frees(a \o b, G)
<1> DEFINE r == a \o b
<1>1. a \in Seq(Callbacks) /\ b \in Seq(Callbacks)
  BY DEF Frees
<1>2. r \in Seq(Callbacks) /\ Len(r) = Len(a) + Len(b)
  BY <1>1
<1>3. /\ Len(a) \in Nat /\ Len(b) \in Nat /\ DOMAIN a = 1..Len(a) /\ DOMAIN b = 1..Len(b)
      /\ DOMAIN r = 1..(Len(a) + Len(b))
  BY <1>1, <1>2
<1>4. \A i \in DOMAIN r : r[i] = IF i =< Len(a) THEN a[i] ELSE b[i - Len(a)]
  BY <1>1, <1>3
<1> HIDE DEF r
<1>5. ASSUME NEW i \in DOMAIN r
      PROVE  (i \in DOMAIN a /\ r[i] = a[i])
             \/ (i - Len(a) \in DOMAIN b /\ r[i] = b[i - Len(a)])
  BY <1>3, <1>4, <1>5
<1>6. Frees(r, G)
  BY <1>2, <1>5 DEF Frees
<1>7. QED
  BY <1>6 DEF r

\* What continuation() leaves to the executor is of this kind.
LEMMA FreesDeferred ==
  ASSUME NEW G \in SUBSET Tasks, NEW d, Frees(d, G), NEW c \in BOOLEAN
  PROVE  Frees(Deferred(d, c), G)
<1>1. Frees(<<>>, G)
  BY DEF Frees
<1>2. Frees(<<ResumeParent>>, G)
  BY DEF Frees, ResumeParent, Callbacks
<1>3. QED
  BY <1>1, <1>2, FreesConcat DEF Deferred

\* So is the destruction of frames.
LEMMA FreesDestroy ==
  ASSUME NEW G \in SUBSET Tasks, NEW S \in SUBSET G
  PROVE  Frees(<<Destroy(S)>>, G) /\ Frees(DestroyAll(S), G)
<1>1. Frees(<<>>, G)
  BY DEF Frees
<1>2. Frees(<<Destroy(S)>>, G)
  <2>1. Destroy(S) \in Callbacks /\ Destroy(S).op = "destroy" /\ Destroy(S).frames = S
    BY DEF Destroy, Callbacks
  <2>2. <<Destroy(S)>> \in Seq(Callbacks) /\ DOMAIN <<Destroy(S)>> = {1}
        /\ <<Destroy(S)>>[1] = Destroy(S)
    BY <2>1
  <2>3. QED
    BY <2>1, <2>2 DEF Frees
<1>3. QED
  BY <1>1, <1>2 DEF DestroyAll
-----------------------------------------------------------------------------
(***************************************************************************)
(* Counting.                                                               *)
(***************************************************************************)
\* Tasks are removed from a set.
LEMMA CardinalityMinus ==
  ASSUME IInv, NEW S \in SUBSET Tasks, NEW T \in SUBSET S
  PROVE  /\ Cardinality(S) \in Nat /\ Cardinality(T) \in Nat
         /\ Cardinality(T) =< Cardinality(S)
         /\ Cardinality(S \ T) = Cardinality(S) - Cardinality(T)
<1>1. CountFacts
  BY DEF IInv
<1>2. QED
  BY <1>1 DEF CountFacts

\* One more task.
LEMMA CardinalityPlus ==
  ASSUME IInv, NEW S \in SUBSET Tasks, NEW t \in Tasks \ S
  PROVE  Cardinality(S) \in Nat /\ Cardinality(S \cup {t}) = Cardinality(S) + 1
<1>1. CountFacts
  BY DEF IInv
<1>2. QED
  BY <1>1 DEF CountFacts

\* Few tasks.
LEMMA CardinalitySmall ==
  ASSUME IInv
  PROVE  /\ \A S \in SUBSET Tasks : (Cardinality(S) = 0) <=> (S = {})
         /\ Cardinality({}) = 0 /\ \A t \in Tasks : Cardinality({t}) = 1
<1>1. CountFacts
  BY DEF IInv
<1>2. QED
  BY <1>1 DEF CountFacts
-----------------------------------------------------------------------------
(***************************************************************************)
(* Departures.  Most actions end in tasks terminating: members of the      *)
(* nursery (gone), tasks being started (dropped) and outsiders (out).  The *)
(* awaiter of start() goes down with the task it starts, never before it.  *)
(***************************************************************************)
\* Whatever departs together, the invariant survives.
LEMMA Departure ==
  ASSUME IInv, pst # "running", pst' = pst, pcxl' \in BOOLEAN,
         NEW gone \in SUBSET tasks, NEW dropped \in SUBSET Pending,
         NEW out \in SUBSET Outsiders,
         NEW told \in SUBSET (tasks \cup Pending \cup Outsiders),
         \A t \in gone \cup dropped \cup out : st[t] \in {"running", "suspended"},
         \A p \in Pending : starter[p] \in gone \cup out => p \in dropped,
         Promises(gone \cup dropped \cup out, {}, told),
         tasks' = tasks \ gone,
         taskCount' = taskCount - Cardinality(gone),
         pendingTaskCount' = pendingTaskCount - Cardinality(dropped),
         cancelling' \in BOOLEAN, \A t \in tasks' : cxl'[t] = cancelling',
         \A p \in Pending \ dropped : cxl'[p] = cxl'[starter[p]],
         open' \in BOOLEAN, hasParent' = open',
         tasks' # {} \/ pendingTaskCount' # 0 => open' = open,
         error' \in Tasks \cup {NoTask},
         NEW e, Frees(e, gone), queue' = queue \o e,
         running' = IF running \in gone \cup dropped \cup out THEN NoTask ELSE running
  PROVE  IInv'
<1> DEFINE D == gone \cup dropped \cup out
<1>0. /\ NoTask \notin Tasks /\ Outsiders \subseteq Tasks /\ tasks \subseteq Tasks
      /\ Pending \subseteq Tasks /\ D \subseteq Tasks
      /\ running \in Tasks \cup {NoTask}
  BY NurseryAssumption DEF NurseryAssumption, IInv, TypeOK, Pending, StartedBy
<1>1. /\ st' = [t \in Tasks |-> IF t \in D THEN "finished" ELSE st[t]]
      /\ aw' = [t \in Tasks |-> IF t \in D THEN "none" ELSE aw[t]]
      /\ cxl' = [t \in Tasks |-> cxl[t] \/ t \in told]
      /\ starter' = starter
  BY DEF Promises
<1>2. \A t \in D : st[t] \in {"running", "suspended"}
  OBVIOUS
<1>3. \A p \in Pending : p \in D <=> p \in dropped
  BY <1>0 DEF IInv, LifeOK, Pending, StartedBy
<1>4. Pending' = Pending \ dropped
  BY <1>0, <1>1, <1>3 DEF Pending, StartedBy
<1> HIDE DEF D
<1>5. /\ taskCount' \in Nat /\ taskCount' = Cardinality(tasks')
  <2>1. /\ Cardinality(tasks) \in Nat /\ Cardinality(gone) \in Nat
        /\ Cardinality(gone) =< Cardinality(tasks)
        /\ Cardinality(tasks \ gone) = Cardinality(tasks) - Cardinality(gone)
    BY Zenon, <1>0, CardinalityMinus
  <2>2. taskCount = Cardinality(tasks)
    BY DEF IInv, CountsMatch
  <2>3. QED
    BY <2>1, <2>2
<1>6. /\ pendingTaskCount' \in Nat /\ pendingTaskCount' = Cardinality(Pending')
      /\ pendingTaskCount' =< pendingTaskCount
  <2>1. /\ Cardinality(Pending) \in Nat /\ Cardinality(dropped) \in Nat
        /\ Cardinality(dropped) =< Cardinality(Pending)
        /\ Cardinality(Pending \ dropped) = Cardinality(Pending) - Cardinality(dropped)
    BY Zenon, <1>0, CardinalityMinus
  <2>2. pendingTaskCount = Cardinality(Pending)
    BY DEF IInv, CountsMatch, Pending
  <2>3. QED
    BY <1>4, <2>1, <2>2
<1>7. QueueOK(queue', st') /\ queue' \in Seq(Callbacks)
  <2>1. queue \in Seq(Callbacks) /\ st \in [Tasks -> States]
    BY DEF IInv, TypeOK, States
  <2>2. QueueOK(queue, st')
    <3>1. \A t \in Tasks : /\ st[t] = "ready" => st'[t] = "ready"
                           /\ st[t] \in Gone => st'[t] \in Gone
      BY <1>1, <1>2 DEF Gone
    <3>2. QueueOK(queue, st)
      BY DEF IInv
    <3>3. QED
      BY <2>1, <3>1, <3>2, QueueKept
  <2>3. \A t \in gone : st'[t] \in Gone
    BY <1>0, <1>1 DEF Gone, D
  <2>4. QED
    BY <2>1, <2>2, <2>3, QueueConcat DEF Frees
<1>8. TypeOK'
  BY <1>0, <1>1, <1>5, <1>6, <1>7 DEF IInv, TypeOK
<1>9. LifeOK'
  <2>1. running' # NoTask => st'[running'] = "running"
    BY <1>0, <1>1 DEF IInv, LifeOK, D
  <2>2. ASSUME NEW t \in Tasks
        PROVE  /\ st'[t] = "running" => t = running'
               /\ st'[t] = "unborn" => ~cxl'[t] /\ starter'[t] = NoTask /\ t \notin Outsiders
               /\ t \in tasks' => starter'[t] = NoTask /\ st'[t] \in Live /\ t \notin Outsiders
               /\ st'[t] \in Live => t \in tasks' \/ starter'[t] # NoTask \/ t \in Outsiders
               /\ starter'[t] # NoTask => t \notin Outsiders
    <3>1. CASE t \in D
      <4>1. st'[t] = "finished" /\ starter'[t] = starter[t]
        BY <1>1, <3>1
      <4>2. t \in tasks => t \in gone
        <5>1. starter[t] # NoTask \/ t \in Outsiders => t \notin tasks
          BY DEF IInv, LifeOK
        <5>2. t \in gone \/ t \in Pending \/ t \in Outsiders
          BY <3>1 DEF D
        <5>3. t \in Pending => starter[t] # NoTask
          BY <1>0 DEF Pending, StartedBy
        <5>4. QED
          BY <5>1, <5>2, <5>3
      <4>3. QED
        BY <4>1, <4>2 DEF IInv, LifeOK, Live
    <3>2. CASE t \notin D
      <4>1. st'[t] = st[t] /\ starter'[t] = starter[t] /\ cxl'[t] = (cxl[t] \/ t \in told)
        BY <1>1, <3>2
      <4>2. t \notin gone /\ t \notin D /\ running \in D => running' = NoTask
        BY <3>2 DEF D
      <4>3. st[t] = "unborn" => t \notin told
        BY <1>0 DEF IInv, LifeOK, Live, Pending, StartedBy
      <4>4. st[t] = "running" => t = running /\ running' = running
        BY <3>2 DEF IInv, LifeOK, D
      <4>5. t \in tasks' <=> t \in tasks
        BY <3>2 DEF D
      <4>6. QED
        BY Zenon, <4>1, <4>3, <4>4, <4>5 DEF IInv, LifeOK
    <3>3. QED
      BY <3>1, <3>2
  <2>3. QED
    BY <2>1, <2>2 DEF LifeOK
<1>10. PendingOK'
  <2>1. ASSUME NEW p \in Pending'
        PROVE  /\ st'[p] \in Live
               /\ starter'[p] \in tasks' \cup Outsiders
               /\ st'[starter'[p]] = "suspended" /\ aw'[starter'[p]] = "start"
               /\ cxl'[p] = cxl'[starter'[p]]
    <3>1. p \in Pending /\ p \notin dropped /\ p \notin D /\ p \in Tasks
      BY <1>0, <1>3, <1>4
    <3> DEFINE s == starter[p]
    <3>2. /\ s \in tasks \cup Outsiders /\ s \in Tasks /\ st[s] = "suspended"
          /\ aw[s] = "start" /\ st[p] \in Live
      BY Zenon, <1>0, <3>1 DEF IInv, PendingOK
    <3>3. s \notin dropped
      BY <1>0, <3>2 DEF IInv, LifeOK, Pending, StartedBy
    <3>4. s \notin D
      BY <3>1, <3>3 DEF D
    <3>5. QED
      BY Zenon, <1>1, <3>1, <3>2, <3>4 DEF D
  <2>2. \A p, q \in Pending' : starter'[p] = starter'[q] => p = q
    BY <1>1, <1>4 DEF IInv, PendingOK
  <2>3. QED
    BY <2>1, <2>2 DEF PendingOK
<1>11. OpenWhileInhabited' /\ open' = hasParent'
  <2> SUFFICES ASSUME tasks' # {} \/ pendingTaskCount' # 0 PROVE open' = TRUE
    BY Zenon DEF OpenWhileInhabited
  <2>1. tasks # {} \/ pendingTaskCount # 0
    BY <1>6 DEF IInv, TypeOK
  <2>2. QED
    BY <2>1 DEF IInv, OpenWhileInhabited
<1>12. QED
  BY <1>5, <1>6, <1>7, <1>8, <1>9, <1>10, <1>11 DEF IInv, CountsMatch, Pending

\* Tasks that a cancellation request ends at once are suspended, and so are those
\* they wait to see started.
LEMMA Synchronous ==
  ASSUME IInv, NEW S \in SUBSET Tasks, \A t \in S : SyncCancelled(t)
  PROVE  /\ StartedBy(S) \subseteq Pending
         /\ \A t \in S \cup StartedBy(S) : st[t] = "suspended"
<1>1. StartedBy(S) \subseteq Pending
  BY DEF Pending, StartedBy
<1>2. ASSUME NEW p \in StartedBy(S) PROVE st[p] = "suspended"
  <2>1. p \in Pending /\ starter[p] \in S /\ starter[p] \in Tasks
    BY <1>1 DEF StartedBy
  <2>2. aw[starter[p]] = "start"
    BY <2>1 DEF IInv, PendingOK
  <2>3. PICK q \in Tasks : starter[q] = starter[p] /\ st[q] = "suspended"
    BY <2>1, <2>2 DEF SyncCancelled
  <2>4. q \in Pending
    BY <2>1, <2>3 DEF Pending, StartedBy
  <2>5. p = q
    BY <2>1, <2>3, <2>4 DEF IInv, PendingOK
  <2>6. QED
    BY <2>3, <2>5
<1>3. QED
  BY <1>1, <1>2 DEF SyncCancelled

\* NurseryBase::cancel(), in a step that leaves the running task alone.
LEMMA CancelStep ==
  ASSUME IInv, Cancel, pst # "running", pst' = pst, pcxl' \in BOOLEAN,
         error' \in Tasks \cup {NoTask}, running' = running
  PROVE  IInv'
<1> DEFINE cut == {t \in tasks : SyncCancelled(t)}
           told == tasks \cup StartedBy(tasks)
           pending == pendingTaskCount - Cardinality(StartedBy(cut))
           closes == Closes(cut, pending)
           e == Deferred(DestroyAll(cut), closes)
<1>0. tasks \subseteq Tasks /\ cut \subseteq Tasks /\ Outsiders \subseteq Tasks /\ NoTask \notin Tasks
  BY NurseryAssumption DEF NurseryAssumption, IInv, TypeOK
<1>1. /\ cancelling' = TRUE
      /\ Promises(cut \cup StartedBy(cut), {}, told)
      /\ Continuation(cut, StartedBy(cut), DestroyAll(cut))
  BY DEF Cancel
<1>2. /\ tasks' = tasks \ cut /\ taskCount' = taskCount - Cardinality(cut)
      /\ pendingTaskCount' = pending
      /\ hasParent' = (hasParent /\ ~closes) /\ open' = (open /\ ~closes)
      /\ queue' = queue \o e
  BY <1>1 DEF Continuation
<1>3. /\ StartedBy(cut) \subseteq Pending
      /\ \A t \in cut \cup StartedBy(cut) : st[t] = "suspended"
  BY <1>0, Synchronous
<1>4. Frees(e, cut)
  <2>1. closes \in BOOLEAN
    BY DEF Closes
  <2> HIDE DEF closes
  <2>2. Frees(DestroyAll(cut), cut)
    BY Zenon, <1>0, FreesDestroy
  <2>3. QED
    BY <1>0, <2>1, <2>2, FreesDeferred
<1>5. told \subseteq tasks \cup Pending \cup Outsiders
  BY <1>0 DEF StartedBy, Pending
<1>6. \A p \in Pending : starter[p] \in cut => p \in StartedBy(cut)
  BY DEF Pending, StartedBy
<1>7. \A t \in tasks' : cxl'[t] = cancelling'
  BY Zenon, <1>0, <1>1, <1>2 DEF Promises
<1>8. ASSUME NEW p \in Pending PROVE cxl'[p] = cxl'[starter[p]]
  <2>1. /\ p \in Tasks /\ starter[p] \in tasks \cup Outsiders /\ cxl[p] = cxl[starter[p]]
        /\ starter[p] \in Tasks
    BY <1>0, <1>8 DEF IInv, PendingOK, Pending, StartedBy
  <2>2. p \in told <=> starter[p] \in tasks
    BY <1>0, <1>8, <2>1 DEF IInv, LifeOK, Pending, StartedBy
  <2>3. starter[p] \in told <=> starter[p] \in tasks
    BY <1>0, <2>1 DEF IInv, LifeOK, StartedBy
  <2>4. QED
    BY <1>1, <2>1, <2>2, <2>3 DEF Promises
<1>9. open' \in BOOLEAN /\ hasParent' = open'
  BY <1>2 DEF IInv, TypeOK
<1>10. tasks' # {} \/ pendingTaskCount' # 0 => open' = open
  BY <1>2 DEF Closes, IInv, TypeOK
<1>11. running \notin cut \cup StartedBy(cut)
  BY <1>0, <1>3 DEF IInv, LifeOK, StartedBy
<1> HIDE DEF cut, told, e, closes, pending
<1>12. cut \in SUBSET tasks
  BY DEF cut
<1>13. QED
  <2> DEFINE out == {}
  <2>1. /\ out \in SUBSET Outsiders
        /\ cut \cup StartedBy(cut) \cup out = cut \cup StartedBy(cut)
        /\ cut \cup out = cut
    OBVIOUS
  <2>2. pendingTaskCount' = pendingTaskCount - Cardinality(StartedBy(cut))
    BY <1>2 DEF pending
  <2>3. running' = IF running \in cut \cup StartedBy(cut) \cup out THEN NoTask ELSE running
    BY <1>11
  <2> HIDE DEF out
  <2>4. Promises(cut \cup StartedBy(cut) \cup out, {}, told)
    BY <1>1, <2>1
  <2>5. QED
    BY Zenon, <1>1, <1>2, <1>3, <1>4, <1>5, <1>6, <1>7, <1>8, <1>9, <1>10, <1>12,
       <2>1, <2>2, <2>3, <2>4, Departure
-----------------------------------------------------------------------------
(***************************************************************************)
(* The end of a task preserves the invariant, whoever its parent is.       *)
(***************************************************************************)

\* A task terminates that lives in the nursery; if it threw, or is the block and
\* returned cancel, the others are cancelled first.
LEMMA MemberStep ==
  ASSUME IInv, NEW t \in tasks, NEW cancels \in BOOLEAN, NEW err \in BOOLEAN,
         MemberEnds(t, cancels, err),
         st[t] \in {"running", "suspended"}, st[t] = "suspended" => ~cancels,
         \A p \in Pending : starter[p] # t,
         pst # "running", pst' = pst, pcxl' = pcxl,
         running' = IF t = running THEN NoTask ELSE running
  PROVE  IInv'
<1> DEFINE fan == cancels /\ ~cancelling
           cut == IF fan THEN {u \in tasks : SyncCancelled(u)} ELSE {}
           told == IF fan THEN tasks \cup StartedBy(tasks) ELSE {}
           gone == cut \cup {t}
           dropped == StartedBy(cut)
           pending == pendingTaskCount - Cardinality(dropped)
           closes == Closes(gone, pending)
           e == Deferred(DestroyAll(cut) \o <<Destroy({t})>>, closes)
<1>0. /\ tasks \subseteq Tasks /\ cut \subseteq tasks /\ Outsiders \subseteq Tasks
      /\ NoTask \notin Tasks /\ gone \subseteq tasks
  BY NurseryAssumption DEF NurseryAssumption, IInv, TypeOK
<1>1. /\ cancelling' = (cancelling \/ cancels)
      /\ error' = IF err THEN StoredError(t) ELSE error
      /\ Promises(cut \cup dropped \cup {t}, {}, told)
      /\ Continuation(gone, dropped, DestroyAll(cut) \o <<Destroy({t})>>)
  BY DEF MemberEnds
<1>2. /\ tasks' = tasks \ gone /\ taskCount' = taskCount - Cardinality(gone)
      /\ pendingTaskCount' = pending
      /\ hasParent' = (hasParent /\ ~closes) /\ open' = (open /\ ~closes)
      /\ queue' = queue \o e
  BY <1>1 DEF Continuation
<1>3. /\ dropped \subseteq Pending
      /\ \A u \in cut \cup dropped : st[u] = "suspended"
  <2>1. \A u \in cut : SyncCancelled(u)
    OBVIOUS
  <2>2. cut \in SUBSET Tasks
    BY <1>0
  <2> HIDE DEF cut
  <2>3. QED
    BY <2>1, <2>2, Synchronous
<1>4. Frees(e, gone)
  <2>1. closes \in BOOLEAN
    BY DEF Closes
  <2>2. gone \subseteq Tasks /\ cut \subseteq gone /\ {t} \subseteq gone
    BY <1>0
  <2> HIDE DEF closes, cut, gone
  <2>3. Frees(DestroyAll(cut), gone) /\ Frees(<<Destroy({t})>>, gone)
    BY Zenon, <2>2, FreesDestroy
  <2>4. Frees(DestroyAll(cut) \o <<Destroy({t})>>, gone)
    BY <2>3, FreesConcat
  <2>5. QED
    BY <2>1, <2>2, <2>4, FreesDeferred
<1>5. told \subseteq tasks \cup Pending \cup Outsiders
  BY <1>0 DEF StartedBy, Pending
<1>6. \A p \in Pending : starter[p] \in gone => p \in dropped
  BY DEF Pending, StartedBy
<1>7. \A u \in tasks' : cxl'[u] = cancelling'
  <2>1. \A u \in tasks' : u \in Tasks /\ cxl[u] = cancelling /\ cxl'[u] = (cxl[u] \/ u \in told)
    BY <1>0, <1>1, <1>2 DEF Promises, IInv
  <2>2. cancelling \in BOOLEAN
    BY DEF IInv, TypeOK
  <2>3. \A u \in tasks' : u \in told <=> fan
    BY <1>2
  <2>4. QED
    BY <1>1, <2>1, <2>2, <2>3
<1>8. ASSUME NEW p \in Pending PROVE cxl'[p] = cxl'[starter[p]]
  <2>1. /\ p \in Tasks /\ starter[p] \in tasks \cup Outsiders /\ cxl[p] = cxl[starter[p]]
        /\ starter[p] \in Tasks
    BY <1>0, <1>8 DEF IInv, PendingOK, Pending, StartedBy
  <2>2. p \in told <=> fan /\ starter[p] \in tasks
    BY <1>0, <1>8, <2>1 DEF IInv, LifeOK, Pending, StartedBy
  <2>3. starter[p] \in told <=> fan /\ starter[p] \in tasks
    BY <1>0, <2>1 DEF IInv, LifeOK, StartedBy
  <2>4. QED
    BY <1>1, <2>1, <2>2, <2>3 DEF Promises
<1>9. open' \in BOOLEAN /\ hasParent' = open'
  BY <1>2 DEF IInv, TypeOK
<1>10. tasks' # {} \/ pendingTaskCount' # 0 => open' = open
  BY <1>2 DEF Closes, IInv, TypeOK
<1>11. running \notin cut \cup dropped
  BY <1>0, <1>3 DEF IInv, LifeOK, StartedBy
<1>12. error' \in Tasks \cup {NoTask} /\ cancelling' \in BOOLEAN
  BY <1>0, <1>1 DEF StoredError, IInv, TypeOK
<1>13. pcxl' \in BOOLEAN
  BY DEF IInv, TypeOK
<1> HIDE DEF fan, cut, told, e, closes, pending, dropped
<1>14. QED
  <2> DEFINE out == {}
  <2>1. /\ out \in SUBSET Outsiders
        /\ gone \cup dropped \cup out = cut \cup dropped \cup {t}
        /\ gone \cup out = gone
    OBVIOUS
  <2>2. pendingTaskCount' = pendingTaskCount - Cardinality(dropped)
    BY <1>2 DEF pending
  <2>3. running' = IF running \in gone \cup dropped \cup out THEN NoTask ELSE running
    BY <1>11
  <2>4. \A u \in gone \cup dropped \cup out : st[u] \in {"running", "suspended"}
    BY <1>3
  <2> HIDE DEF out, gone
  <2>5. Promises(gone \cup dropped \cup out, {}, told)
    BY <1>1, <2>1
  <2>6. gone \in SUBSET tasks /\ dropped \in SUBSET Pending
    BY <1>0, <1>3
  <2>7. \A p \in Pending : starter[p] \in gone \cup out => p \in dropped
    BY <1>6, <2>1
  <2>8. QED
    BY Zenon, <1>1, <1>2, <1>4, <1>5, <1>7, <1>8, <1>9, <1>10, <1>12, <1>13,
       <2>1, <2>2, <2>3, <2>4, <2>5, <2>6, <2>7, Departure

\* An outsider terminates that waits for no task to be started.
LEMMA OutsiderStep ==
  ASSUME IInv, NEW o \in Outsiders, OutsiderEnds(o),
         st[o] \in {"running", "suspended"}, \A p \in Pending : starter[p] # o,
         pst # "running", pst' = pst, pcxl' = pcxl,
         running' = IF o = running THEN NoTask ELSE running
  PROVE  IInv'
<1> DEFINE none == {} out == {o}
<1>0. /\ tasks \subseteq Tasks /\ Outsiders \subseteq Tasks /\ queue \in Seq(Callbacks)
      /\ taskCount \in Nat /\ pendingTaskCount \in Nat /\ Pending \subseteq Tasks
  BY NurseryAssumption DEF NurseryAssumption, IInv, TypeOK, Pending, StartedBy
<1>1. /\ none \cup none \cup out = {o} /\ none \cup out = {o} /\ tasks \ none = tasks
      /\ none \in SUBSET tasks /\ none \in SUBSET Pending /\ out \in SUBSET Outsiders
      /\ none \in SUBSET (tasks \cup Pending \cup Outsiders)
  OBVIOUS
<1>2. Cardinality(none) = 0
  BY CardinalitySmall
<1>3. /\ Promises({o}, {}, {}) /\ UNCHANGED nurseryVars /\ queue' = queue
  BY DEF OutsiderEnds
<1>4. Frees(<<>>, none) /\ queue' = queue \o <<>>
  BY <1>0, <1>3 DEF Frees
<1>5. \A t \in Tasks : cxl'[t] = cxl[t]
  BY <1>3 DEF Promises, IInv, TypeOK
<1>6. /\ \A t \in tasks' : cxl'[t] = cancelling'
      /\ \A p \in Pending \ none : cxl'[p] = cxl'[starter[p]]
  BY <1>0, <1>3, <1>5 DEF nurseryVars, IInv, PendingOK
<1>7. /\ tasks' = tasks \ none /\ taskCount' = taskCount - Cardinality(none)
      /\ pendingTaskCount' = pendingTaskCount - Cardinality(none)
      /\ open' \in BOOLEAN /\ hasParent' = open' /\ open' = open
      /\ error' \in Tasks \cup {NoTask} /\ cancelling' \in BOOLEAN
      /\ pcxl' \in BOOLEAN
  BY <1>0, <1>1, <1>2, <1>3 DEF nurseryVars, IInv, TypeOK
<1>8. /\ \A t \in none \cup none \cup out : st[t] \in {"running", "suspended"}
      /\ \A p \in Pending : starter[p] \in none \cup out => p \in none
      /\ running' = IF running \in none \cup none \cup out THEN NoTask ELSE running
  OBVIOUS
<1>9. Promises(none \cup none \cup out, {}, none)
  BY <1>1, <1>3
<1> HIDE DEF none, out
<1>10. QED
  BY Zenon, <1>1, <1>4, <1>6, <1>7, <1>8, <1>9, Departure

\* A task being started terminates, and so does the task that waits for it.
LEMMA PendingStepBoth ==
  ASSUME IInv, NEW p \in Pending, PendingEnds(p), cxl[starter[p]],
         st[p] \in {"running", "suspended"},
         pst # "running", pst' = pst, pcxl' = pcxl,
         running' = IF p = running THEN NoTask ELSE running
  PROVE  IInv'
<1> DEFINE s == starter[p]
           none == {}
           dropped == {p}
<1>0. /\ tasks \subseteq Tasks /\ Outsiders \subseteq Tasks /\ queue \in Seq(Callbacks)
      /\ taskCount \in Nat /\ pendingTaskCount \in Nat /\ Pending \subseteq Tasks
  BY NurseryAssumption DEF NurseryAssumption, IInv, TypeOK, Pending, StartedBy
<1>1. /\ s \in tasks \cup Outsiders /\ st[s] = "suspended"
      /\ \A q \in Pending : starter[q] = s => q = p
  BY DEF IInv, PendingOK
<1>2. cancelling' = cancelling /\ error' = error
  BY DEF PendingEnds
<1>3. Promises({s, p}, {}, {})
  BY DEF PendingEnds
<1>4. \A t \in Tasks : cxl'[t] = cxl[t]
  BY <1>3 DEF Promises, IInv, TypeOK
<1>5. \A q \in Pending \ dropped : cxl'[q] = cxl'[starter[q]]
  BY <1>0, <1>4 DEF IInv, PendingOK
<1>6. Cardinality(none) = 0 /\ Cardinality(dropped) = 1
  BY <1>0, CardinalitySmall
<1>7. s # running
  BY <1>0, <1>1, NurseryAssumption DEF IInv, LifeOK, NurseryAssumption
<1>8. /\ dropped \in SUBSET Pending
      /\ none \in SUBSET (tasks \cup Pending \cup Outsiders)
      /\ error' \in Tasks \cup {NoTask} /\ cancelling' \in BOOLEAN /\ pcxl' \in BOOLEAN
  BY <1>2 DEF IInv, TypeOK
<1>9. CASE s \in tasks
  <2> DEFINE gone == {s}
             pending == pendingTaskCount - Cardinality(dropped)
             closes == Closes(gone, pending)
             e == Deferred(<<Destroy({s})>>, closes)
  <2>1. Continuation(gone, dropped, <<Destroy({s})>>)
    BY <1>9 DEF PendingEnds
  <2>2. /\ tasks' = tasks \ gone /\ taskCount' = taskCount - Cardinality(gone)
        /\ pendingTaskCount' = pending
        /\ hasParent' = (hasParent /\ ~closes) /\ open' = (open /\ ~closes)
        /\ queue' = queue \o e
    BY <2>1 DEF Continuation
  <2>3. Frees(e, gone)
    <3>1. closes \in BOOLEAN
      BY DEF Closes
    <3>2. gone \subseteq Tasks
      BY <1>0, <1>9
    <3> HIDE DEF closes
    <3>3. Frees(<<Destroy({s})>>, gone)
      BY <3>2, FreesDestroy
    <3>4. QED
      BY <3>1, <3>2, <3>3, FreesDeferred
  <2>4. open' \in BOOLEAN /\ hasParent' = open'
    BY <2>2 DEF IInv, TypeOK
  <2>5. tasks' # {} \/ pendingTaskCount' # 0 => open' = open
    BY <2>2 DEF Closes, IInv, TypeOK
  <2>6. \A t \in tasks' : cxl'[t] = cancelling'
    BY <1>0, <1>2, <1>4, <2>2 DEF IInv
  <2>7. /\ gone \in SUBSET tasks /\ none \in SUBSET Outsiders
        /\ gone \cup dropped \cup none = {s, p} /\ gone \cup none = gone
        /\ \A t \in gone \cup dropped \cup none : st[t] \in {"running", "suspended"}
        /\ \A q \in Pending : starter[q] \in gone \cup none => q \in dropped
        /\ running' = IF running \in gone \cup dropped \cup none THEN NoTask ELSE running
    BY <1>1, <1>7, <1>9
  <2>8. Promises(gone \cup dropped \cup none, {}, none)
    BY <1>3, <2>7
  <2>9. pendingTaskCount' = pendingTaskCount - Cardinality(dropped)
    BY <2>2
  <2> HIDE DEF gone, dropped, none, e, closes, pending
  <2>10. QED
    BY Zenon, <1>5, <1>8, <2>2, <2>3, <2>4, <2>5, <2>6, <2>7, <2>8, <2>9, Departure
<1>10. CASE s \notin tasks
  <2> DEFINE out == {s}
  <2>1. /\ pendingTaskCount' = pendingTaskCount - 1
        /\ UNCHANGED <<tasks, taskCount, open, hasParent, queue>>
    BY <1>10 DEF PendingEnds
  <2>2. Frees(<<>>, none) /\ queue' = queue \o <<>>
    BY <1>0, <2>1 DEF Frees
  <2>3. \A t \in tasks' : cxl'[t] = cancelling'
    BY <1>0, <1>2, <1>4, <2>1 DEF IInv
  <2>4. /\ none \in SUBSET tasks /\ out \in SUBSET Outsiders
        /\ none \cup dropped \cup out = {s, p} /\ none \cup out = out
        /\ \A t \in none \cup dropped \cup out : st[t] \in {"running", "suspended"}
        /\ \A q \in Pending : starter[q] \in none \cup out => q \in dropped
        /\ running' = IF running \in none \cup dropped \cup out THEN NoTask ELSE running
    BY <1>1, <1>7, <1>10
  <2>5. Promises(none \cup dropped \cup out, {}, none)
    BY <1>3, <2>4
  <2>6. /\ tasks' = tasks \ none /\ taskCount' = taskCount - Cardinality(none)
        /\ pendingTaskCount' = pendingTaskCount - Cardinality(dropped)
        /\ open' \in BOOLEAN /\ hasParent' = open' /\ open' = open
    BY <1>0, <1>6, <2>1 DEF IInv, TypeOK
  <2> HIDE DEF out, dropped, none
  <2>7. QED
    BY Zenon, <1>5, <1>8, <2>2, <2>3, <2>4, <2>5, <2>6, Departure
<1>11. QED
  BY <1>9, <1>10

\* A task being started terminates, and the task that waits for it goes on.
LEMMA PendingStepOne ==
  ASSUME IInv, NEW p \in Pending, PendingEnds(p), ~cxl[starter[p]],
         st[p] \in {"running", "suspended"},
         pst # "running", pst' = pst, pcxl' = pcxl,
         running' = IF p = running THEN NoTask ELSE running
  PROVE  IInv'
<1> DEFINE s == starter[p]
<1>0. /\ tasks \subseteq Tasks /\ Outsiders \subseteq Tasks /\ queue \in Seq(Callbacks)
      /\ taskCount \in Nat /\ pendingTaskCount \in Nat /\ Pending \subseteq Tasks
      /\ NoTask \notin Tasks /\ running \in Tasks \cup {NoTask}
      /\ st \in [Tasks -> States] /\ p \in Tasks
  BY NurseryAssumption DEF NurseryAssumption, IInv, TypeOK, Pending, StartedBy, States
<1>1. /\ s \in tasks \cup Outsiders /\ s \in Tasks /\ st[s] = "suspended" /\ aw[s] = "start"
      /\ \A q \in Pending : starter[q] = s => q = p
      /\ s # p /\ p \notin tasks /\ p \notin Outsiders
  BY <1>0 DEF IInv, PendingOK, LifeOK, Pending, StartedBy
<1>2. /\ Promises({p}, {s}, {})
      /\ pendingTaskCount' = pendingTaskCount - 1
      /\ queue' = Append(queue, Run(s))
      /\ UNCHANGED <<cancelling, error, tasks, taskCount, open, hasParent>>
  BY DEF PendingEnds
<1>3. /\ st' = [t \in Tasks |-> IF t = p THEN "finished" ELSE IF t = s THEN "ready" ELSE st[t]]
      /\ aw' = [t \in Tasks |-> IF t \in {p, s} THEN "none" ELSE aw[t]]
      /\ cxl' \in [Tasks -> BOOLEAN] /\ (\A t \in Tasks : cxl'[t] = cxl[t])
      /\ starter' = starter
  <2>1. st' = [t \in Tasks |-> IF t = p THEN "finished" ELSE IF t = s THEN "ready" ELSE st[t]]
    BY <1>1, <1>2 DEF Promises
  <2>2. aw' = [t \in Tasks |-> IF t \in {p, s} THEN "none" ELSE aw[t]] /\ starter' = starter
    BY <1>2 DEF Promises
  <2>3. cxl' \in [Tasks -> BOOLEAN] /\ (\A t \in Tasks : cxl'[t] = cxl[t])
    BY <1>2 DEF Promises, IInv, TypeOK
  <2>4. QED
    BY <2>1, <2>2, <2>3
<1>4. Pending' = Pending \ {p}
  BY <1>0, <1>1, <1>3 DEF Pending, StartedBy
<1>5. pendingTaskCount' \in Nat /\ pendingTaskCount' = Cardinality(Pending')
  <2> DEFINE D == {p}
  <2>1. D \in SUBSET Pending /\ Cardinality(D) = 1 /\ Pending' = Pending \ D
    BY <1>0, <1>4, CardinalitySmall
  <2>0. Pending \in SUBSET Tasks
    BY <1>0
  <2> HIDE DEF D
  <2>2. /\ Cardinality(Pending) \in Nat /\ 1 =< Cardinality(Pending)
        /\ Cardinality(Pending \ D) = Cardinality(Pending) - 1
    BY Zenon, <2>0, <2>1, CardinalityMinus
  <2>3. pendingTaskCount = Cardinality(Pending)
    BY DEF IInv, CountsMatch, Pending
  <2>4. QED
    BY <1>2, <2>1, <2>2, <2>3
<1>6. QueueOK(queue', st') /\ queue' \in Seq(Callbacks)
  <2>1. /\ st'[s] = "ready" /\ st[s] # "ready" /\ st[s] \notin Gone
        /\ \A u \in Tasks \ {s} : /\ st[u] = "ready" => st'[u] = "ready"
                                  /\ st[u] \in Gone => st'[u] \in Gone
    BY <1>1, <1>3 DEF Gone
  <2>2. QueueOK(queue, st)
    BY DEF IInv
  <2>3. QED
    BY <1>0, <1>1, <1>2, <2>1, <2>2, QueueRun
<1>7. TypeOK'
  BY <1>0, <1>1, <1>2, <1>3, <1>5, <1>6 DEF IInv, TypeOK
<1>8. LifeOK'
  <2>1. running' # NoTask => st'[running'] = "running"
    BY <1>0, <1>1, <1>3 DEF IInv, LifeOK
  <2>2. QED
    BY Zenon, <1>0, <1>1, <1>2, <1>3, <2>1 DEF IInv, LifeOK, Live
<1>9. PendingOK'
  <2>1. \A q \in Pending' : q \in Pending /\ q # p /\ q \in Tasks /\ starter[q] # s
                            /\ starter[q] # p /\ starter[q] \in Tasks /\ q # s
    <3>1. \A q \in Pending' : q \in Pending /\ q # p /\ q \in Tasks
      BY <1>0, <1>4
    <3>2. \A q \in Pending : starter[q] \in tasks \cup Outsiders /\ starter[q] # NoTask
      BY <1>0 DEF IInv, PendingOK
    <3>3. \A q \in Pending' : starter[q] # s /\ starter[q] # p /\ starter[q] \in Tasks
      BY <1>0, <1>1, <3>1, <3>2
    <3>4. starter[s] = NoTask
      BY <1>0, <1>1 DEF IInv, LifeOK
    <3>5. QED
      BY <3>1, <3>2, <3>3, <3>4
  <2>2. \A q \in Pending' : st'[q] = st[q] /\ st'[starter[q]] = st[starter[q]]
                            /\ aw'[starter[q]] = aw[starter[q]]
    BY <1>3, <2>1
  <2>3. \A q \in Pending' : /\ st[q] \in Live /\ starter[q] \in tasks \cup Outsiders
                            /\ st[starter[q]] = "suspended" /\ aw[starter[q]] = "start"
                            /\ cxl[q] = cxl[starter[q]]
    BY <2>1 DEF IInv, PendingOK
  <2>4. \A q, u \in Pending' : starter[q] = starter[u] => q = u
    BY <2>1 DEF IInv, PendingOK
  <2>5. \A q \in Pending' : cxl'[q] = cxl[q] /\ cxl'[starter[q]] = cxl[starter[q]]
    BY <1>3, <2>1
  <2>6. starter' = starter /\ tasks' = tasks
    BY <1>2, <1>3
  <2>7. QED
    BY <2>2, <2>3, <2>4, <2>5, <2>6 DEF PendingOK
<1>10. OpenWhileInhabited' /\ open' = hasParent'
  BY <1>0, <1>2, <1>5 DEF IInv, OpenWhileInhabited
<1>11. CountsMatch'
  BY <1>2, <1>5 DEF IInv, CountsMatch, Pending
<1>12. \A t \in tasks' : cxl'[t] = cancelling'
  BY <1>0, <1>2, <1>3 DEF IInv
<1>13. QED
  BY <1>6, <1>7, <1>8, <1>9, <1>10, <1>11, <1>12 DEF IInv

\* A task terminates, whoever its parent is.
LEMMA EndsStep ==
  ASSUME IInv, NEW t \in Tasks, NEW cancels \in BOOLEAN, NEW err \in BOOLEAN,
         Ends(t, cancels, err),
         st[t] \in {"running", "suspended"},
         st[t] = "suspended" => aw[t] # "start" /\ ~cancels,
         pst # "running", UNCHANGED parentVars,
         running' = IF t = running THEN NoTask ELSE running
  PROVE  IInv'
<1>1. pst' = pst /\ pcxl' = pcxl
  BY DEF parentVars
<1>2. \A p \in Pending : starter[p] # t
  BY DEF IInv, PendingOK
<1>3. CASE t \in tasks /\ MemberEnds(t, cancels, err)
  BY <1>1, <1>2, <1>3, MemberStep
<1>4. CASE starter[t] # NoTask /\ PendingEnds(t)
  <2>1. t \in Pending
    BY <1>4 DEF Pending, StartedBy, IInv, TypeOK
  <2>2. QED
    BY <1>1, <1>4, <2>1, PendingStepOne, PendingStepBoth
<1>5. CASE t \in Outsiders /\ OutsiderEnds(t)
  BY <1>1, <1>2, <1>5, OutsiderStep
<1>6. QED
  BY <1>3, <1>4, <1>5 DEF Ends
-----------------------------------------------------------------------------
(***************************************************************************)
(* What the nursery leaves to the executor.                                *)
(***************************************************************************)
\* q holds one callback for every task of R, destroys every frame of D once, and
\* has one callback of the kind k for the parent, after those that destroy frames.
Serves(q, R, D, k) ==
  /\ \A i \in DOMAIN q : q[i].op # "destroy" => q[i].frames = {}
  /\ R = {q[i].task : i \in {j \in DOMAIN q : q[j].op = "run"}}
  /\ D = UNION {q[i].frames : i \in DOMAIN q}
  /\ \A i, j \in DOMAIN q : i # j => q[i].frames \cap q[j].frames = {}
  /\ k \in {"none", "resumeParent", "runParent"}
  /\ k # "none" => \E i \in DOMAIN q : q[i].op = k
  /\ \A i, j \in DOMAIN q : q[i].op \in {"resumeParent", "runParent"} =>
       /\ q[i].op = k
       /\ q[j].op = k => i = j
       /\ q[j].frames # {} => j < i

ReadyTasks == {t \in Tasks : st[t] = "ready"}
DeadFrames == {t \in Insiders : st[t] = "finished" /\ starter[t] = NoTask}
ParentCallback == IF pst = "ready" THEN "runParent"
                  ELSE IF pst = "awaiting" /\ ~hasParent THEN "resumeParent" ELSE "none"

\* The frame of a task that ended before it was started is in good hands: its
\* starter is about to run, or its own frame is about to be destroyed.
OwnersKept ==
  \A p \in Tasks : st[p] = "finished" /\ starter[p] \in Insiders =>
    \/ starter[p] \in tasks /\ st[starter[p]] = "ready"
    \/ st[starter[p]] = "finished" /\ starter[starter[p]] = NoTask

\* What the nursery leaves to the executor, on top of IInv.
QInv ==
  /\ Serves(queue, ReadyTasks, DeadFrames, ParentCallback)
  /\ OwnersKept
  /\ hasParent => pst = "awaiting"
  /\ pst \in {"ready", "resumed", "cancelled"} => DeadFrames = {}

Lived == {t \in Insiders : st[t] # "unborn"}

\* A step in which no task comes to life; frames go, or the parent is to learn
\* of an error.
Quiet ==
  /\ pst' = pst /\ Lived' = Lived /\ LiveFrames' \subseteq LiveFrames
  /\ error' = error \/ (LiveFrames' = LiveFrames /\ error = NoTask /\ pst = "awaiting")
-----------------------------------------------------------------------------
\* The callbacks of a concatenation.
LEMMA Joined ==
  ASSUME NEW q \in Seq(Callbacks), NEW e \in Seq(Callbacks)
  PROVE  /\ q \o e \in Seq(Callbacks)
         /\ \A i \in DOMAIN (q \o e) :
              \/ i \in DOMAIN q /\ (q \o e)[i] = q[i]
              \/ i - Len(q) \in DOMAIN e /\ (q \o e)[i] = e[i - Len(q)] /\ i > Len(q)
         /\ \A i \in DOMAIN q : i \in DOMAIN (q \o e) /\ (q \o e)[i] = q[i] /\ i =< Len(q)
         /\ \A i \in DOMAIN e : /\ Len(q) + i \in DOMAIN (q \o e)
                                /\ (q \o e)[Len(q) + i] = e[i]
<1> DEFINE r == q \o e
<1>1. r \in Seq(Callbacks) /\ Len(r) = Len(q) + Len(e)
  OBVIOUS
<1>2. /\ Len(q) \in Nat /\ Len(e) \in Nat /\ DOMAIN q = 1..Len(q) /\ DOMAIN e = 1..Len(e)
      /\ DOMAIN r = 1..(Len(q) + Len(e))
  BY <1>1
<1>3. \A i \in DOMAIN r : r[i] = IF i =< Len(q) THEN q[i] ELSE e[i - Len(q)]
  BY <1>2
<1> HIDE DEF r
<1>4. ASSUME NEW i \in DOMAIN r
      PROVE  \/ i \in DOMAIN q /\ r[i] = q[i]
             \/ i - Len(q) \in DOMAIN e /\ r[i] = e[i - Len(q)] /\ i > Len(q)
  BY <1>2, <1>3
<1>5. ASSUME NEW i \in DOMAIN q PROVE i \in DOMAIN r /\ r[i] = q[i] /\ i =< Len(q)
  BY <1>2, <1>3
<1>6. ASSUME NEW i \in DOMAIN e PROVE Len(q) + i \in DOMAIN r /\ r[Len(q) + i] = e[i]
  <2>1. Len(q) + i \in DOMAIN r /\ ~(Len(q) + i =< Len(q)) /\ (Len(q) + i) - Len(q) = i
    BY <1>2
  <2> QED
    BY <1>3, <2>1
<1> QED
  BY <1>1, <1>4, <1>5, <1>6 DEF r

\* Two queues after each other do the work of both, if the parent does not have
\* to wait for frames that are destroyed behind it.
LEMMA ServesBoth ==
  ASSUME NEW q \in Seq(Callbacks), NEW e \in Seq(Callbacks),
         NEW R, NEW D, NEW k, Serves(q, R, D, k),
         NEW R2, NEW D2, NEW k2, Serves(e, R2, D2, k2),
         D \cap D2 = {}, k = "none" \/ (k2 = "none" /\ D2 = {})
  PROVE  Serves(q \o e, R \cup R2, D \cup D2, IF k = "none" THEN k2 ELSE k)
<1> DEFINE r == q \o e
           kk == IF k = "none" THEN k2 ELSE k
           Old(i) == i \in DOMAIN q /\ r[i] = q[i] /\ i =< Len(q)
           Added(i) == i - Len(q) \in DOMAIN e /\ r[i] = e[i - Len(q)] /\ i > Len(q)
<1>1. /\ r \in Seq(Callbacks)
      /\ \A i \in DOMAIN r : Old(i) \/ Added(i)
      /\ \A i \in DOMAIN q : i \in DOMAIN r /\ r[i] = q[i]
      /\ \A i \in DOMAIN e : Len(q) + i \in DOMAIN r /\ r[Len(q) + i] = e[i]
  BY Joined
<1>2. DOMAIN r \subseteq Nat /\ Len(q) \in Nat
  BY <1>1
<1> HIDE DEF r
<1>3. \A i \in DOMAIN r : r[i].op # "destroy" => r[i].frames = {}
  BY <1>1 DEF Serves
<1>4. R \cup R2 = {r[i].task : i \in {j \in DOMAIN r : r[j].op = "run"}}
  <2>1. ASSUME NEW t \in R \cup R2 PROVE \E i \in DOMAIN r : r[i].op = "run" /\ t = r[i].task
    <3>1. CASE t \in R
      <4>1. PICK i \in DOMAIN q : q[i].op = "run" /\ t = q[i].task
        BY <3>1 DEF Serves
      <4> QED
        BY <1>1, <4>1
    <3>2. CASE t \in R2
      <4>1. PICK i \in DOMAIN e : e[i].op = "run" /\ t = e[i].task
        BY <3>2 DEF Serves
      <4> QED
        BY <1>1, <4>1
    <3> QED
      BY <3>1, <3>2
  <2>2. ASSUME NEW i \in DOMAIN r, r[i].op = "run" PROVE r[i].task \in R \cup R2
    BY <1>1, <2>2 DEF Serves
  <2> QED
    BY <2>1, <2>2
<1>5. D \cup D2 = UNION {r[i].frames : i \in DOMAIN r}
  <2>1. ASSUME NEW t \in D \cup D2 PROVE \E i \in DOMAIN r : t \in r[i].frames
    <3>1. CASE t \in D
      <4>1. PICK i \in DOMAIN q : t \in q[i].frames
        BY <3>1 DEF Serves
      <4> QED
        BY <1>1, <4>1
    <3>2. CASE t \in D2
      <4>1. PICK i \in DOMAIN e : t \in e[i].frames
        BY <3>2 DEF Serves
      <4> QED
        BY <1>1, <4>1
    <3> QED
      BY <3>1, <3>2
  <2>2. ASSUME NEW i \in DOMAIN r, NEW t \in r[i].frames PROVE t \in D \cup D2
    BY <1>1 DEF Serves
  <2> QED
    BY <2>1, <2>2
<1>6. ASSUME NEW i \in DOMAIN r, NEW j \in DOMAIN r, i # j
      PROVE  r[i].frames \cap r[j].frames = {}
  <2>1. CASE Old(i) /\ Old(j)
    BY <1>6, <2>1 DEF Serves
  <2>2. CASE Added(i) /\ Added(j)
    <3>1. i - Len(q) # j - Len(q)
      BY <1>2, <1>6
    <3> QED
      BY <2>2, <3>1 DEF Serves
  <2>3. CASE Old(i) /\ Added(j)
    <3>1. r[i].frames \subseteq D /\ r[j].frames \subseteq D2
      BY <2>3 DEF Serves
    <3> QED
      BY <3>1
  <2>4. CASE Added(i) /\ Old(j)
    <3>1. r[i].frames \subseteq D2 /\ r[j].frames \subseteq D
      BY <2>4 DEF Serves
    <3> QED
      BY <3>1
  <2> QED
    BY <1>1, <2>1, <2>2, <2>3, <2>4
<1>7. kk # "none" => \E i \in DOMAIN r : r[i].op = kk
  BY <1>1 DEF Serves
<1>8. ASSUME NEW i \in DOMAIN r, NEW j \in DOMAIN r, r[i].op \in {"resumeParent", "runParent"}
      PROVE  /\ r[i].op = kk
             /\ r[j].op = kk => i = j
             /\ r[j].frames # {} => j < i
  <2>1. CASE Old(i)
    <3>1. k # "none" /\ r[i].op = k /\ kk = k /\ k2 = "none" /\ D2 = {}
      BY <1>8, <2>1 DEF Serves
    <3>2. CASE Old(j)
      BY <1>8, <2>1, <3>1, <3>2 DEF Serves
    <3>3. CASE Added(j)
      <4>1. r[j].frames = {} /\ r[j].op \notin {"resumeParent", "runParent"}
        BY <3>1, <3>3 DEF Serves
      <4> QED
        BY <1>8, <3>1, <4>1
    <3> QED
      BY <1>1, <3>2, <3>3
  <2>2. CASE Added(i)
    <3>1. r[i].op = k2 /\ k = "none" /\ kk = k2
      BY <1>8, <2>2 DEF Serves
    <3>2. CASE Old(j)
      <4>1. r[j].op \notin {"resumeParent", "runParent"}
        BY <3>1, <3>2 DEF Serves
      <4>2. i \in Nat /\ j \in Nat /\ Len(q) \in Nat
        BY <1>2
      <4>3. j < i
        BY <2>2, <3>2, <4>2
      <4> QED
        BY <1>8, <3>1, <4>1, <4>3
    <3>3. CASE Added(j)
      <4>1. /\ r[i].op = k2
            /\ r[j].op = k2 => i - Len(q) = j - Len(q)
            /\ r[j].frames # {} => j - Len(q) < i - Len(q)
        BY <1>8, <2>2, <3>3 DEF Serves
      <4>2. i \in Nat /\ j \in Nat /\ Len(q) \in Nat
        BY <1>2
      <4> QED
        BY <3>1, <4>1, <4>2
    <3> QED
      BY <1>1, <3>2, <3>3
  <2> QED
    BY <1>1, <2>1, <2>2
<1>9. Serves(r, R \cup R2, D \cup D2, kk)
  <2>1. kk \in {"none", "resumeParent", "runParent"}
    BY DEF Serves
  <2> QED
  BY Zenon, <2>1, <1>3, <1>4, <1>5, <1>6, <1>7, <1>8 DEF Serves
<1> QED
  BY <1>9 DEF r

\* What the callbacks that are ever added do.
LEMMA ServesOne ==
  /\ Serves(<<>>, {}, {}, "none") /\ <<>> \in Seq(Callbacks)
  /\ \A t \in Tasks : Serves(<<Run(t)>>, {t}, {}, "none") /\ <<Run(t)>> \in Seq(Callbacks)
  /\ \A S \in SUBSET Tasks : /\ Serves(<<Destroy(S)>>, {}, S, "none")
                             /\ Serves(DestroyAll(S), {}, S, "none")
                             /\ <<Destroy(S)>> \in Seq(Callbacks)
                             /\ DestroyAll(S) \in Seq(Callbacks)
  /\ Serves(<<ResumeParent>>, {}, {}, "resumeParent") /\ <<ResumeParent>> \in Seq(Callbacks)
  /\ Serves(<<RunParent>>, {}, {}, "runParent") /\ <<RunParent>> \in Seq(Callbacks)
<1>1. Serves(<<>>, {}, {}, "none") /\ <<>> \in Seq(Callbacks)
  BY DEF Serves
<1>2. ASSUME NEW c \in Callbacks
      PROVE  /\ <<c>> \in Seq(Callbacks) /\ DOMAIN <<c>> = {1} /\ <<c>>[1] = c
  OBVIOUS
<1>3. ASSUME NEW t \in Tasks PROVE Serves(<<Run(t)>>, {t}, {}, "none") /\ <<Run(t)>> \in Seq(Callbacks)
  <2>1. Run(t) \in Callbacks /\ Run(t).op = "run" /\ Run(t).task = t /\ Run(t).frames = {}
    BY DEF Run, Callbacks
  <2> QED
    BY <1>2, <2>1 DEF Serves
<1>4. ASSUME NEW S \in SUBSET Tasks
      PROVE  Serves(<<Destroy(S)>>, {}, S, "none") /\ <<Destroy(S)>> \in Seq(Callbacks)
  <2>1. Destroy(S) \in Callbacks /\ Destroy(S).op = "destroy" /\ Destroy(S).frames = S
    BY DEF Destroy, Callbacks
  <2> QED
    BY <1>2, <2>1 DEF Serves
<1>5. ASSUME NEW S \in SUBSET Tasks
      PROVE  Serves(DestroyAll(S), {}, S, "none") /\ DestroyAll(S) \in Seq(Callbacks)
  BY <1>1, <1>4 DEF DestroyAll
<1>6. Serves(<<ResumeParent>>, {}, {}, "resumeParent") /\ <<ResumeParent>> \in Seq(Callbacks)
  <2>1. /\ ResumeParent \in Callbacks /\ ResumeParent.op = "resumeParent"
        /\ ResumeParent.frames = {}
    BY DEF ResumeParent, Callbacks
  <2> QED
    BY <1>2, <2>1 DEF Serves
<1>7. Serves(<<RunParent>>, {}, {}, "runParent") /\ <<RunParent>> \in Seq(Callbacks)
  <2>1. RunParent \in Callbacks /\ RunParent.op = "runParent" /\ RunParent.frames = {}
    BY DEF RunParent, Callbacks
  <2> QED
    BY <1>2, <2>1 DEF Serves
<1> QED
  BY <1>1, <1>3, <1>4, <1>5, <1>6, <1>7

\* A task is scheduled.
LEMMA ServesRun ==
  ASSUME NEW q \in Seq(Callbacks), NEW R, NEW D, NEW k, Serves(q, R, D, k), NEW t \in Tasks
  PROVE  Serves(Append(q, Run(t)), R \cup {t}, D, k)
<1>1. Append(q, Run(t)) = q \o <<Run(t)>>
  OBVIOUS
<1>2. Serves(<<Run(t)>>, {t}, {}, "none") /\ <<Run(t)>> \in Seq(Callbacks)
  BY ServesOne
<1>3. D \cap {} = {} /\ D \cup {} = D /\ (IF k = "none" THEN "none" ELSE k) = k
  OBVIOUS
<1>4. Serves(q \o <<Run(t)>>, R \cup {t}, D \cup {}, IF k = "none" THEN "none" ELSE k)
  BY Zenon, <1>2, <1>3, ServesBoth
<1> QED
  BY <1>1, <1>3, <1>4

\* What continuation() leaves to the executor, behind a queue without the parent.
LEMMA ServesDeferred ==
  ASSUME NEW q \in Seq(Callbacks), NEW R, NEW D, Serves(q, R, D, "none"),
         NEW d \in Seq(Callbacks), NEW S, Serves(d, {}, S, "none"), D \cap S = {},
         NEW c \in BOOLEAN
  PROVE  Serves(q \o Deferred(d, c), R, D \cup S, IF c THEN "resumeParent" ELSE "none")
<1> DEFINE k == IF c THEN "resumeParent" ELSE "none"
<1>1. Serves(IF c THEN <<ResumeParent>> ELSE <<>>, {}, {}, k)
  BY ServesOne
<1>2. (IF c THEN <<ResumeParent>> ELSE <<>>) \in Seq(Callbacks)
  BY ServesOne
<1>3. Serves(Deferred(d, c), {} \cup {}, S \cup {}, IF "none" = "none" THEN k ELSE "none")
  BY Zenon, <1>1, <1>2, ServesBoth DEF Deferred
<1>4. Deferred(d, c) \in Seq(Callbacks)
  BY <1>2 DEF Deferred
<1>5. Serves(Deferred(d, c), {}, S, k)
  BY <1>3
<1>6. Serves(q \o Deferred(d, c), R \cup {}, D \cup S, IF "none" = "none" THEN k ELSE "none")
  BY Zenon, <1>4, <1>5, ServesBoth
<1> QED
  BY <1>6

\* The oldest callback is taken.
LEMMA ServesRest ==
  ASSUME NEW q \in Seq(Callbacks), q # <<>>, NEW R, NEW D, NEW k, Serves(q, R, D, k),
         \A i \in DOMAIN Tail(q) : Head(q).op = "run" /\ Tail(q)[i].op = "run"
                                     => Tail(q)[i].task # Head(q).task
  PROVE  /\ Serves(Tail(q), IF Head(q).op = "run" THEN R \ {Head(q).task} ELSE R,
                   D \ Head(q).frames,
                   IF Head(q).op \in {"resumeParent", "runParent"} THEN "none" ELSE k)
         /\ Head(q).frames \subseteq D
         /\ Head(q).op # "destroy" => Head(q).frames = {}
         /\ Head(q).op \in {"resumeParent", "runParent"} => Head(q).op = k /\ D = {}
<1> DEFINE r == Tail(q)
           h == Head(q)
           RR == IF h.op = "run" THEN R \ {h.task} ELSE R
           kk == IF h.op \in {"resumeParent", "runParent"} THEN "none" ELSE k
<1>1. /\ h = q[1] /\ r \in Seq(Callbacks) /\ Len(q) \in Nat \ {0} /\ DOMAIN q = 1..Len(q)
      /\ DOMAIN r = 1..(Len(q) - 1)
      /\ \A i \in 1..(Len(q) - 1) : r[i] = q[i + 1]
  OBVIOUS
<1>2. /\ 1 \in DOMAIN q
      /\ \A i \in DOMAIN r : i + 1 \in DOMAIN q /\ i + 1 # 1 /\ r[i] = q[i + 1] /\ i \in Nat
      /\ \A i \in DOMAIN q : i = 1 \/ (i - 1 \in DOMAIN r /\ r[i - 1] = q[i])
      /\ \A i \in DOMAIN q : i \in Nat /\ ~(i < 1)
  BY <1>1
<1>3. h = q[1]
  BY <1>1
<1> HIDE DEF r, h
<1>4. \A i \in DOMAIN r : h.op = "run" /\ r[i].op = "run" => r[i].task # h.task
  BY DEF r, h
<1>5. /\ h.frames \subseteq D /\ (h.op # "destroy" => h.frames = {})
      /\ h.op \in {"resumeParent", "runParent"} => h.op = k
  BY <1>2, <1>3 DEF Serves
<1>6. h.op \in {"resumeParent", "runParent"} => D = {}
  <2>1. h.op \in {"resumeParent", "runParent"} => \A j \in DOMAIN q : q[j].frames # {} => j < 1
    BY <1>2, <1>3 DEF Serves
  <2>2. h.op \in {"resumeParent", "runParent"} => \A j \in DOMAIN q : q[j].frames = {}
    BY <1>2, <2>1
  <2> QED
    BY <2>2 DEF Serves
<1>7. \A i \in DOMAIN r : r[i].op # "destroy" => r[i].frames = {}
  BY <1>2 DEF Serves
<1>8. RR = {r[i].task : i \in {j \in DOMAIN r : r[j].op = "run"}}
  <2>1. ASSUME NEW t \in RR PROVE \E i \in DOMAIN r : r[i].op = "run" /\ t = r[i].task
    <3>1. PICK i \in DOMAIN q : q[i].op = "run" /\ t = q[i].task
      BY DEF Serves
    <3>2. i # 1
      BY <1>3, <3>1
    <3> QED
      BY <1>2, <3>1, <3>2
  <2>2. ASSUME NEW i \in DOMAIN r, r[i].op = "run" PROVE r[i].task \in RR
    <3>1. q[i + 1] = r[i] /\ i + 1 \in DOMAIN q /\ q[i + 1].op = "run"
      BY Zenon, <1>2, <2>2
    <3>2. q[i + 1].task \in R
      BY <3>1 DEF Serves
    <3> QED
      BY <1>4, <2>2, <3>1, <3>2
  <2> QED
    BY <2>1, <2>2
<1>9. \A i, j \in DOMAIN q : i # j => q[i].frames \cap q[j].frames = {}
  BY DEF Serves
<1>10. D \ h.frames = UNION {r[i].frames : i \in DOMAIN r}
  <2>1. ASSUME NEW t \in D \ h.frames PROVE \E i \in DOMAIN r : t \in r[i].frames
    <3>1. PICK i \in DOMAIN q : t \in q[i].frames
      BY DEF Serves
    <3>2. i # 1
      BY <1>3, <3>1
    <3> QED
      BY Zenon, <1>2, <3>1, <3>2
  <2>2. ASSUME NEW i \in DOMAIN r, NEW t \in r[i].frames PROVE t \in D \ h.frames
    <3>1. t \in q[i + 1].frames /\ i + 1 \in DOMAIN q /\ i + 1 # 1
      BY Zenon, <1>2
    <3>2. t \notin q[1].frames
      BY Zenon, <1>2, <1>9, <3>1
    <3> QED
      BY <1>3, <3>1, <3>2 DEF Serves
  <2> QED
    BY <2>1, <2>2
<1>11. \A i, j \in DOMAIN r : i # j => r[i].frames \cap r[j].frames = {}
  <2>1. \A i, j \in DOMAIN r : i # j => i + 1 # j + 1
    BY <1>2
  <2>2. \A i \in DOMAIN r : i + 1 \in DOMAIN q /\ r[i] = q[i + 1]
    BY <1>2
  <2> QED
    BY Zenon, <1>9, <2>1, <2>2
<1>12. kk # "none" => \E i \in DOMAIN r : r[i].op = kk
  <2> SUFFICES ASSUME kk # "none" PROVE \E i \in DOMAIN r : r[i].op = kk
    OBVIOUS
  <2>1. kk = k /\ h.op \notin {"resumeParent", "runParent"}
    OBVIOUS
  <2>2. PICK i \in DOMAIN q : q[i].op = k
    BY <2>1 DEF Serves
  <2>3. i # 1
    BY <1>3, <2>1, <2>2 DEF Serves
  <2> QED
    BY Zenon, <1>2, <2>1, <2>2, <2>3
<1>13. ASSUME NEW i \in DOMAIN r, NEW j \in DOMAIN r, r[i].op \in {"resumeParent", "runParent"}
       PROVE  /\ r[i].op = kk
              /\ r[j].op = kk => i = j
              /\ r[j].frames # {} => j < i
  <2>1. /\ i + 1 \in DOMAIN q /\ j + 1 \in DOMAIN q /\ r[i] = q[i + 1] /\ r[j] = q[j + 1]
        /\ i \in Nat /\ j \in Nat /\ i + 1 # 1
    BY <1>2
  <2>2. /\ r[i].op = k
        /\ r[j].op = k => i + 1 = j + 1
        /\ r[j].frames # {} => j + 1 < i + 1
        /\ q[1].op = k => i + 1 = 1
    <3> DEFINE a == i + 1
               b == j + 1
    <3>1. a \in DOMAIN q /\ b \in DOMAIN q /\ 1 \in DOMAIN q /\ q[a].op \in {"resumeParent", "runParent"}
      BY <1>2, <1>13, <2>1
    <3> HIDE DEF a, b
    <3>2. /\ q[a].op = k
          /\ q[b].op = k => a = b
          /\ q[b].frames # {} => b < a
          /\ q[1].op = k => a = 1
      BY <3>1 DEF Serves
    <3> QED
      BY <2>1, <3>2 DEF a, b
  <2>3. kk = k
    BY <1>3, <1>5, <2>1, <2>2
  <2> QED
    BY <2>1, <2>2, <2>3
<1>14. kk \in {"none", "resumeParent", "runParent"}
  BY DEF Serves
<1>15. Serves(r, RR, D \ h.frames, kk)
  BY Zenon, <1>7, <1>8, <1>10, <1>11, <1>12, <1>13, <1>14 DEF Serves
<1> QED
  BY <1>5, <1>6, <1>15 DEF r, h
-----------------------------------------------------------------------------
\* As long as somebody is in the nursery, its parent waits and is not scheduled.
LEMMA Inhabited ==
  ASSUME IInv, QInv, tasks # {} \/ Pending # {}
  PROVE  hasParent /\ pst = "awaiting" /\ ParentCallback = "none"
<1>1. Pending \subseteq Tasks
  BY DEF Pending, StartedBy
<1>2. Pending # {} => pendingTaskCount # 0
  BY <1>1 DEF IInv, CountFacts, CountsMatch, Pending
<1>3. hasParent
  BY <1>2 DEF IInv, OpenWhileInhabited
<1> QED
  BY <1>3 DEF QInv, ParentCallback

\* Tasks end, or are scheduled, or are told of a cancellation.
LEMMA AfterPromises ==
  ASSUME IInv, QInv, NEW done \in SUBSET Tasks, NEW woken \in SUBSET Tasks, NEW told,
         Promises(done, woken, told), done \cap woken = {},
         \A t \in done : st[t] \in {"running", "suspended"},
         \A t \in woken : st[t] = "suspended",
         tasks \ done \subseteq tasks',
         \A p \in done : starter[p] \in Insiders =>
           \/ starter[p] \in tasks' /\ starter[p] \in woken
           \/ starter[p] \in done /\ starter[starter[p]] = NoTask
  PROVE  /\ ReadyTasks' = ReadyTasks \cup woken
         /\ DeadFrames' = DeadFrames \cup {t \in done : t \in Insiders /\ starter[t] = NoTask}
         /\ OwnersKept'
         /\ Lived' = Lived
         /\ LiveFrames' = LiveFrames \ {p \in done : starter[p] \in Outsiders}
<1>1. /\ \A t \in Tasks : st'[t] = IF t \in done THEN "finished" ELSE IF t \in woken THEN "ready" ELSE st[t]
      /\ starter' = starter
  BY DEF Promises
<1>2. Insiders \subseteq Tasks
  BY DEF Insiders
<1>3. ReadyTasks' = ReadyTasks \cup woken
  BY <1>1 DEF ReadyTasks
<1>4. DeadFrames' = DeadFrames \cup {t \in done : t \in Insiders /\ starter[t] = NoTask}
  BY <1>1, <1>2 DEF DeadFrames
<1>5. OwnersKept'
  <2> SUFFICES ASSUME NEW p \in Tasks, st'[p] = "finished", starter[p] \in Insiders
               PROVE  \/ starter[p] \in tasks' /\ st'[starter[p]] = "ready"
                      \/ st'[starter[p]] = "finished" /\ starter[starter[p]] = NoTask
    BY <1>1 DEF OwnersKept
  <2>1. CASE p \in done
    BY <1>1, <1>2, <2>1
  <2>2. CASE p \notin done
    <3>1. st[p] = "finished"
      BY <1>1, <2>2
    <3>2. \/ starter[p] \in tasks /\ st[starter[p]] = "ready"
          \/ st[starter[p]] = "finished" /\ starter[starter[p]] = NoTask
      BY <3>1 DEF QInv, OwnersKept
    <3>3. starter[p] \notin done /\ starter[p] \notin woken
      BY <3>2
    <3> QED
      BY <1>1, <1>2, <3>2, <3>3
  <2> QED
    BY <2>1, <2>2
<1>6. Lived' = Lived
  BY <1>1, <1>2 DEF Lived
<1>7. LiveFrames' = LiveFrames \ {p \in done : starter[p] \in Outsiders}
  BY <1>1, <1>2 DEF LiveFrames
<1> QED
  BY <1>3, <1>4, <1>5, <1>6, <1>7

\* Members leave, and perhaps the nursery closes.
LEMMA AfterContinuation ==
  ASSUME IInv, QInv, pst' = pst, NEW gone \in SUBSET tasks, NEW dropped,
         NEW d \in Seq(Callbacks), Serves(d, {}, gone, "none"), gone = {} => d = <<>>,
         Continuation(gone, dropped, d),
         ReadyTasks' = ReadyTasks, DeadFrames' = DeadFrames \cup gone, OwnersKept',
         DeadFrames \cap gone = {}
  PROVE  QInv'
<1> DEFINE closes == Closes(gone, pendingTaskCount - Cardinality(dropped))
<1>1. /\ hasParent' = (hasParent /\ ~closes)
      /\ queue' = queue \o Deferred(d, closes)
  BY DEF Continuation
<1>2. closes \in BOOLEAN /\ (closes => gone # {})
  BY DEF Closes
<1>3. queue \in Seq(Callbacks) /\ hasParent \in BOOLEAN
  BY DEF IInv, TypeOK
<1>4. Serves(queue, ReadyTasks, DeadFrames, ParentCallback)
  BY DEF QInv
<1> HIDE DEF closes
<1>5. CASE gone # {}
  <2>1. hasParent /\ pst = "awaiting" /\ ParentCallback = "none"
    BY <1>5, Inhabited
  <2>2. ParentCallback' = IF closes THEN "resumeParent" ELSE "none"
    BY Zenon, <1>1, <1>2, <2>1 DEF ParentCallback
  <2>3. Serves(queue', ReadyTasks, DeadFrames \cup gone, ParentCallback')
    BY Zenon, <1>1, <1>2, <1>3, <1>4, <2>1, <2>2, ServesDeferred
  <2> QED
    BY <2>1, <2>3 DEF QInv
<1>6. CASE gone = {}
  <2>1. closes = FALSE /\ d = <<>>
    BY <1>2, <1>6
  <2>2. queue' = queue /\ hasParent' = hasParent
    BY <1>1, <1>3, <2>1 DEF Deferred
  <2>3. ParentCallback' = ParentCallback /\ DeadFrames' = DeadFrames
    BY <1>6, <2>2 DEF ParentCallback
  <2> QED
    BY Zenon, <1>4, <2>2, <2>3 DEF QInv
<1> QED
  BY <1>5, <1>6

\* NurseryBase::doCancel().
LEMMA AfterCancel ==
  ASSUME IInv, QInv, Cancel, pst' = pst
  PROVE  QInv' /\ Lived' = Lived /\ LiveFrames' = LiveFrames
<1> DEFINE cut == {t \in tasks : SyncCancelled(t)}
           done == cut \cup StartedBy(cut)
<1>1. /\ Promises(done, {}, tasks \cup StartedBy(tasks))
      /\ Continuation(cut, StartedBy(cut), DestroyAll(cut))
  BY DEF Cancel
<1>2. /\ tasks' = tasks \ cut
  BY <1>1 DEF Continuation
<1>3. /\ tasks \subseteq Tasks /\ cut \subseteq Tasks /\ NoTask \notin Tasks
      /\ \A t \in tasks : starter[t] = NoTask /\ t \in Insiders
  BY NurseryAssumption DEF NurseryAssumption, IInv, TypeOK, LifeOK, Insiders
<1>4. \A t \in done : st[t] = "suspended"
  BY <1>3, Synchronous
<1>5. done \subseteq Tasks /\ \A p \in StartedBy(cut) : starter[p] \in cut
  BY <1>3 DEF StartedBy
<1>6. \A p \in done : starter[p] \in Insiders => starter[p] \in done /\ starter[starter[p]] = NoTask
  BY <1>3, <1>5 DEF Insiders
<1>7. /\ {t \in done : t \in Insiders /\ starter[t] = NoTask} = cut
      /\ {p \in done : starter[p] \in Outsiders} = {}
  BY <1>3, <1>5, NurseryAssumption DEF NurseryAssumption, Insiders
<1>8. DeadFrames \cap cut = {}
  BY Zenon, <1>4 DEF DeadFrames
<1> HIDE DEF cut, done
<1>9. /\ ReadyTasks' = ReadyTasks \cup {}
      /\ DeadFrames' = DeadFrames \cup {t \in done : t \in Insiders /\ starter[t] = NoTask}
      /\ OwnersKept' /\ Lived' = Lived
      /\ LiveFrames' = LiveFrames \ {p \in done : starter[p] \in Outsiders}
  <2>1. tasks \ done \subseteq tasks' /\ done \cap {} = {} /\ {} \in SUBSET Tasks
    BY <1>2 DEF done
  <2> QED
    BY Zenon, <1>1, <1>4, <1>5, <1>6, <2>1, AfterPromises
<1>10. /\ DestroyAll(cut) \in Seq(Callbacks) /\ Serves(DestroyAll(cut), {}, cut, "none")
       /\ cut = {} => DestroyAll(cut) = <<>>
       /\ cut \in SUBSET tasks
  BY Zenon, <1>3, ServesOne DEF DestroyAll, cut
<1>11. ReadyTasks' = ReadyTasks /\ DeadFrames' = DeadFrames \cup cut /\ LiveFrames' = LiveFrames
  BY <1>7, <1>9
<1>12. QInv'
  BY <1>1, <1>8, <1>9, <1>10, <1>11, AfterContinuation
<1> QED
  BY <1>9, <1>11, <1>12

\* A task of the nursery terminates: its frame, and those its exception cut short, are
\* left to the executor, and then the parent if nobody is left.
LEMMA AfterMember ==
  ASSUME IInv, QInv, NEW t \in tasks, NEW cancels \in BOOLEAN, NEW err \in BOOLEAN,
         MemberEnds(t, cancels, err), st[t] \in {"running", "suspended"},
         st[t] = "suspended" => ~cancels, pst' = pst
  PROVE  QInv' /\ Quiet
<1> DEFINE fan == cancels /\ ~cancelling
           cut == IF fan THEN {u \in tasks : SyncCancelled(u)} ELSE {}
           told == IF fan THEN tasks \cup StartedBy(tasks) ELSE {}
           gone == cut \cup {t}
           done == cut \cup StartedBy(cut) \cup {t}
           d == DestroyAll(cut) \o <<Destroy({t})>>
<1>1. /\ Promises(done, {}, told) /\ Continuation(gone, StartedBy(cut), d)
      /\ error' = IF err THEN StoredError(t) ELSE error
  BY DEF MemberEnds
<1>2. tasks' = tasks \ gone
  BY <1>1 DEF Continuation
<1>3. /\ tasks \subseteq Tasks /\ cut \subseteq tasks /\ NoTask \notin Tasks
      /\ \A u \in tasks : starter[u] = NoTask /\ u \in Insiders
  BY NurseryAssumption DEF NurseryAssumption, IInv, TypeOK, LifeOK, Insiders
<1>4. \A u \in cut \cup StartedBy(cut) : st[u] = "suspended"
  <2>1. cut \in SUBSET Tasks /\ \A u \in cut : SyncCancelled(u)
    BY <1>3
  <2> HIDE DEF cut
  <2> QED
    BY <2>1, Synchronous
<1>5. \A u \in done : st[u] \in {"running", "suspended"}
  BY <1>4
<1>6. t \notin cut
  BY Zenon, <1>4
<1>7. done \subseteq Tasks /\ \A p \in StartedBy(cut) : starter[p] \in cut
  BY <1>3 DEF StartedBy
<1> HIDE DEF cut, told
<1>8. \A p \in done : starter[p] \in Insiders => starter[p] \in done /\ starter[starter[p]] = NoTask
  BY <1>3, <1>7 DEF Insiders
<1>9. /\ {u \in done : u \in Insiders /\ starter[u] = NoTask} = gone
      /\ {p \in done : starter[p] \in Outsiders} = {}
  BY <1>3, <1>7, NurseryAssumption DEF NurseryAssumption, Insiders
<1>10. DeadFrames \cap gone = {}
  BY <1>5 DEF DeadFrames
<1>11. d \in Seq(Callbacks) /\ Serves(d, {}, gone, "none")
  <2>1. /\ DestroyAll(cut) \in Seq(Callbacks) /\ Serves(DestroyAll(cut), {}, cut, "none")
        /\ <<Destroy({t})>> \in Seq(Callbacks) /\ Serves(<<Destroy({t})>>, {}, {t}, "none")
    BY Zenon, <1>3, ServesOne
  <2>2. cut \cap {t} = {} /\ {} \cup {} = {}
    BY <1>6
  <2>3. Serves(d, {} \cup {}, cut \cup {t}, IF "none" = "none" THEN "none" ELSE "none")
    BY Zenon, <2>1, <2>2, ServesBoth
  <2> QED
    BY <2>1, <2>3
<1> HIDE DEF done, d
<1>12. /\ ReadyTasks' = ReadyTasks \cup {}
       /\ DeadFrames' = DeadFrames \cup {u \in done : u \in Insiders /\ starter[u] = NoTask}
       /\ OwnersKept' /\ Lived' = Lived
       /\ LiveFrames' = LiveFrames \ {p \in done : starter[p] \in Outsiders}
  <2>1. tasks \ done \subseteq tasks' /\ done \cap {} = {} /\ {} \in SUBSET Tasks
    BY <1>2 DEF done
  <2> QED
    BY Zenon, <1>1, <1>5, <1>7, <1>8, <2>1, AfterPromises
<1>13. ReadyTasks' = ReadyTasks /\ DeadFrames' = DeadFrames \cup gone /\ LiveFrames' = LiveFrames
  BY <1>9, <1>12
<1>14. QInv'
  <2>1. gone \in SUBSET tasks /\ gone # {}
    BY <1>3
  <2> HIDE DEF gone
  <2> QED
    BY <1>1, <1>10, <1>11, <1>12, <1>13, <2>1, AfterContinuation
<1>15. pst = "awaiting"
  BY Inhabited
<1>16. Quiet
  BY <1>1, <1>12, <1>13, <1>15 DEF Quiet, StoredError
<1> QED
  BY <1>14, <1>16

\* A task that is still being started terminates.
LEMMA AfterPending ==
  ASSUME IInv, QInv, NEW p \in Pending, PendingEnds(p), st[p] \in {"running", "suspended"},
         pst' = pst
  PROVE  QInv' /\ Quiet
<1> DEFINE s == starter[p]
<1>1. /\ p \in Tasks /\ s \in Tasks /\ s \in tasks \cup Outsiders /\ st[s] = "suspended"
      /\ starter[p] # NoTask /\ NoTask \notin Tasks /\ NoTask \notin Outsiders
      /\ p \notin Outsiders /\ s # p
  BY NurseryAssumption DEF NurseryAssumption, IInv, TypeOK, LifeOK, PendingOK, Pending, StartedBy
<1>2. \A t \in tasks : starter[t] = NoTask /\ t \in Insiders
  BY NurseryAssumption DEF NurseryAssumption, IInv, TypeOK, LifeOK, Insiders
<1>3. hasParent /\ pst = "awaiting" /\ ParentCallback = "none" /\ error' = error
  BY Inhabited DEF PendingEnds
<1>4. s \in Insiders => s \in tasks /\ starter[s] = NoTask
  BY <1>1, <1>2 DEF Insiders
<1>5. queue \in Seq(Callbacks) /\ Serves(queue, ReadyTasks, DeadFrames, "none")
  BY <1>3 DEF IInv, TypeOK, QInv
<1> HIDE DEF s
<1>6. CASE /\ Promises({p}, {s}, {}) /\ queue' = Append(queue, Run(s))
           /\ UNCHANGED <<tasks, taskCount, open, hasParent>>
  <2>1. /\ ReadyTasks' = ReadyTasks \cup {s}
        /\ DeadFrames' = DeadFrames \cup {t \in {p} : t \in Insiders /\ starter[t] = NoTask}
        /\ OwnersKept' /\ Lived' = Lived
        /\ LiveFrames' = LiveFrames \ {t \in {p} : starter[t] \in Outsiders}
    <3>1. /\ {p} \in SUBSET Tasks /\ {s} \in SUBSET Tasks /\ {p} \cap {s} = {}
          /\ \A t \in {p} : st[t] \in {"running", "suspended"}
          /\ \A t \in {s} : st[t] = "suspended"
          /\ tasks \ {p} \subseteq tasks'
          /\ \A t \in {p} : starter[t] \in Insiders => starter[t] \in tasks' /\ starter[t] \in {s}
      BY Zenon, <1>1, <1>4, <1>6 DEF s
    <3> QED
      BY Zenon, <1>6, <3>1, AfterPromises
  <2>2. DeadFrames' = DeadFrames /\ LiveFrames' \subseteq LiveFrames
    BY <1>1, <2>1
  <2>3. Serves(queue', ReadyTasks', DeadFrames', "none")
    BY Zenon, <1>1, <1>5, <1>6, <2>1, <2>2, ServesRun
  <2>4. ParentCallback' = "none" /\ hasParent' = hasParent
    BY <1>3, <1>6 DEF ParentCallback
  <2> QED
    BY <1>3, <2>1, <2>2, <2>3, <2>4 DEF QInv, Quiet
<1>7. ASSUME Promises({s, p}, {}, {}), tasks \ {s, p} \subseteq tasks'
      PROVE  /\ ReadyTasks' = ReadyTasks /\ OwnersKept' /\ Lived' = Lived
             /\ DeadFrames' = DeadFrames \cup {t \in {s, p} : t \in Insiders /\ starter[t] = NoTask}
             /\ LiveFrames' \subseteq LiveFrames
  <2>1. /\ {s, p} \in SUBSET Tasks /\ {} \in SUBSET Tasks /\ {s, p} \cap {} = {}
        /\ \A t \in {s, p} : st[t] \in {"running", "suspended"}
        /\ \A t \in {} : st[t] = "suspended"
    BY <1>1
  <2>2. \A t \in {s, p} : starter[t] \in Insiders
                            => starter[t] \in {s, p} /\ starter[starter[t]] = NoTask
    <3>1. CASE s \in tasks
      BY <1>1, <1>2, <3>1 DEF s, Insiders
    <3>2. CASE s \in Outsiders
      <4>1. starter[s] = NoTask
        BY <1>1, <3>2 DEF IInv, LifeOK
      <4> QED
        BY <1>1, <3>2, <4>1 DEF s, Insiders
    <3> QED
      BY <1>1, <3>1, <3>2
  <2>3. /\ ReadyTasks' = ReadyTasks \cup {} /\ OwnersKept' /\ Lived' = Lived
        /\ DeadFrames' = DeadFrames \cup {t \in {s, p} : t \in Insiders /\ starter[t] = NoTask}
        /\ LiveFrames' = LiveFrames \ {t \in {s, p} : starter[t] \in Outsiders}
    BY Zenon, <1>7, <2>1, <2>2, AfterPromises
  <2> QED
    BY <2>3
<1>8. CASE s \in tasks /\ Promises({s, p}, {}, {}) /\ Continuation({s}, {p}, <<Destroy({s})>>)
  <2>1. tasks' = tasks \ {s}
    BY <1>8 DEF Continuation
  <2>2. /\ ReadyTasks' = ReadyTasks /\ OwnersKept' /\ Lived' = Lived
        /\ DeadFrames' = DeadFrames \cup {t \in {s, p} : t \in Insiders /\ starter[t] = NoTask}
        /\ LiveFrames' \subseteq LiveFrames
    BY <1>7, <1>8, <2>1
  <2>3. {t \in {s, p} : t \in Insiders /\ starter[t] = NoTask} = {s}
    BY <1>1, <1>2, <1>8
  <2>4. DeadFrames \cap {s} = {} /\ {s} \in SUBSET tasks /\ {s} # {}
    BY <1>1, <1>8 DEF DeadFrames
  <2>5. <<Destroy({s})>> \in Seq(Callbacks) /\ Serves(<<Destroy({s})>>, {}, {s}, "none")
    BY Zenon, <1>1, ServesOne
  <2>6. QInv'
    BY Zenon, <1>8, <2>2, <2>3, <2>4, <2>5, AfterContinuation
  <2> QED
    BY <1>3, <2>2, <2>6 DEF Quiet
<1>9. CASE /\ s \notin tasks /\ Promises({s, p}, {}, {})
           /\ UNCHANGED <<tasks, taskCount, open, hasParent, queue>>
  <2>1. /\ ReadyTasks' = ReadyTasks /\ OwnersKept' /\ Lived' = Lived
        /\ DeadFrames' = DeadFrames \cup {t \in {s, p} : t \in Insiders /\ starter[t] = NoTask}
        /\ LiveFrames' \subseteq LiveFrames
    BY <1>7, <1>9
  <2>2. DeadFrames' = DeadFrames
    BY <1>1, <1>9, <2>1 DEF Insiders
  <2>3. ParentCallback' = "none" /\ queue' = queue /\ hasParent' = hasParent
    BY <1>3, <1>9 DEF ParentCallback
  <2> QED
    BY Zenon, <1>3, <1>5, <2>1, <2>2, <2>3 DEF QInv, Quiet
<1> QED
  BY <1>6, <1>8, <1>9 DEF PendingEnds, s

\* A task that does not live in the nursery terminates.
LEMMA AfterOutsider ==
  ASSUME IInv, QInv, NEW o \in Outsiders, OutsiderEnds(o), st[o] \in {"running", "suspended"},
         pst' = pst
  PROVE  QInv' /\ Quiet
<1>1. /\ o \in Tasks /\ o \notin Insiders /\ starter[o] = NoTask /\ NoTask \notin Insiders
      /\ NoTask \notin Outsiders
  BY NurseryAssumption DEF NurseryAssumption, IInv, LifeOK, Insiders
<1>2. Promises({o}, {}, {}) /\ UNCHANGED <<nurseryVars, queue>>
  BY DEF OutsiderEnds
<1>3. /\ ReadyTasks' = ReadyTasks \cup {}
      /\ DeadFrames' = DeadFrames \cup {t \in {o} : t \in Insiders /\ starter[t] = NoTask}
      /\ OwnersKept' /\ Lived' = Lived
      /\ LiveFrames' = LiveFrames \ {t \in {o} : starter[t] \in Outsiders}
  <2>1. /\ {o} \in SUBSET Tasks /\ {} \in SUBSET Tasks /\ {o} \cap {} = {}
        /\ \A t \in {o} : st[t] \in {"running", "suspended"}
        /\ \A t \in {} : st[t] = "suspended"
        /\ tasks \ {o} \subseteq tasks'
        /\ \A t \in {o} : starter[t] \notin Insiders
    BY <1>1, <1>2 DEF nurseryVars
  <2> QED
    BY Zenon, <1>2, <2>1, AfterPromises
<1>4. ReadyTasks' = ReadyTasks /\ DeadFrames' = DeadFrames /\ LiveFrames' = LiveFrames
  BY <1>1, <1>3
<1>5. ParentCallback' = ParentCallback /\ hasParent' = hasParent /\ error' = error /\ queue' = queue
  BY <1>2 DEF nurseryVars, ParentCallback
<1> QED
  BY <1>3, <1>4, <1>5 DEF QInv, Quiet

\* A task terminates, wherever it lives.
LEMMA AfterEnds ==
  ASSUME IInv, QInv, NEW t \in Tasks, NEW cancels \in BOOLEAN, NEW err \in BOOLEAN,
         Ends(t, cancels, err), st[t] \in {"running", "suspended"},
         st[t] = "suspended" => ~cancels, pst' = pst
  PROVE  QInv' /\ Quiet
<1>1. starter[t] # NoTask => t \in Pending
  BY DEF Pending, StartedBy, IInv, TypeOK
<1> QED
  BY <1>1, AfterMember, AfterPending, AfterOutsider DEF Ends
=============================================================================
