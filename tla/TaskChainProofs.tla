-------------------------- MODULE TaskChainProofs ---------------------------
(***************************************************************************)
(* For chains of any length: the awaiter protocol is kept on every level,  *)
(* no request to cancel is lost but to a task whose awaiter throws after   *)
(* it was asked, and every result is heard.                                *)
(*                                                                         *)
(* The argument: once task 1 was asked to stop, every task of the chain    *)
(* knows, down to one that is deaf if there is one.  The innermost one has *)
(* its flag set, or will find the request when it is resumed; the others   *)
(* intercept what resumes them.  Nobody below a deaf task ends as          *)
(* cancelled; so a cancellation that starts anywhere ends all the tasks    *)
(* above, and a checker on the way is in one state only.                   *)
(***************************************************************************)
EXTENDS TaskChain, TLAPS

\* The levels that the request has reached.
Reached == {i \in Levels : asked /\ i < deaf}

\* If a task is deaf, it is one of the first n.
DeafIn(n) == deaf = Nobody \/ (asked /\ deaf \in 1..n)

\* Task t is suspended, and knows whether the chain was asked to stop.
Awaiting(t, cxl) ==
  /\ t.requested => cxl
  /\ t.onResume = IF cxl THEN "doResumeAfterCancel" ELSE "doResume"
  /\ t.checker.state = IF cxl THEN "Cancelling" ELSE "Running"

\* The innermost task t is in the queue, on the CPU, or suspended.
Innermost(t) ==
  \/ /\ t.state = "Ready" /\ queue = <<depth>> /\ running = 0
     /\ t.requested <=> depth \in Reached
     /\ t.checker = NewChecker \/ t.checker.state = "Ready"
  \/ /\ t.state = "Running" /\ queue = <<>> /\ running = depth
     /\ t.requested <=> depth \in Reached
     /\ t.checker = NewChecker \/ t.checker.state = "Done"
  \/ t.state = "Leaf" /\ queue = <<>> /\ running = 0 /\ Awaiting(t, depth \in Reached)

\* The inductive invariant.
IInv ==
  /\ TypeOK /\ CheckersSilent
  /\ \A i \in 1..(depth - 1) : task[i].state = "Task" /\ Awaiting(task[i], i \in Reached)
  /\ depth > 0 => Innermost(task[depth])
  /\ depth = 0 => queue = <<>> /\ running = 0
  /\ DeafIn(depth)
-----------------------------------------------------------------------------
(***************************************************************************)
(* What the calls that promises make do to a checker.                      *)
(***************************************************************************)
LEMMA CheckerResets ==
  /\ NewChecker \in Checkers /\ NewChecker.state = "Initial"
  /\ \A c : c.state \in {"Cancelled", "Done", "Initial"} => reset(c) = NewChecker
BY DEF NewChecker, Checkers, CheckerStates, reset

LEMMA CheckerReady ==
  LET c == aboutToResume(readyReturned(NewChecker, TRUE))
  IN c \in Checkers /\ c.state = "Done"
BY Zenon DEF NewChecker, Checkers, CheckerStates, Moved, aboutToResume, readyReturned

\* After await_ready(), with or without await_early_cancel() before.
LEMMA CheckerPrepared ==
  /\ aboutToSetExecutor(readyReturned(NewChecker, FALSE))
       = [state |-> "NotReady", hasExecutor |-> TRUE]
  /\ aboutToSetExecutor(readyReturned(earlyCancelReturned(NewChecker, FALSE), FALSE))
       = [state |-> "CancelPending", hasExecutor |-> TRUE]
BY Zenon DEF NewChecker, Moved, aboutToSetExecutor, readyReturned, earlyCancelReturned

LEMMA CheckerSuspends ==
  ASSUME NEW c, NEW requested \in BOOLEAN,
         c = [state |-> IF requested THEN "CancelPending" ELSE "NotReady", hasExecutor |-> TRUE]
  PROVE  /\ aboutToSuspend(c) \in Checkers
         /\ aboutToSuspend(c).state = IF requested THEN "Cancelling" ELSE "Running"
         /\ suspendThrew(aboutToSuspend(c)) \in Checkers
         /\ suspendThrew(aboutToSuspend(c)).state = "Done"
BY Zenon DEF Checkers, CheckerStates, Moved, aboutToSuspend, suspendThrew

LEMMA CheckerThrows ==
  LET c == suspendThrew(aboutToCancel(aboutToSuspend([state |-> "NotReady", hasExecutor |-> TRUE])))
  IN c \in Checkers /\ c.state = "Done"
BY Zenon DEF Checkers, CheckerStates, Moved, aboutToSuspend, aboutToCancel, suspendThrew

LEMMA CheckerSkips ==
  /\ earlyCancelReturned(NewChecker, TRUE) \in Checkers
  /\ earlyCancelReturned(NewChecker, TRUE).state = "Cancelled"
  /\ readyReturned(earlyCancelReturned(NewChecker, FALSE), TRUE) \in Checkers
  /\ readyReturned(earlyCancelReturned(NewChecker, FALSE), TRUE).state = "ReadyAfterCancel"
BY Zenon DEF NewChecker, Checkers, CheckerStates, Moved, readyReturned, earlyCancelReturned

LEMMA CheckerResumes ==
  ASSUME NEW c \in Checkers
  PROVE  /\ c.state = "Running" => resumed(c) \in Checkers /\ resumed(c).state = "Ready"
         /\ c.state = "Cancelling" =>
              /\ resumed(c) \in Checkers /\ resumed(c).state = "ReadyAfterCancel"
BY DEF Checkers, CheckerStates, Moved, resumed

LEMMA CheckerDecides ==
  ASSUME NEW c \in Checkers, c.state = "ReadyAfterCancel"
  PROVE  /\ mustResumeReturned(c, TRUE) \in Checkers /\ mustResumeReturned(c, TRUE).state = "Ready"
         /\ mustResumeReturned(c, FALSE) \in Checkers
         /\ mustResumeReturned(c, FALSE).state = "Cancelled"
BY DEF Checkers, CheckerStates, Moved, mustResumeReturned

LEMMA CheckerCancels ==
  ASSUME NEW c \in Checkers
  PROVE  /\ c.state = "Running" => aboutToCancel(c) \in Checkers /\ aboutToCancel(c).state = "Cancelling"
         /\ c.state = "Cancelling" =>
              cancelReturned(c, TRUE) \in Checkers /\ cancelReturned(c, TRUE).state = "Cancelled"
         /\ c.state = "Ready" => aboutToResume(c) \in Checkers /\ aboutToResume(c).state = "Done"
BY DEF Checkers, CheckerStates, Moved, aboutToCancel, cancelReturned, aboutToResume
-----------------------------------------------------------------------------
(***************************************************************************)
(* What the operators on the chain do to one task of it.                   *)
(***************************************************************************)
States == {"Ready", "Running", "Task", "Leaf"}
Trampolines == {"doResume", "doResumeAfterCancel", "doNothing"}
Results == {"none", "value", "error", "cancelled"}

Promises ==
  [state: States, requested: BOOLEAN, onResume: Trampolines, checker: Checkers, result: Results]

Chains == [Levels -> Promises]

\* The promise r has these fields.
Has(r, s, q, o, c, e) ==
  /\ r \in Promises
  /\ r.state = s /\ r.requested = q /\ r.onResume = o /\ r.checker = c /\ r.result = e

\* The chains f and g differ at level i only.
Only(f, g, i) == f \in Chains /\ \A j \in Levels \ {i} : f[j] = g[j]

LEMMA OneChanges ==
  ASSUME NEW g \in Chains, NEW i \in Levels, NEW r, NEW s, NEW q, NEW o, NEW c, NEW e,
         Has(r, s, q, o, c, e), NEW f, f = [g EXCEPT ![i] = r]
  PROVE  Only(f, g, i) /\ Has(f[i], s, q, o, c, e)
BY DEF Only, Chains, Has

LEMMA ToldDoes ==
  ASSUME NEW g \in Chains, NEW i \in Levels, NEW c \in Checkers
  PROVE  LET f == [g EXCEPT ![i].checker = c]
         IN /\ Only(f, g, i)
            /\ Has(f[i], g[i].state, g[i].requested, g[i].onResume, c, g[i].result)
<1> DEFINE p == g[i]
           r == [p EXCEPT !.checker = c]
           f == [g EXCEPT ![i].checker = c]
<1>1. p \in Promises /\ f = [g EXCEPT ![i] = r]
  BY DEF Chains
<1> HIDE DEF p, f
<1>2. Has(r, p.state, p.requested, p.onResume, c, p.result)
  BY <1>1 DEF Has, Promises
<1> HIDE DEF r
<1>3. Only(f, g, i) /\ Has(f[i], p.state, p.requested, p.onResume, c, p.result)
  BY <1>1, <1>2, OneChanges
<1>4. QED
  BY Zenon, <1>3 DEF f, p

LEMMA doResumeDoes ==
  ASSUME NEW g \in Chains, NEW i \in Levels
  PROVE  LET f == doResume(g, i)
         IN /\ Only(f, g, i)
            /\ Has(f[i], "Ready", g[i].requested, "doNothing", g[i].checker, g[i].result)
<1> DEFINE p == g[i]
           r == [p EXCEPT !.state = "Ready", !.onResume = "doNothing"]
<1>1. p \in Promises /\ doResume(g, i) = [g EXCEPT ![i] = r]
  BY Zenon DEF Chains, doResume
<1> HIDE DEF p
<1>2. Has(r, "Ready", p.requested, "doNothing", p.checker, p.result)
  BY Zenon, <1>1 DEF Has, Promises, States, Trampolines
<1> HIDE DEF r
<1>3. QED
  BY Zenon, <1>1, <1>2, OneChanges DEF p

LEMMA ResumeAnywayDoes ==
  ASSUME NEW g \in Chains, NEW i \in Levels, g[i].checker.state = "ReadyAfterCancel"
  PROVE  LET f == ResumeAnyway(g, i)
         IN /\ Only(f, g, i) /\ f[i].state = "Ready" /\ f[i].requested = TRUE
            /\ f[i].checker.state = "Ready" /\ f[i].result = g[i].result
<1> DEFINE p == g[i]
           c == mustResumeReturned(p.checker, TRUE)
           r == [p EXCEPT !.checker = c, !.requested = TRUE]
           h == [g EXCEPT ![i].checker = mustResumeReturned(@, TRUE), ![i].requested = TRUE]
<1>1. p \in Promises /\ h = [g EXCEPT ![i] = r]
  BY Zenon DEF Chains
<1> HIDE DEF p
<1>2. p.checker \in Checkers /\ p.checker.state = "ReadyAfterCancel"
  BY <1>1 DEF Promises, p
<1>3. c \in Checkers /\ c.state = "Ready"
  BY Zenon, <1>2, CheckerDecides
<1> HIDE DEF c, h
<1>4. Has(r, p.state, TRUE, p.onResume, c, p.result)
  BY Zenon, <1>1, <1>3 DEF Has, Promises
<1> HIDE DEF r
<1>5. Only(h, g, i) /\ Has(h[i], p.state, TRUE, p.onResume, c, p.result)
  BY Zenon, <1>1, <1>4, OneChanges
<1>6. h[i].requested = TRUE /\ h[i].checker = c /\ h[i].result = p.result /\ h \in Chains
  BY <1>5 DEF Has, Only
<1>7. Only(doResume(h, i), h, i) /\ Has(doResume(h, i)[i], "Ready", TRUE, "doNothing", c, p.result)
  BY Zenon, <1>6, doResumeDoes
<1>8. Only(doResume(h, i), g, i)
  BY <1>5, <1>7 DEF Only
<1>9. QED
  BY <1>3, <1>7, <1>8 DEF ResumeAnyway, Has, h, p

LEMMA PreparedDoes ==
  ASSUME NEW g \in Chains, NEW i \in Levels, NEW requested \in BOOLEAN, g[i].checker = NewChecker
  PROVE  LET f == Prepared(g, i, requested)
         IN /\ Only(f, g, i)
            /\ Has(f[i], g[i].state, g[i].requested,
                   IF requested THEN "doResumeAfterCancel" ELSE "doResume",
                   [state |-> IF requested THEN "CancelPending" ELSE "NotReady",
                    hasExecutor |-> TRUE], g[i].result)
<1> DEFINE p == g[i]
           c == aboutToSetExecutor(
                  readyReturned(IF requested THEN earlyCancelReturned(p.checker, FALSE)
                                ELSE p.checker, FALSE))
           d == [state |-> IF requested THEN "CancelPending" ELSE "NotReady", hasExecutor |-> TRUE]
           o == IF requested THEN "doResumeAfterCancel" ELSE "doResume"
           r == [p EXCEPT !.onResume = o, !.checker = c]
<1>1. p \in Promises /\ Prepared(g, i, requested) = [g EXCEPT ![i] = r]
  BY Zenon DEF Chains, Prepared
<1>2. c = d
  <2>1. CASE requested
    BY Zenon, <2>1, CheckerPrepared
  <2>2. CASE ~requested
    BY Zenon, <2>2, CheckerPrepared
  <2>3. QED
    BY Zenon, <2>1, <2>2
<1>3. d \in Checkers /\ o \in Trampolines
  <2>1. CASE requested
    BY <2>1 DEF Checkers, CheckerStates, Trampolines
  <2>2. CASE ~requested
    BY <2>2 DEF Checkers, CheckerStates, Trampolines
  <2>3. QED
    BY <2>1, <2>2
<1> HIDE DEF p, c, d, o
<1>4. Has(r, p.state, p.requested, o, d, p.result)
  BY Zenon, <1>1, <1>2, <1>3 DEF Has, Promises
<1> HIDE DEF r
<1>5. /\ Only(Prepared(g, i, requested), g, i)
      /\ Has(Prepared(g, i, requested)[i], p.state, p.requested, o, d, p.result)
  BY Zenon, <1>1, <1>4, OneChanges
<1>6. QED
  BY <1>5 DEF o, d, p

\* Task i is suspended on an awaiter.
Suspended(g, i, s) == [g EXCEPT ![i].state = s, ![i].checker = aboutToSuspend(@)]

LEMMA SuspendedDoes ==
  ASSUME NEW g \in Chains, NEW i \in Levels, NEW requested \in BOOLEAN, NEW s \in {"Task", "Leaf"},
         g[i].checker
           = [state |-> IF requested THEN "CancelPending" ELSE "NotReady", hasExecutor |-> TRUE]
  PROVE  LET f == Suspended(g, i, s)
         IN /\ Only(f, g, i) /\ f[i].state = s /\ f[i].onResume = g[i].onResume
            /\ f[i].checker.state = (IF requested THEN "Cancelling" ELSE "Running")
            /\ f[i].result = g[i].result /\ f[i].requested = g[i].requested
<1> DEFINE p == g[i]
           c == aboutToSuspend(p.checker)
           r == [p EXCEPT !.state = s, !.checker = c]
           f == Suspended(g, i, s)
<1>1. p \in Promises /\ f = [g EXCEPT ![i] = r]
  BY Zenon DEF Chains, Suspended
<1>2. c \in Checkers /\ c.state = IF requested THEN "Cancelling" ELSE "Running"
  BY CheckerSuspends
<1> HIDE DEF p, c, f
<1>3. Has(r, s, p.requested, p.onResume, c, p.result)
  BY Zenon, <1>1, <1>2 DEF Has, Promises, States
<1> HIDE DEF r
<1>4. Only(f, g, i) /\ Has(f[i], s, p.requested, p.onResume, c, p.result)
  BY Zenon, <1>1, <1>3, OneChanges
<1>5. QED
  BY <1>2, <1>4 DEF Has, f, p

LEMMA ThrewDoes ==
  ASSUME NEW g \in Chains, NEW i \in Levels, NEW requested \in BOOLEAN,
         g[i].checker
           = [state |-> IF requested THEN "CancelPending" ELSE "NotReady", hasExecutor |-> TRUE]
  PROVE  LET f == Threw(g, i, requested)
         IN /\ Only(f, g, i) /\ f[i].state = g[i].state /\ f[i].requested = requested
            /\ f[i].checker.state = "Done" /\ f[i].result = g[i].result
<1> DEFINE p == g[i]
           c == suspendThrew(aboutToSuspend(p.checker))
           r == [p EXCEPT !.checker = c, !.requested = requested]
           f == Threw(g, i, requested)
<1>1. p \in Promises /\ f = [g EXCEPT ![i] = r]
  BY Zenon DEF Chains, Threw
<1>2. c \in Checkers /\ c.state = "Done"
  BY CheckerSuspends
<1> HIDE DEF p, c, f
<1>3. Has(r, p.state, requested, p.onResume, c, p.result)
  BY Zenon, <1>1, <1>2 DEF Has, Promises
<1> HIDE DEF r
<1>4. Only(f, g, i) /\ Has(f[i], p.state, requested, p.onResume, c, p.result)
  BY Zenon, <1>1, <1>3, OneChanges
<1>5. QED
  BY <1>2, <1>4 DEF Has, f, p

\* The running task lets go of the awaiter it used last.
LEMMA FreshDoes ==
  ASSUME task \in Chains, NEW i \in Levels,
         task[i].checker = NewChecker \/ task[i].checker.state = "Done"
  PROVE  /\ Only(Fresh(i), task, i)
         /\ Has(Fresh(i)[i], task[i].state, FALSE, task[i].onResume, NewChecker, task[i].result)
<1> DEFINE p == task[i]
           r == [p EXCEPT !.checker = reset(@), !.requested = FALSE]
<1>1. p \in Promises /\ Fresh(i) = [task EXCEPT ![i] = r]
  BY Zenon DEF Fresh, Chains
<1>2. reset(p.checker) = NewChecker /\ NewChecker \in Checkers
  BY CheckerResets
<1> HIDE DEF p
<1>3. Has(r, p.state, FALSE, p.onResume, NewChecker, p.result)
  BY Zenon, <1>1, <1>2 DEF Has, Promises
<1> HIDE DEF r
<1>4. QED
  BY Zenon, <1>1, <1>3, OneChanges DEF p

\* A task whose child has ended, or whose awaiter is done, is resumed.
LEMMA ContinueDoes ==
  ASSUME NEW g \in Chains, NEW i \in Levels, NEW cxl \in BOOLEAN,
         g[i].onResume = IF cxl THEN "doResumeAfterCancel" ELSE "doResume",
         g[i].checker.state = IF cxl THEN "Cancelling" ELSE "Running"
  PROVE  LET f == Continue(g, i)
         IN /\ Only(f, g, i) /\ f[i].state = "Ready"
            /\ f[i].requested = IF cxl THEN TRUE ELSE g[i].requested
            /\ f[i].checker.state = "Ready" /\ f[i].result = g[i].result
<1> DEFINE c == resumed(g[i].checker)
           h == [g EXCEPT ![i].checker = c]
<1>1. g[i].checker \in Checkers
  BY DEF Chains, Promises
<1>2. c \in Checkers /\ c.state = IF cxl THEN "ReadyAfterCancel" ELSE "Ready"
  BY <1>1, CheckerResumes
<1>3. [g EXCEPT ![i].checker = resumed(@)] = h
  BY DEF Chains, Promises
<1> HIDE DEF c
<1>4. Only(h, g, i) /\ Has(h[i], g[i].state, g[i].requested, g[i].onResume, c, g[i].result)
  BY <1>2, ToldDoes
<1> HIDE DEF h
<1>5. /\ h \in Chains /\ h[i].requested = g[i].requested /\ h[i].checker = c
      /\ h[i].result = g[i].result /\ \A j \in Levels \ {i} : h[j] = g[j]
  BY <1>4 DEF Only, Has
<1>6. CASE cxl
  <2>1. Continue(g, i) = ResumeAnyway(h, i)
    BY Zenon, <1>3, <1>6 DEF Continue
  <2>2. h[i].checker.state = "ReadyAfterCancel"
    BY <1>2, <1>5, <1>6
  <2>3. LET f == ResumeAnyway(h, i)
        IN /\ Only(f, h, i) /\ f[i].state = "Ready" /\ f[i].requested = TRUE
           /\ f[i].checker.state = "Ready" /\ f[i].result = h[i].result
    BY Zenon, <1>5, <2>2, ResumeAnywayDoes
  <2>4. QED
    BY Zenon, <1>5, <1>6, <2>1, <2>3 DEF Only
<1>7. CASE ~cxl
  <2>1. Continue(g, i) = doResume(h, i)
    BY Zenon, <1>3, <1>7 DEF Continue
  <2>2. LET f == doResume(h, i)
        IN /\ Only(f, h, i)
           /\ Has(f[i], "Ready", h[i].requested, "doNothing", h[i].checker, h[i].result)
    BY <1>5, doResumeDoes
  <2>3. QED
    BY <1>2, <1>5, <1>7, <2>1, <2>2 DEF Only, Has
<1>8. QED
  BY Zenon, <1>6, <1>7

\* A cancellation that starts from task i ends all the tasks above it.
LEMMA EndsAll ==
  ASSUME NEW f \in Chains, NEW i \in Levels, propagateCancel(f, i),
         f[i].checker.state = "Cancelled",
         \A j \in 1..(i - 1) : /\ f[j].onResume = "doResumeAfterCancel"
                               /\ f[j].checker.state = "Cancelling",
         \A j \in Levels : f[j].checker.state # "Bad"
  PROVE  /\ depth' = 0 /\ queue' = queue /\ task' \in Chains
         /\ \A j \in Levels : task'[j].checker.state # "Bad"
         /\ task'[i].result = "cancelled"
<1>1. StopsAt(f, i) = 0
  <2>1. {j \in 0..(i - 1) : j = 0 \/ f[j].onResume # "doResumeAfterCancel" \/ mustResume("cancelled")}
          = {0}
    BY DEF mustResume, Levels
  <2>2. Max({0}) = 0
    BY DEF Max
  <2>3. QED
    BY <2>1, <2>2 DEF StopsAt
<1> DEFINE e(k) == [f[k] EXCEPT !.result = "cancelled",
                      !.checker = reset(IF k = i THEN @ ELSE mustResumeReturned(resumed(@), FALSE))]
<1>2. task' = [k \in Levels |-> IF k \in 1..i THEN e(k) ELSE f[k]]
  <2>1. Cancelled(f, i) = [k \in Levels |-> IF k \in (0 + 1)..i THEN e(k) ELSE f[k]]
    BY Zenon, <1>1 DEF Cancelled
  <2>2. 0 + 1 = 1
    OBVIOUS
  <2> HIDE DEF e
  <2>3. QED
    BY Zenon, <2>1, <2>2 DEF propagateCancel
<1>3. depth' = 0 /\ queue' = queue
  BY <1>1 DEF propagateCancel
<1>4. ASSUME NEW k \in 1..i
      PROVE  /\ k \in Levels /\ e(k) \in Promises /\ e(k).checker.state # "Bad"
             /\ e(k).result = "cancelled"
  <2> DEFINE p == f[k]
             c == reset(IF k = i THEN p.checker ELSE mustResumeReturned(resumed(p.checker), FALSE))
             r == [p EXCEPT !.result = "cancelled", !.checker = c]
  <2>1. k \in Levels /\ p \in Promises
    BY MaxDepthAssumption DEF Chains, Levels
  <2>2. p.checker \in Checkers
    BY <2>1 DEF Promises
  <2>3. c = NewChecker
    <3>1. CASE k = i
      BY <3>1, CheckerResets
    <3>2. CASE k # i
      <4>1. p.checker.state = "Cancelling"
        BY <3>2 DEF Levels
      <4>2. resumed(p.checker) \in Checkers /\ resumed(p.checker).state = "ReadyAfterCancel"
        BY <2>2, <4>1, CheckerResumes
      <4>3. mustResumeReturned(resumed(p.checker), FALSE).state = "Cancelled"
        BY Zenon, <4>2, CheckerDecides
      <4>4. reset(mustResumeReturned(resumed(p.checker), FALSE)) = NewChecker
        BY Zenon, <4>3 DEF reset
      <4>5. QED
        BY Zenon, <3>2, <4>4
    <3>3. QED
      BY Zenon, <3>1, <3>2
  <2>4. e(k) = r
    OBVIOUS
  <2>5. NewChecker \in Checkers /\ NewChecker.state # "Bad"
    BY CheckerResets
  <2> HIDE DEF p, c
  <2>6. r \in Promises /\ r.checker = NewChecker /\ r.result = "cancelled"
    BY Zenon, <2>1, <2>3, <2>5 DEF Promises, Results
  <2> HIDE DEF r, e
  <2>7. QED
    BY <2>1, <2>4, <2>5, <2>6
<1> HIDE DEF e
<1>5. i \in 1..i
  BY MaxDepthAssumption DEF Levels
<1>6. QED
  BY <1>2, <1>3, <1>4, <1>5 DEF Chains
-----------------------------------------------------------------------------
(***************************************************************************)
(* The steps.                                                              *)
(***************************************************************************)
\* What the invariant says of the innermost task.
LEMMA Innards ==
  ASSUME IInv
  PROVE  /\ task \in Chains /\ leaf \in Aborts /\ asked \in BOOLEAN /\ depth \in 0..MaxDepth
         /\ depth > 0 => depth \in Levels
         /\ running > 0 => running = depth
         /\ running \in Nat /\ DeafIn(depth)
BY MaxDepthAssumption DEF IInv, TypeOK, Chains, Promises, States, Trampolines, Results, Levels,
     Innermost

LEMMA Runner ==
  ASSUME IInv, NEW i \in Levels, running = i
  PROVE  /\ depth = i /\ queue = <<>> /\ task \in Chains /\ leaf \in Aborts /\ asked \in BOOLEAN
         /\ task[i].state = "Running" /\ (task[i].requested <=> i \in Reached) /\ DeafIn(i)
         /\ task[i].checker = NewChecker \/ task[i].checker.state = "Done"
<1>1. i > 0 /\ depth = i
  BY Innards DEF Levels
<1>2. Innermost(task[i])
  BY <1>1 DEF IInv
<1>3. QED
  BY <1>1, <1>2, Innards DEF Innermost

\* The tasks of the chain g above the i-th one await each other, and those in K know.
Above(g, i, K) ==
  /\ g \in Chains /\ i \in Levels
  /\ \A j \in Levels : g[j].checker.state # "Bad"
  /\ \A j \in 1..(i - 1) : j \in Levels \ {i} /\ g[j].state = "Task" /\ Awaiting(g[j], j \in K)

LEMMA ReachedAll ==
  ASSUME asked, deaf = Nobody
  PROVE  Reached = Levels
BY MaxDepthAssumption DEF Reached, Nobody, Levels

\* If the request has reached the innermost task, it has reached all.
LEMMA NoneDeaf ==
  ASSUME NEW i \in Levels, DeafIn(i), i \in Reached
  PROVE  asked /\ deaf = Nobody /\ Reached = Levels
<1>1. asked /\ i < deaf /\ i \in Nat
  BY DEF Reached, Levels
<1>2. deaf = Nobody
  BY <1>1 DEF DeafIn
<1>3. QED
  BY <1>1, <1>2, ReachedAll

LEMMA AboveNow ==
  ASSUME IInv, depth > 0
  PROVE  /\ Above(task, depth, Reached)
         /\ depth \in Reached => asked /\ deaf = Nobody /\ Above(task, depth, Levels)
<1>1. task \in Chains /\ depth \in Levels /\ DeafIn(depth)
  BY Innards
<1>2. \A j \in 1..(depth - 1) : j \in Levels \ {depth}
  BY <1>1, MaxDepthAssumption DEF Levels
<1>3. Above(task, depth, Reached)
  BY <1>1, <1>2 DEF IInv, CheckersSilent, Above
<1>4. ASSUME depth \in Reached
      PROVE  asked /\ deaf = Nobody /\ Above(task, depth, Levels)
  <2>1. asked /\ deaf = Nobody /\ Reached = Levels
    BY Zenon, <1>1, <1>4, NoneDeaf
  <2>2. QED
    BY Zenon, <1>3, <2>1
<1>5. QED
  BY Zenon, <1>3, <1>4

\* Only the innermost task of the chain g changes.
LEMMA InnerStepFrom ==
  ASSUME NEW g, Above(g, depth', Reached'), asked' \in BOOLEAN, DeafIn(depth)', leaf' \in Aborts,
         Only(task', g, depth'), task'[depth'].checker.state # "Bad", Innermost(task[depth])'
  PROVE  IInv'
<1> DEFINE i == depth'
<1>1. /\ task' \in Chains /\ i \in Levels
      /\ \A j \in Levels \ {i} : task'[j] = g[j]
      /\ \A j \in Levels : g[j].checker.state # "Bad"
      /\ \A j \in 1..(i - 1) : /\ j \in Levels \ {i} /\ g[j].state = "Task"
                               /\ Awaiting(g[j], j \in Reached')
  BY DEF Only, Above
<1>2. running' \in {0, i} /\ (queue' = <<>> \/ queue' = <<i>>)
  BY DEF Innermost
<1> HIDE DEF i
<1>3. i \in 0..MaxDepth /\ 0 \in 0..MaxDepth /\ i # 0 /\ i \in Nat
  BY <1>1, MaxDepthAssumption DEF Levels
<1>4. queue' \in Seq(Levels) /\ running' \in 0..MaxDepth
  <2>1. <<>> \in Seq(Levels) /\ <<i>> \in Seq(Levels)
    BY <1>1
  <2>2. QED
    BY Zenon, <1>2, <1>3, <2>1
<1>5. deaf' \in 1..Nobody
  BY <1>3, MaxDepthAssumption DEF DeafIn, Nobody, i
<1>6. TypeOK'
  BY <1>1, <1>3, <1>4, <1>5 DEF TypeOK, Chains, Promises, States, Trampolines, Results, i
<1>7. CheckersSilent'
  BY <1>1 DEF CheckersSilent, i
<1>8. \A j \in 1..(i - 1) : task'[j].state = "Task" /\ Awaiting(task'[j], j \in Reached')
  BY <1>1
<1>9. QED
  BY Zenon, <1>3, <1>6, <1>7, <1>8 DEF IInv, i

\* Only the innermost task changes.
LEMMA InnerStep ==
  ASSUME IInv, depth > 0, depth' = depth, asked' = asked, deaf' = deaf, leaf' \in Aborts,
         Only(task', task, depth), task'[depth].checker.state # "Bad", Innermost(task[depth])'
  PROVE  IInv'
<1>1. Reached' = Reached /\ DeafIn(depth)' /\ asked' \in BOOLEAN
  BY Innards DEF Reached, DeafIn
<1>2. Above(task, depth', Reached')
  BY <1>1, AboveNow
<1>3. QED
  BY <1>1, <1>2, InnerStepFrom

\* The chain is at an end.
LEMMA LastStep ==
  ASSUME depth' = 0, queue' = <<>>, running' = 0, asked' \in BOOLEAN, deaf' = Nobody,
         leaf' \in Aborts, task' \in Chains, \A j \in Levels : task'[j].checker.state # "Bad"
  PROVE  IInv'
<1>1. deaf' \in 1..Nobody /\ DeafIn(depth)'
  BY MaxDepthAssumption DEF Nobody, DeafIn
<1>2. TypeOK'
  BY <1>1, MaxDepthAssumption DEF TypeOK, Chains, Promises, States, Trampolines, Results
<1>3. QED
  BY <1>1, <1>2 DEF IInv, CheckersSilent

\* The executor resumes the innermost task.
LEMMA StepRun ==
  ASSUME IInv, Run
  PROVE  IInv'
<1> DEFINE i == depth
           p == task[i]
           c == IF p.checker = NewChecker THEN p.checker ELSE aboutToResume(p.checker)
           r == [p EXCEPT !.state = "Running", !.checker = c]
<1>1. /\ running = 0 /\ queue # <<>> /\ leaf' = leaf /\ depth' = depth /\ asked' = asked
      /\ deaf' = deaf /\ Reached' = Reached /\ running' = Head(queue) /\ queue' = Tail(queue)
  BY DEF Run, Reached
<1>2. /\ depth > 0 /\ p.state = "Ready" /\ queue = <<i>> /\ (p.requested <=> i \in Reached)
      /\ p.checker = NewChecker \/ p.checker.state = "Ready"
  BY <1>1, Innards DEF IInv, Innermost
<1>3. i \in Levels /\ task \in Chains /\ p \in Promises /\ leaf' \in Aborts
  BY <1>1, <1>2, Innards DEF Chains
<1>4. Head(queue) = i /\ Tail(queue) = <<>>
  BY <1>2
<1>5. task' = [task EXCEPT ![i] = r]
  BY Zenon, <1>3, <1>4 DEF Run, Chains
<1>6. c \in Checkers /\ (c = NewChecker \/ c.state = "Done")
  <2>1. CASE p.checker = NewChecker
    BY <2>1, CheckerResets
  <2>2. CASE p.checker # NewChecker
    <3>1. p.checker \in Checkers /\ p.checker.state = "Ready"
      BY <1>2, <1>3, <2>2 DEF Promises
    <3>2. QED
      BY Zenon, <2>2, <3>1, CheckerCancels
  <2>3. QED
    BY <2>1, <2>2
<1> HIDE DEF p, c
<1>7. Has(r, "Running", p.requested, p.onResume, c, p.result)
  BY Zenon, <1>3, <1>6 DEF Has, Promises, States
<1> HIDE DEF r
<1>8. Only(task', task, i) /\ Has(task'[i], "Running", p.requested, p.onResume, c, p.result)
  BY Zenon, <1>3, <1>5, <1>7, OneChanges
<1>9. c.state # "Bad"
  BY <1>6, CheckerResets
<1>10. /\ task'[i].checker.state # "Bad" /\ Innermost(task[depth])'
  BY <1>1, <1>2, <1>4, <1>6, <1>8, <1>9 DEF Innermost, Has
<1>11. QED
  BY <1>1, <1>2, <1>3, <1>8, <1>10, InnerStep

\* co_await of a Task.
LEMMA StepAwaitTask ==
  ASSUME IInv, NEW i \in Levels, AwaitTask(i)
  PROVE  IInv' /\ task'[i].result = task[i].result
<1> DEFINE q == task[i].requested
           f == Fresh(i)
           g == Prepared(f, i, q)
           h == Suspended(g, i, "Task")
           j == i + 1
<1>1. /\ running = i /\ i < MaxDepth /\ depth' = j /\ queue' = Append(queue, j)
      /\ running' = 0 /\ leaf' = leaf /\ asked' = asked /\ deaf' = deaf
      /\ Reached' = Reached /\ task' = [h EXCEPT ![j] = Promise(q)]
  BY DEF AwaitTask, Suspended, Reached
<1>2. /\ depth = i /\ queue = <<>> /\ task \in Chains /\ leaf \in Aborts /\ asked \in BOOLEAN
      /\ task[i].state = "Running" /\ (q <=> i \in Reached) /\ q \in BOOLEAN /\ DeafIn(i)
      /\ task[i].checker = NewChecker \/ task[i].checker.state = "Done"
  <2>1. q \in BOOLEAN
    BY Innards DEF Chains, Promises
  <2>2. QED
    BY <1>1, <2>1, Runner
<1>3. j \in Levels /\ j # i /\ j > 0 /\ \A k \in 1..(j - 1) : k \in Levels /\ k # j /\ (k = i \/ k \in 1..(i - 1))
  BY <1>1, MaxDepthAssumption DEF Levels
<1>4. /\ Only(f, task, i)
      /\ Has(f[i], task[i].state, FALSE, task[i].onResume, NewChecker, task[i].result)
  BY Zenon, <1>2, FreshDoes
<1> HIDE DEF f, q, j
<1>5. f \in Chains /\ f[i].checker = NewChecker /\ f[i].requested = FALSE
  BY <1>4 DEF Only, Has
<1>6. /\ Only(g, f, i)
      /\ Has(g[i], f[i].state, f[i].requested, IF q THEN "doResumeAfterCancel" ELSE "doResume",
             [state |-> IF q THEN "CancelPending" ELSE "NotReady", hasExecutor |-> TRUE], f[i].result)
  BY <1>2, <1>5, PreparedDoes
<1> HIDE DEF g
<1>7. /\ g \in Chains /\ g[i].requested = FALSE
      /\ g[i].onResume = (IF q THEN "doResumeAfterCancel" ELSE "doResume")
      /\ g[i].checker = [state |-> IF q THEN "CancelPending" ELSE "NotReady", hasExecutor |-> TRUE]
  BY <1>5, <1>6 DEF Only, Has
<1>8. /\ Only(h, g, i) /\ h[i].state = "Task" /\ h[i].onResume = g[i].onResume
      /\ h[i].checker.state = (IF q THEN "Cancelling" ELSE "Running")
      /\ h[i].requested = FALSE /\ h[i].result = g[i].result
  <2>1. "Task" \in {"Task", "Leaf"}
    OBVIOUS
  <2>2. QED
    BY <1>2, <1>7, <2>1, SuspendedDoes
<1> HIDE DEF h
<1>9. /\ h \in Chains /\ \A k \in Levels \ {i} : h[k] = task[k]
  BY <1>4, <1>6, <1>8 DEF Only
<1>10. /\ Promise(q) \in Promises /\ Promise(q).state = "Ready" /\ Promise(q).requested = q
       /\ Promise(q).checker = NewChecker
  BY <1>2, CheckerResets DEF Promise, Promises, States, Trampolines, Results
<1>11. /\ task' \in Chains /\ task'[j] = Promise(q) /\ task'[i] = h[i]
       /\ \A k \in Levels \ {i, j} : task'[k] = task[k]
  BY <1>1, <1>3, <1>9, <1>10 DEF Chains
<1>12. queue' = <<j>> /\ queue' \in Seq(Levels) /\ j \in 0..MaxDepth /\ running' \in 0..MaxDepth
  BY <1>1, <1>2, <1>3, MaxDepthAssumption DEF Levels
<1>13. TypeOK'
  <2>1. deaf' \in 1..Nobody
    BY <1>1 DEF IInv, TypeOK
  <2>2. QED
    BY <1>1, <1>2, <1>11, <1>12, <2>1 DEF TypeOK, Chains, Promises, States, Trampolines, Results
<1>14. CheckersSilent'
  <2>1. h[i].checker.state # "Bad" /\ NewChecker.state # "Bad"
    BY <1>8, CheckerResets
  <2>2. QED
    BY <1>10, <1>11, <2>1 DEF IInv, CheckersSilent
<1>15. \A k \in 1..(j - 1) : task'[k].state = "Task" /\ Awaiting(task[k], k \in Reached)'
  <2>1. task'[i].state = "Task" /\ Awaiting(task[i], i \in Reached)'
    BY <1>1, <1>2, <1>7, <1>8, <1>11 DEF Awaiting
  <2>2. \A k \in 1..(i - 1) : task'[k].state = "Task" /\ Awaiting(task[k], k \in Reached)'
    <3>1. \A k \in 1..(i - 1) : k \in Levels \ {i, j}
      BY MaxDepthAssumption DEF Levels, j
    <3>2. QED
      BY <1>1, <1>2, <1>11, <3>1 DEF IInv, Awaiting
  <2>3. QED
    BY <1>3, <2>1, <2>2
<1>16. Innermost(task[depth])' /\ DeafIn(depth)'
  <2>1. (i \in Reached <=> j \in Reached) /\ DeafIn(j)
    BY <1>2, <1>3, MaxDepthAssumption DEF Reached, DeafIn, Nobody, Levels, j
  <2>2. DeafIn(depth)'
    BY <1>1, <2>1 DEF DeafIn
  <2>3. QED
    BY <1>1, <1>2, <1>10, <1>11, <1>12, <2>1, <2>2 DEF Innermost
<1>17. IInv'
  BY <1>1, <1>3, <1>13, <1>14, <1>15, <1>16 DEF IInv
<1>18. QED
  BY <1>4, <1>6, <1>8, <1>11, <1>17 DEF Has

\* Before a suspension: the task has a new awaiter, which is not ready.
LEMMA ReadiedDoes ==
  ASSUME IInv, NEW i \in Levels, running = i, NEW q \in BOOLEAN
  PROVE  LET g == Prepared(Fresh(i), i, q)
         IN /\ Only(g, task, i) /\ g[i].state = "Running" /\ g[i].requested = FALSE
            /\ g[i].onResume = (IF q THEN "doResumeAfterCancel" ELSE "doResume")
            /\ g[i].checker = [state |-> IF q THEN "CancelPending" ELSE "NotReady",
                               hasExecutor |-> TRUE]
            /\ g[i].result = task[i].result
<1> DEFINE f == Fresh(i)
           g == Prepared(f, i, q)
           o == IF q THEN "doResumeAfterCancel" ELSE "doResume"
           d == [state |-> IF q THEN "CancelPending" ELSE "NotReady", hasExecutor |-> TRUE]
<1>1. /\ Only(f, task, i)
      /\ Has(f[i], task[i].state, FALSE, task[i].onResume, NewChecker, task[i].result)
  BY Zenon, Runner, FreshDoes
<1> HIDE DEF f
<1>2. f \in Chains /\ f[i].checker = NewChecker
  BY <1>1 DEF Only, Has
<1>3. Only(g, f, i) /\ Has(g[i], f[i].state, f[i].requested, o, d, f[i].result)
  BY <1>2, PreparedDoes
<1> HIDE DEF g, o, d
<1>4. task[i].state = "Running"
  BY Runner
<1>5. Only(g, task, i)
  BY <1>1, <1>3 DEF Only
<1>6. /\ g[i].state = "Running" /\ g[i].requested = FALSE /\ g[i].onResume = o /\ g[i].checker = d
      /\ g[i].result = task[i].result
  BY <1>1, <1>3, <1>4 DEF Has
<1>7. QED
  BY <1>5, <1>6 DEF f, g, o, d

\* The innermost task is suspended on something that is not a task.
LEMMA StepSuspends ==
  ASSUME IInv, NEW i \in Levels, running = i, NEW q \in BOOLEAN, q <=> i \in Reached,
         task' = Suspended(Prepared(Fresh(i), i, q), i, "Leaf"),
         running' = 0, depth' = depth, queue' = queue, asked' = asked, deaf' = deaf,
         leaf' \in Aborts
  PROVE  IInv' /\ task'[i].result = task[i].result
<1> DEFINE g == Prepared(Fresh(i), i, q)
<1>1. /\ Only(g, task, i) /\ g[i].state = "Running" /\ g[i].requested = FALSE
      /\ g[i].onResume = (IF q THEN "doResumeAfterCancel" ELSE "doResume")
      /\ g[i].checker = [state |-> IF q THEN "CancelPending" ELSE "NotReady", hasExecutor |-> TRUE]
      /\ g[i].result = task[i].result
  BY Zenon, ReadiedDoes
<1> HIDE DEF g
<1>2. g \in Chains /\ "Leaf" \in {"Task", "Leaf"}
  BY <1>1 DEF Only
<1>3. task' = Suspended(g, i, "Leaf")
  BY DEF g
<1>4. /\ Only(task', g, i) /\ task'[i].state = "Leaf" /\ task'[i].onResume = g[i].onResume
      /\ task'[i].checker.state = (IF q THEN "Cancelling" ELSE "Running")
      /\ task'[i].result = g[i].result /\ task'[i].requested = g[i].requested
  BY <1>1, <1>2, <1>3, SuspendedDoes
<1>5. depth = i /\ queue = <<>> /\ i > 0
  BY Runner DEF Levels
<1>6. Awaiting(task[i], i \in Reached)'
  <2>1. Reached' = Reached
    BY DEF Reached
  <2>2. QED
    BY <1>1, <1>4, <1>5, <2>1 DEF Awaiting
<1>7. Innermost(task[depth])' /\ task'[i].checker.state # "Bad"
  BY <1>4, <1>5, <1>6 DEF Innermost
<1>8. Only(task', task, i)
  BY <1>1, <1>4 DEF Only
<1>9. IInv'
  BY <1>5, <1>7, <1>8, InnerStep
<1>10. QED
  BY <1>1, <1>4, <1>9

\* The innermost task goes on.
LEMMA StepGoesOn ==
  ASSUME IInv, NEW i \in Levels, running = i, Only(task', task, i), task'[i].state = "Running",
         task'[i].requested <=> i \in Reached,
         task'[i].checker = NewChecker \/ task'[i].checker.state = "Done",
         running' = i, depth' = depth, queue' = queue, asked' = asked, deaf' = deaf,
         leaf' \in Aborts
  PROVE  IInv'
<1>1. depth = i /\ queue = <<>> /\ i > 0
  BY Runner DEF Levels
<1>2. Innermost(task[depth])' /\ task'[i].checker.state # "Bad"
  BY <1>1, CheckerResets DEF Innermost, Reached
<1>3. QED
  BY <1>1, <1>2, InnerStep

LEMMA StepThrows ==
  ASSUME IInv, NEW i \in Levels, running = i, NEW q \in BOOLEAN, q <=> i \in Reached,
         task' = Threw(Prepared(Fresh(i), i, q), i, q),
         running' = i, depth' = depth, queue' = queue, asked' = asked, deaf' = deaf,
         leaf' \in Aborts
  PROVE  IInv' /\ task'[i].result = task[i].result
<1> DEFINE g == Prepared(Fresh(i), i, q)
<1>1. /\ Only(g, task, i) /\ g[i].state = "Running"
      /\ g[i].checker = [state |-> IF q THEN "CancelPending" ELSE "NotReady", hasExecutor |-> TRUE]
      /\ g[i].result = task[i].result
  BY Zenon, ReadiedDoes
<1>2. task' = Threw(g, i, q)
  OBVIOUS
<1> HIDE DEF g
<1>3. g \in Chains
  BY <1>1 DEF Only
<1>4. /\ Only(task', g, i) /\ task'[i].state = g[i].state /\ task'[i].requested = q
      /\ task'[i].checker.state = "Done" /\ task'[i].result = g[i].result
  BY <1>1, <1>2, <1>3, ThrewDoes
<1>5. Only(task', task, i)
  BY <1>1, <1>4 DEF Only
<1>6. IInv'
  BY <1>1, <1>4, <1>5, StepGoesOn
<1>7. QED
  BY <1>1, <1>4, <1>6

\* co_await of something else, with no request to cancel.
LEMMA StepAwaitLeaf ==
  ASSUME IInv, NEW i \in Levels, AwaitLeaf(i)
  PROVE  IInv' /\ task'[i].result = task[i].result
<1>1. running = i /\ task[i].requested # TRUE /\ UNCHANGED <<depth, queue, asked, deaf>>
  BY Zenon DEF AwaitLeaf
<1>2. ~(i \in Reached) /\ FALSE \in BOOLEAN /\ leaf \in Aborts
  BY Zenon, <1>1, Runner
<1>3. PICK answer \in Answers, abort \in Aborts :
        /\ task' =
             CASE answer = "ready" ->
                    [Fresh(i) EXCEPT ![i].checker = aboutToResume(readyReturned(@, TRUE))]
               [] answer = "throws" -> Threw(Prepared(Fresh(i), i, FALSE), i, FALSE)
               [] answer = "suspends" -> Suspended(Prepared(Fresh(i), i, FALSE), i, "Leaf")
        /\ running' = IF answer = "suspends" THEN 0 ELSE i
        /\ leaf' = abort
  BY Zenon DEF AwaitLeaf, Suspended
<1>4. CASE answer = "ready"
  <2> DEFINE f == Fresh(i)
             c == aboutToResume(readyReturned(NewChecker, TRUE))
  <2>1. /\ Only(f, task, i)
        /\ Has(f[i], task[i].state, FALSE, task[i].onResume, NewChecker, task[i].result)
    BY Zenon, <1>1, Runner, FreshDoes
  <2>2. task' = [f EXCEPT ![i].checker = aboutToResume(readyReturned(@, TRUE))]
    BY <1>3, <1>4
  <2> HIDE DEF f
  <2>3. f \in Chains /\ f[i].checker = NewChecker
    BY <2>1 DEF Only, Has
  <2>4. task' = [f EXCEPT ![i].checker = c]
    BY <2>2, <2>3 DEF Chains
  <2>5. c \in Checkers /\ c.state = "Done"
    BY Zenon, CheckerReady
  <2> HIDE DEF c
  <2>6. /\ Only(task', f, i)
        /\ Has(task'[i], f[i].state, f[i].requested, f[i].onResume, c, f[i].result)
    BY Zenon, <2>3, <2>4, <2>5, ToldDoes
  <2>7. Only(task', task, i)
    BY <2>1, <2>6 DEF Only
  <2>8. /\ task'[i].state = "Running" /\ task'[i].requested = FALSE /\ task'[i].checker = c
        /\ task'[i].result = task[i].result
    BY <1>1, <2>1, <2>6, Runner DEF Has
  <2>9. running' = i /\ leaf' \in Aborts
    BY <1>3, <1>4
  <2>10. IInv'
    BY <1>1, <1>2, <2>5, <2>7, <2>8, <2>9, StepGoesOn
  <2>11. QED
    BY <2>8, <2>10
<1>5. CASE answer = "throws"
  <2>1. task' = Threw(Prepared(Fresh(i), i, FALSE), i, FALSE) /\ running' = i /\ leaf' \in Aborts
    BY <1>3, <1>5
  <2>2. QED
    BY Zenon, <1>1, <1>2, <2>1, StepThrows
<1>6. CASE answer = "suspends"
  <2>1. task' = Suspended(Prepared(Fresh(i), i, FALSE), i, "Leaf") /\ running' = 0 /\ leaf' \in Aborts
    BY <1>3, <1>6
  <2>2. QED
    BY Zenon, <1>1, <1>2, <2>1, StepSuspends
<1>7. QED
  BY <1>4, <1>5, <1>6 DEF Answers

\* The innermost task of the chain g ends as cancelled, and all the others with it.
LEMMA StepEnds ==
  ASSUME NEW g, NEW i, Above(g, i, Levels), queue = <<>>,
         NEW f, Only(f, g, i), f[i].checker.state = "Cancelled", propagateCancel(f, i),
         running' = 0, asked' \in BOOLEAN, deaf' = Nobody, leaf' \in Aborts
  PROVE  IInv' /\ task'[i].result = "cancelled"
<1>1. f \in Chains /\ i \in Levels /\ \A j \in Levels \ {i} : f[j] = g[j]
  BY DEF Only, Above
<1>2. \A j \in 1..(i - 1) : /\ f[j].onResume = "doResumeAfterCancel"
                            /\ f[j].checker.state = "Cancelling"
  BY <1>1 DEF Above, Awaiting
<1>3. \A j \in Levels : f[j].checker.state # "Bad"
  BY <1>1 DEF Above
<1>4. /\ depth' = 0 /\ queue' = queue /\ task' \in Chains
      /\ \A j \in Levels : task'[j].checker.state # "Bad"
      /\ task'[i].result = "cancelled"
  BY <1>1, <1>2, <1>3, EndsAll
<1>5. IInv'
  BY <1>4, LastStep
<1>6. QED
  BY <1>4, <1>5

\* co_await of something that is skipped, for a cancellation is pending.
LEMMA StepSkipLeaf ==
  ASSUME IInv, NEW i \in Levels, SkipLeaf(i)
  PROVE  IInv' /\ task'[i].result = "cancelled"
<1> DEFINE f == Fresh(i)
           c == earlyCancelReturned(NewChecker, TRUE)
           g == [f EXCEPT ![i].checker = c]
<1>1. /\ running = i /\ task[i].requested /\ running' = 0 /\ leaf' = leaf /\ asked' = asked /\ deaf' = deaf
      /\ propagateCancel([f EXCEPT ![i].checker = earlyCancelReturned(@, TRUE)], i)
  BY DEF SkipLeaf
<1>2. i \in Reached /\ depth = i /\ queue = <<>> /\ leaf' \in Aborts
  BY <1>1, Runner
<1>3. /\ Only(f, task, i)
      /\ Has(f[i], task[i].state, FALSE, task[i].onResume, NewChecker, task[i].result)
  BY Zenon, <1>1, Runner, FreshDoes
<1> HIDE DEF f
<1>4. f \in Chains /\ f[i].checker = NewChecker
  BY <1>3 DEF Only, Has
<1>5. [f EXCEPT ![i].checker = earlyCancelReturned(@, TRUE)] = g
  BY <1>4 DEF Chains
<1>6. c \in Checkers /\ c.state = "Cancelled"
  BY Zenon, CheckerSkips
<1> HIDE DEF c
<1>7. /\ Only(g, f, i) /\ Has(g[i], f[i].state, f[i].requested, f[i].onResume, c, f[i].result)
  BY <1>4, <1>6, ToldDoes
<1> HIDE DEF g
<1>8. Only(g, task, i) /\ g[i].checker.state = "Cancelled"
  BY <1>3, <1>6, <1>7 DEF Only, Has
<1>9. propagateCancel(g, i)
  BY Zenon, <1>1, <1>5
<1>10. Above(task, i, Levels) /\ deaf' = Nobody
  <2>1. depth > 0
    BY <1>2 DEF Levels
  <2>2. QED
    BY Zenon, <1>1, <1>2, <2>1, AboveNow
<1>11. asked' \in BOOLEAN
  BY <1>1, Runner
<1>12. QED
  BY Zenon, <1>1, <1>2, <1>8, <1>9, <1>10, <1>11, StepEnds

\* The innermost task of the chain g is put into the queue.
LEMMA StepQueued ==
  ASSUME NEW g, NEW i, Above(g, i, Reached'), queue = <<>>, Only(task', g, i),
         task'[i].state = "Ready", task'[i].requested <=> i \in Reached',
         task'[i].checker.state = "Ready", queue' = Append(queue, i), running' = 0, depth' = i,
         asked' \in BOOLEAN, DeafIn(depth)', leaf' \in Aborts
  PROVE  IInv'
<1>1. queue' = <<i>>
  OBVIOUS
<1>2. Innermost(task[depth])' /\ task'[i].checker.state # "Bad"
  BY <1>1 DEF Innermost
<1>3. QED
  BY <1>2, InnerStepFrom

\* The awaiter of the innermost task of the chain g was told of the cancellation and is done:
\* the task is resumed nevertheless, or ends.
LEMMA StepDecides ==
  ASSUME NEW g, NEW i, Above(g, i, Levels), queue = <<>>, NEW f, Only(f, g, i),
         f[i].checker.state = "ReadyAfterCancel",
         \/ task' = ResumeAnyway(f, i) /\ queue' = Append(queue, i) /\ depth' = i
         \/ propagateCancel([f EXCEPT ![i].checker = mustResumeReturned(@, FALSE)], i),
         running' = 0, asked' = TRUE, deaf' = Nobody, leaf' \in Aborts
  PROVE  IInv' /\ task'[i].result \in {f[i].result, "cancelled"}
<1>1. f \in Chains /\ i \in Levels /\ Above(g, i, Reached') /\ DeafIn(depth)'
  <2>1. Reached' = Levels
    BY MaxDepthAssumption DEF Reached, Nobody, Levels
  <2>2. QED
    BY Zenon, <2>1 DEF Only, Above, DeafIn
<1>2. CASE task' = ResumeAnyway(f, i) /\ queue' = Append(queue, i) /\ depth' = i
  <2>1. /\ Only(task', f, i) /\ task'[i].state = "Ready" /\ task'[i].requested = TRUE
        /\ task'[i].checker.state = "Ready" /\ task'[i].result = f[i].result
    BY Zenon, <1>1, <1>2, ResumeAnywayDoes
  <2>2. Only(task', g, i)
    BY <2>1 DEF Only
  <2>3. i \in Reached' /\ asked' \in BOOLEAN
    BY <1>1, MaxDepthAssumption DEF Reached, Nobody, Levels
  <2>4. IInv'
    BY Zenon, <1>1, <1>2, <2>1, <2>2, <2>3, StepQueued
  <2>5. QED
    BY <2>1, <2>4
<1>3. CASE propagateCancel([f EXCEPT ![i].checker = mustResumeReturned(@, FALSE)], i)
  <2> DEFINE c == mustResumeReturned(f[i].checker, FALSE)
             h == [f EXCEPT ![i].checker = c]
  <2>1. f[i].checker \in Checkers
    BY <1>1 DEF Chains, Promises
  <2>2. c \in Checkers /\ c.state = "Cancelled"
    BY Zenon, <2>1, CheckerDecides
  <2>3. [f EXCEPT ![i].checker = mustResumeReturned(@, FALSE)] = h
    BY <1>1 DEF Chains
  <2> HIDE DEF c
  <2>4. Only(h, f, i) /\ Has(h[i], f[i].state, f[i].requested, f[i].onResume, c, f[i].result)
    BY Zenon, <1>1, <2>2, ToldDoes
  <2> HIDE DEF h
  <2>5. Only(h, g, i) /\ h[i].checker.state = "Cancelled"
    BY <2>2, <2>4 DEF Only, Has
  <2>6. propagateCancel(h, i) /\ asked' \in BOOLEAN
    BY Zenon, <1>3, <2>3
  <2>7. QED
    BY Zenon, <2>5, <2>6, StepEnds
<1>4. QED
  BY <1>2, <1>3

\* co_await of something that cannot be skipped.
LEMMA StepShieldedLeaf ==
  ASSUME IInv, NEW i \in Levels, ShieldedLeaf(i)
  PROVE  IInv' /\ task'[i].result \in {task[i].result, "cancelled"}
<1> DEFINE f == Fresh(i)
           c == readyReturned(earlyCancelReturned(NewChecker, FALSE), TRUE)
           h == [f EXCEPT ![i].checker = readyReturned(earlyCancelReturned(@, FALSE), TRUE),
                          ![i].onResume = "doResumeAfterCancel"]
<1>1. running = i /\ task[i].requested /\ leaf' = leaf /\ asked' = asked /\ deaf' = deaf
  BY DEF ShieldedLeaf
<1>2. /\ i \in Reached /\ depth = i /\ queue = <<>> /\ leaf' \in Aborts /\ asked \in BOOLEAN
      /\ TRUE \in BOOLEAN
  BY <1>1, Runner
<1>3. \/ /\ \/ task' = ResumeAnyway(h, i) /\ queue' = Append(queue, i) /\ UNCHANGED depth
            \/ propagateCancel([h EXCEPT ![i].checker = mustResumeReturned(@, FALSE)], i)
         /\ running' = 0
      \/ /\ task' = Threw(Prepared(f, i, TRUE), i, TRUE)
         /\ UNCHANGED <<depth, queue, running>>
      \/ /\ task' = Suspended(Prepared(f, i, TRUE), i, "Leaf")
         /\ running' = 0 /\ UNCHANGED <<depth, queue>>
  BY Zenon DEF ShieldedLeaf, Suspended
<1>4. CASE /\ \/ task' = ResumeAnyway(h, i) /\ queue' = Append(queue, i) /\ UNCHANGED depth
              \/ propagateCancel([h EXCEPT ![i].checker = mustResumeReturned(@, FALSE)], i)
           /\ running' = 0
  <2>1. /\ Only(f, task, i)
        /\ Has(f[i], task[i].state, FALSE, task[i].onResume, NewChecker, task[i].result)
    BY Zenon, <1>1, Runner, FreshDoes
  <2> HIDE DEF f
  <2> DEFINE p == f[i]
             r == [p EXCEPT !.checker = c, !.onResume = "doResumeAfterCancel"]
  <2>2. f \in Chains /\ p.checker = NewChecker /\ p \in Promises /\ p.result = task[i].result
    BY <2>1 DEF Only, Has
  <2>3. h = [f EXCEPT ![i] = r]
    BY Zenon, <2>2 DEF Chains
  <2>4. c \in Checkers /\ c.state = "ReadyAfterCancel"
    BY Zenon, CheckerSkips
  <2> HIDE DEF p, c, h
  <2>5. Has(r, p.state, p.requested, "doResumeAfterCancel", c, p.result)
    BY Zenon, <2>2, <2>4 DEF Has, Promises, Trampolines
  <2> HIDE DEF r
  <2>6. Only(h, f, i) /\ Has(h[i], p.state, p.requested, "doResumeAfterCancel", c, p.result)
    BY Zenon, <2>2, <2>3, <2>5, OneChanges
  <2>7. Only(h, task, i) /\ h[i].checker.state = "ReadyAfterCancel" /\ h[i].result = task[i].result
    BY <2>1, <2>2, <2>4, <2>6 DEF Only, Has
  <2>8. Above(task, i, Levels) /\ asked' = TRUE /\ deaf' = Nobody
    <3>1. depth > 0
      BY <1>2 DEF Levels
    <3>2. asked /\ deaf = Nobody /\ Above(task, i, Levels)
      BY Zenon, <1>2, <3>1, AboveNow
    <3>3. QED
      BY <1>1, <1>2, <3>2
  <2>9. IInv' /\ task'[i].result \in {h[i].result, "cancelled"}
    BY Zenon, <1>2, <1>4, <2>7, <2>8, StepDecides
  <2>10. QED
    BY <2>7, <2>9
<1>5. CASE task' = Threw(Prepared(f, i, TRUE), i, TRUE) /\ UNCHANGED <<depth, queue, running>>
  <2>1. running' = i /\ depth' = depth /\ queue' = queue
    BY <1>1, <1>5
  <2>2. QED
    BY Zenon, <1>1, <1>2, <1>5, <2>1, StepThrows
<1>6. CASE /\ task' = Suspended(Prepared(f, i, TRUE), i, "Leaf")
           /\ running' = 0 /\ UNCHANGED <<depth, queue>>
  <2>1. running' = 0 /\ depth' = depth /\ queue' = queue
    BY <1>6
  <2>2. QED
    BY Zenon, <1>1, <1>2, <1>6, <2>1, StepSuspends
<1>7. QED
  BY Zenon, <1>3, <1>4, <1>5, <1>6

\* The awaiter of the innermost task of the chain g resumes it.
LEMMA StepResumed ==
  ASSUME NEW g, NEW i, i = depth, Above(g, i, Reached'), Awaiting(g[i], i \in Reached'),
         queue = <<>>, Resumed(g, i), running' = 0, asked' \in BOOLEAN, leaf' \in Aborts,
         deaf' = Nobody \/ (asked' /\ deaf' \in 1..i)
  PROVE  IInv'
<1> DEFINE c == resumed(g[i].checker)
           f == [g EXCEPT ![i].checker = c]
<1>1. g \in Chains /\ i \in Levels
  BY DEF Above
<1>2. g[i].checker \in Checkers /\ g[i].requested \in BOOLEAN
  BY <1>1 DEF Chains, Promises
<1>3. c \in Checkers /\ c.state = IF i \in Reached' THEN "ReadyAfterCancel" ELSE "Ready"
  BY <1>2, CheckerResumes DEF Awaiting
<1>4. [g EXCEPT ![i].checker = resumed(@)] = f
  BY <1>1 DEF Chains
<1> HIDE DEF c
<1>5. Only(f, g, i) /\ Has(f[i], g[i].state, g[i].requested, g[i].onResume, c, g[i].result)
  BY <1>1, <1>3, ToldDoes
<1>6. IF g[i].onResume = "doResume"
        THEN task' = doResume(f, i) /\ queue' = Append(queue, i) /\ UNCHANGED depth
        ELSE \/ task' = ResumeAnyway(f, i) /\ queue' = Append(queue, i) /\ UNCHANGED depth
             \/ propagateCancel([f EXCEPT ![i].checker = mustResumeReturned(@, FALSE)], i)
  BY Zenon, <1>4 DEF Resumed
<1> HIDE DEF f
<1>7. f \in Chains /\ f[i].requested = g[i].requested /\ f[i].checker = c
  BY <1>5 DEF Only, Has
<1>8. CASE i \in Reached'
  <2>1. g[i].onResume # "doResume" /\ asked' = TRUE /\ deaf' = Nobody /\ Reached' = Levels
    <3>1. asked' = TRUE /\ i < deaf' /\ i \in Nat
      BY <1>1, <1>8 DEF Reached, Levels
    <3>2. deaf' = Nobody
      BY <3>1
    <3>3. Reached' = Levels
      BY <3>1, <3>2, MaxDepthAssumption DEF Reached, Nobody, Levels
    <3>4. QED
      BY <1>8, <3>1, <3>2, <3>3 DEF Awaiting
  <2>2. \/ task' = ResumeAnyway(f, i) /\ queue' = Append(queue, i) /\ depth' = i
        \/ propagateCancel([f EXCEPT ![i].checker = mustResumeReturned(@, FALSE)], i)
    BY <1>6, <2>1
  <2>3. Above(g, i, Levels) /\ f[i].checker.state = "ReadyAfterCancel"
    BY Zenon, <1>3, <1>7, <1>8, <2>1
  <2>4. QED
    BY Zenon, <1>5, <2>1, <2>2, <2>3, StepDecides
<1>9. CASE ~(i \in Reached')
  <2>1. task' = doResume(f, i) /\ queue' = Append(queue, i) /\ depth' = i
    BY <1>6, <1>9 DEF Awaiting
  <2>2. /\ Only(task', f, i)
        /\ Has(task'[i], "Ready", f[i].requested, "doNothing", f[i].checker, f[i].result)
    BY <1>1, <1>7, <2>1, doResumeDoes
  <2>3. Only(task', g, i)
    BY <1>5, <2>2 DEF Only
  <2>4. task'[i].state = "Ready" /\ ~task'[i].requested /\ task'[i].checker.state = "Ready"
    BY <1>3, <1>7, <1>9, <2>2 DEF Has, Awaiting
  <2>5. DeafIn(depth)'
    BY <2>1 DEF DeafIn
  <2>6. QED
    BY <1>9, <2>1, <2>3, <2>4, <2>5, StepQueued
<1>10. QED
  BY <1>8, <1>9

\* What the innermost task awaits completes.
LEMMA StepLeafCompletes ==
  ASSUME IInv, LeafCompletes
  PROVE  IInv'
<1>1. /\ running = 0 /\ depth > 0 /\ task[depth].state = "Leaf" /\ Resumed(task, depth)
      /\ leaf' = leaf /\ running' = running /\ asked' = asked /\ Reached' = Reached
      /\ deaf' = deaf
  BY DEF LeafCompletes, Reached
<1>2. queue = <<>> /\ Awaiting(task[depth], depth \in Reached)
  BY <1>1 DEF IInv, Innermost
<1>3. /\ Above(task, depth, Reached') /\ Awaiting(task[depth], depth \in Reached')
      /\ leaf' \in Aborts /\ asked' \in BOOLEAN /\ running' = 0
      /\ deaf' = Nobody \/ (asked' /\ deaf' \in 1..depth)
  BY <1>1, <1>2, AboveNow, Innards DEF DeafIn
<1>4. QED
  BY <1>1, <1>2, <1>3, StepResumed

\* The innermost task returns or throws: its parent is resumed, if there is one.
LEMMA StepFinish ==
  ASSUME IInv, NEW i \in Levels, Finish(i)
  PROVE  IInv' /\ depth' = i - 1
<1>1. /\ running = i /\ running' = 0 /\ leaf' = leaf /\ asked' = asked
      /\ deaf' = IF deaf = i THEN Nobody ELSE deaf
  BY DEF Finish
<1>2. /\ depth = i /\ DeafIn(i) /\ queue = <<>> /\ task \in Chains /\ leaf' \in Aborts /\ asked \in BOOLEAN
      /\ task[i].checker = NewChecker \/ task[i].checker.state = "Done"
  BY <1>1, Runner
<1>3. Above(task, i, Reached) /\ i \in Nat /\ i > 0
  <2>1. i \in Nat /\ i > 0
    BY DEF Levels
  <2>2. QED
    BY <1>2, <2>1, AboveNow
<1> DEFINE ended(result) == [task EXCEPT ![i].result = result, ![i].checker = reset(@)]
<1>4. PICK result \in {"value", "error"} :
        \/ i = 1 /\ task' = ended(result) /\ depth' = 0 /\ UNCHANGED queue
        \/ i > 1 /\ ChildEnded(ended(result), i - 1, result)
  BY Zenon DEF Finish
<1> DEFINE e == ended(result)
           p == task[i]
           r == [p EXCEPT !.result = result, !.checker = NewChecker]
<1>5. NewChecker \in Checkers /\ NewChecker.state # "Bad" /\ reset(p.checker) = NewChecker
  BY <1>2, CheckerResets
<1>6. p \in Promises /\ e = [task EXCEPT ![i] = r]
  BY Zenon, <1>2, <1>5 DEF Chains
<1> HIDE DEF p
<1>7. Has(r, p.state, p.requested, p.onResume, NewChecker, result)
  BY Zenon, <1>5, <1>6 DEF Has, Promises, Results
<1> HIDE DEF r
<1>8. Only(e, task, i) /\ Has(e[i], p.state, p.requested, p.onResume, NewChecker, result)
  BY Zenon, <1>2, <1>6, <1>7, OneChanges
<1>9. e \in Chains /\ \A j \in Levels : e[j].checker.state # "Bad"
  BY Zenon, <1>3, <1>5, <1>8 DEF Only, Has, Above
<1>10. CASE i = 1 /\ task' = e /\ depth' = 0 /\ UNCHANGED queue
  <2>1. queue' = <<>> /\ asked' \in BOOLEAN /\ deaf' = Nobody
    BY <1>1, <1>2, <1>10 DEF DeafIn
  <2>2. IInv'
    BY Zenon, <1>1, <1>2, <1>9, <1>10, <2>1, LastStep
  <2>3. QED
    BY <1>10, <2>2
<1>11. CASE i > 1 /\ ChildEnded(e, i - 1, result)
  <2> HIDE DEF e, ended
  <2> DEFINE k == i - 1
  <2>1. /\ k \in Levels /\ k \in 1..(i - 1) /\ k # i
        /\ \A j \in 1..(k - 1) : j \in 1..(i - 1) /\ j \in Levels \ {k} /\ j # i
    BY <1>3, <1>11, MaxDepthAssumption DEF Levels
  <2>2. task' = Continue(e, k) /\ depth' = k /\ queue' = Append(queue, k)
    BY <1>11 DEF ChildEnded, mustResume
  <2>0. DeafIn(depth)' /\ \A j \in 1..(i - 1) : j \in Reached <=> j \in Reached'
    <3>1. CASE deaf = i
      <4>1. deaf' = Nobody /\ asked' = asked
        BY <1>1, <3>1
      <4>2. \A j \in 1..(i - 1) : j < deaf /\ j < Nobody
        BY <1>3, <3>1, MaxDepthAssumption DEF Nobody, Levels
      <4>3. QED
        BY <4>1, <4>2 DEF DeafIn, Reached
    <3>2. CASE deaf # i
      <4>1. deaf' = deaf /\ asked' = asked
        BY <1>1, <3>2
      <4>2. deaf = Nobody \/ (asked /\ deaf \in 1..k)
        BY <1>2, <1>3, <3>2 DEF DeafIn
      <4>3. QED
        BY <2>2, <4>1, <4>2 DEF DeafIn, Reached
    <3>3. QED
      BY <3>1, <3>2
  <2> HIDE DEF k
  <2>3. e[k] = task[k] /\ Awaiting(task[k], k \in Reached)
    BY <1>3, <1>8, <2>1 DEF Only, Above
  <2>4. /\ e[k].onResume = (IF k \in Reached THEN "doResumeAfterCancel" ELSE "doResume")
        /\ e[k].checker.state = (IF k \in Reached THEN "Cancelling" ELSE "Running")
        /\ e[k].requested => k \in Reached
    BY <2>3 DEF Awaiting
  <2>5. /\ Only(task', e, k) /\ task'[k].state = "Ready"
        /\ task'[k].requested = (IF k \in Reached THEN TRUE ELSE e[k].requested)
        /\ task'[k].checker.state = "Ready"
    <3>1. (k \in Reached) \in BOOLEAN
      OBVIOUS
    <3>2. QED
      BY Zenon, <1>9, <2>1, <2>2, <2>4, <3>1, ContinueDoes
  <2>6. task'[k].requested <=> k \in Reached'
    BY <2>0, <2>1, <2>4, <2>5
  <2>7. Above(e, k, Reached')
    BY <1>3, <1>8, <1>9, <2>0, <2>1 DEF Above, Only
  <2>8. IInv'
    BY Zenon, <1>1, <1>2, <2>0, <2>2, <2>5, <2>6, <2>7, StepQueued
  <2>9. QED
    BY <2>2, <2>8 DEF k
<1>12. QED
  BY <1>4, <1>10, <1>11

\* A suspended task that did not know of the request is told.
LEMMA InterceptDoes ==
  ASSUME task \in Chains, NEW i \in Levels, Awaiting(task[i], FALSE)
  PROVE  /\ Intercept(i) \in Promises /\ Awaiting(Intercept(i), TRUE)
         /\ Intercept(i).state = task[i].state
<1> DEFINE p == task[i]
           c == aboutToCancel(p.checker)
           r == [p EXCEPT !.onResume = "doResumeAfterCancel", !.checker = c]
<1>1. p \in Promises /\ Intercept(i) = r
  BY DEF Chains, Intercept
<1>2. p.checker \in Checkers /\ p.checker.state = "Running"
  BY <1>1 DEF Promises, Awaiting
<1>3. c \in Checkers /\ c.state = "Cancelling"
  BY Zenon, <1>2, CheckerCancels
<1> HIDE DEF p, c
<1>4. Has(r, p.state, p.requested, "doResumeAfterCancel", c, p.result)
  BY Zenon, <1>1, <1>3 DEF Has, Promises, Trampolines
<1> HIDE DEF r
<1>5. QED
  BY <1>1, <1>3, <1>4 DEF Has, Awaiting, p

\* cancel() on task 1, at any time.
LEMMA StepCancel ==
  ASSUME IInv, cancel
  PROVE  IInv' /\ (running > 0 => task'[running].result = task[running].result)
<1> DEFINE d == depth
           told == [i \in Levels |->
             IF i > depth THEN task[i]
             ELSE IF hasAwaiter(i) THEN Intercept(i)
             ELSE [task[i] EXCEPT !.requested = TRUE]]
<1>1. /\ depth > 0 /\ ~asked /\ asked' = TRUE /\ leaf' = leaf /\ running' = running
      /\ deaf' = deaf
  BY Zenon DEF cancel
<1>2. /\ task \in Chains /\ d \in Levels /\ d \in Nat /\ leaf' \in Aborts /\ asked = FALSE
      /\ Above(task, d, {}) /\ Innermost(task[d]) /\ ~(d \in Reached)
      /\ deaf' = Nobody /\ Reached' = Levels
  <2>1. asked = FALSE /\ d \in Nat /\ Reached = {}
    BY <1>1, Innards DEF Reached
  <2>2. deaf' = Nobody /\ asked'
    BY <1>1, Innards DEF DeafIn
  <2>3. Reached' = Levels
    BY <2>2, MaxDepthAssumption DEF Reached, Nobody, Levels
  <2>4. Above(task, d, Reached) /\ ~(d \in Reached)
    BY <1>1, <2>1, AboveNow
  <2>5. QED
    BY Zenon, <1>1, <2>1, <2>2, <2>3, <2>4, Innards DEF IInv
<1>3. \/ /\ ~hasAwaiter(d) \/ leaf = "later"
         /\ task' = told /\ UNCHANGED <<depth, queue>>
      \/ /\ hasAwaiter(d) /\ leaf = "at once"
         /\ propagateCancel([told EXCEPT ![d].checker = cancelReturned(@, TRUE)], d)
      \/ hasAwaiter(d) /\ leaf = "resumes" /\ Resumed(told, d)
  BY Zenon DEF cancel
<1>4. ASSUME NEW i \in Levels, Awaiting(task[i], FALSE)
      PROVE  /\ Intercept(i) \in Promises /\ Awaiting(Intercept(i), TRUE)
             /\ Intercept(i).state = task[i].state
  BY Zenon, <1>2, <1>4, InterceptDoes
<1>5. ASSUME NEW i \in Levels
      PROVE  Has([task[i] EXCEPT !.requested = TRUE], task[i].state, TRUE, task[i].onResume,
                 task[i].checker, task[i].result)
  <2> DEFINE p == task[i]
  <2>1. p \in Promises
    BY <1>2 DEF Chains
  <2> HIDE DEF p
  <2>2. Has([p EXCEPT !.requested = TRUE], p.state, TRUE, p.onResume, p.checker, p.result)
    BY Zenon, <2>1 DEF Has, Promises
  <2>3. QED
    BY Zenon, <2>2 DEF p
<1>6. ASSUME NEW j \in 1..(d - 1)
      PROVE  /\ j \in Levels \ {d} /\ told[j] \in Promises /\ told[j].state = "Task"
             /\ Awaiting(told[j], TRUE)
  <2>1. j \in Levels \ {d} /\ ~(j > d) /\ task[j].state = "Task" /\ Awaiting(task[j], FALSE)
    <3>1. ~(j > d)
      BY <1>2
    <3>2. QED
      BY <1>2, <3>1 DEF Above, Awaiting
  <2>2. hasAwaiter(j) /\ told[j] = Intercept(j)
    BY <2>1 DEF hasAwaiter
  <2>3. QED
    BY Zenon, <1>4, <2>1, <2>2
<1>7. /\ told[d] \in Promises
      /\ hasAwaiter(d) => told[d].state = "Leaf" /\ Awaiting(told[d], TRUE)
      /\ ~hasAwaiter(d) => told[d] = [task[d] EXCEPT !.requested = TRUE]
      /\ told[d].checker.state # "Bad"
  <2>1. d \in Levels /\ ~(d > d)
    BY <1>2
  <2>2. CASE hasAwaiter(d)
    <3>1. told[d] = Intercept(d)
      BY <2>1, <2>2
    <3>2. task[d].state = "Leaf" /\ Awaiting(task[d], FALSE)
      BY <1>2, <2>2 DEF Innermost, hasAwaiter, Awaiting
    <3>3. QED
      BY <1>4, <2>1, <2>2, <3>1, <3>2 DEF Awaiting
  <2>3. CASE ~hasAwaiter(d)
    <3>1. told[d] = [task[d] EXCEPT !.requested = TRUE]
      BY <2>1, <2>3
    <3>2. told[d] \in Promises /\ told[d].checker = task[d].checker
      BY Zenon, <1>5, <2>1, <3>1 DEF Has
    <3>3. QED
      BY Zenon, <1>2, <2>3, <3>1, <3>2 DEF Above
  <2>4. QED
    BY Zenon, <2>2, <2>3
<1>8. ASSUME NEW i \in Levels
      PROVE  told[i] \in Promises /\ told[i].checker.state # "Bad"
  <2>1. i \in 1..(d - 1) \/ i = d \/ i > d
    BY <1>2, MaxDepthAssumption DEF Levels
  <2>2. CASE i > d
    BY <1>2, <2>2 DEF Above, Chains
  <2>3. CASE i \in 1..(d - 1)
    <3>1. told[i] \in Promises /\ Awaiting(told[i], TRUE)
      BY Zenon, <1>6, <2>3
    <3>2. QED
      BY <3>1 DEF Awaiting
  <2>4. CASE i = d
    BY <1>7, <2>4
  <2>5. QED
    BY <2>1, <2>2, <2>3, <2>4
<1>9. told \in Chains
  BY <1>8 DEF Chains
<1>10. running > 0 => running = d /\ ~hasAwaiter(d)
  BY <1>2, Innards DEF Innermost, hasAwaiter
<1> HIDE DEF told, d
<1>11. /\ Above(told, d, Levels) /\ Above(told, d, Reached')
       /\ asked' \in BOOLEAN /\ d \in Reached'
  BY <1>1, <1>2, <1>6, <1>8, <1>9 DEF Above, Awaiting
<1>12. CASE (~hasAwaiter(d) \/ leaf = "later") /\ task' = told /\ UNCHANGED <<depth, queue>>
  <2>1. Only(task', told, d) /\ task'[d].checker.state # "Bad" /\ depth' = d
    BY <1>7, <1>9, <1>12 DEF Only, d
  <2>0. DeafIn(depth)' /\ Above(told, depth', Reached') /\ Only(task', told, depth')
    BY <1>2, <1>11, <2>1 DEF DeafIn
  <2>2. CASE hasAwaiter(d)
    <3>1. queue' = <<>> /\ running' = 0
      BY <1>1, <1>2, <1>12, <2>2 DEF Innermost, hasAwaiter
    <3>2. Innermost(task[depth])'
      BY <1>7, <1>11, <1>12, <2>1, <2>2, <3>1 DEF Innermost, Awaiting
    <3>3. IInv'
      BY Zenon, <1>2, <1>11, <2>0, <2>1, <3>2, InnerStepFrom
    <3>4. QED
      BY <1>10, <2>2, <3>3
  <2>3. CASE ~hasAwaiter(d)
    <3>1. Has(task'[d], task[d].state, TRUE, task[d].onResume, task[d].checker, task[d].result)
      BY Zenon, <1>2, <1>5, <1>7, <1>12, <2>3
    <3>2. /\ task'[d].state = task[d].state /\ task'[d].requested = TRUE
          /\ task'[d].checker = task[d].checker /\ task'[d].result = task[d].result
      BY <3>1 DEF Has
    <3>3. queue' = queue /\ running' = running /\ depth' = depth /\ d = depth
      BY <1>1, <1>12 DEF d
    <3>4. Innermost(task[depth])'
      BY Zenon, <1>2, <1>11, <2>3, <3>2, <3>3 DEF Innermost, hasAwaiter
    <3>5. IInv'
      BY Zenon, <1>2, <1>11, <2>0, <2>1, <3>4, InnerStepFrom
    <3>6. QED
      BY <1>10, <3>2, <3>5
  <2>4. QED
    BY <2>2, <2>3
<1>13. ASSUME hasAwaiter(d)
       PROVE  queue = <<>> /\ running' = 0 /\ ~(running > 0) /\ asked' \in BOOLEAN
  BY <1>1, <1>2, <1>13 DEF Innermost, hasAwaiter
<1>14. CASE /\ hasAwaiter(d) /\ leaf = "at once"
            /\ propagateCancel([told EXCEPT ![d].checker = cancelReturned(@, TRUE)], d)
  <2> DEFINE c == cancelReturned(told[d].checker, TRUE)
             f == [told EXCEPT ![d].checker = c]
  <2>1. told[d].checker \in Checkers /\ told[d].checker.state = "Cancelling"
    BY Zenon, <1>7, <1>14 DEF Promises, Awaiting
  <2>2. c \in Checkers /\ c.state = "Cancelled"
    BY Zenon, <2>1, CheckerCancels
  <2>3. [told EXCEPT ![d].checker = cancelReturned(@, TRUE)] = f
    BY <1>2, <1>9 DEF Chains
  <2> HIDE DEF c
  <2>4. Only(f, told, d) /\ Has(f[d], told[d].state, told[d].requested, told[d].onResume, c, told[d].result)
    BY <1>2, <1>9, <2>2, ToldDoes
  <2> HIDE DEF f
  <2>5. f[d].checker.state = "Cancelled" /\ propagateCancel(f, d)
    BY Zenon, <1>14, <2>2, <2>3, <2>4 DEF Has
  <2>6. QED
    BY Zenon, <1>2, <1>11, <1>13, <1>14, <2>4, <2>5, StepEnds
<1>15. CASE hasAwaiter(d) /\ leaf = "resumes" /\ Resumed(told, d)
  <2>1. Awaiting(told[d], d \in Reached') /\ d = depth
    BY <1>7, <1>11, <1>15 DEF Awaiting, d
  <2>2. QED
    BY <1>2, <1>11, <1>13, <1>15, <2>1, StepResumed
<1>16. QED
  BY Zenon, <1>3, <1>12, <1>14, <1>15

\* The awaiter of the innermost task throws, after cancel() came through the chain to it.
LEMMA StepThrowsCancelled ==
  ASSUME IInv, NEW i \in Levels, ThrowsCancelled(i)
  PROVE  IInv' /\ task'[i].result = task[i].result
<1> DEFINE g == Prepared(Fresh(i), i, FALSE)
           c == suspendThrew(aboutToCancel(aboutToSuspend(g[i].checker)))
           thrown == [g EXCEPT ![i].onResume = "doResumeAfterCancel",
                               ![i].checker = suspendThrew(aboutToCancel(aboutToSuspend(@)))]
           told == [j \in Levels |-> IF j < i THEN Intercept(j) ELSE thrown[j]]
<1>1. /\ running = i /\ ~asked /\ asked' = TRUE /\ deaf' = i /\ depth' = depth /\ leaf' = leaf
      /\ queue' = queue /\ running' = running /\ task' = told
  BY Zenon DEF ThrowsCancelled
<1>2. /\ depth = i /\ queue = <<>> /\ task \in Chains /\ leaf' \in Aborts /\ i \in Nat /\ i > 0
      /\ Above(task, i, {})
  <2>1. i > 0 /\ i \in Nat /\ Reached = {}
    BY <1>1 DEF Levels, Reached
  <2>2. QED
    BY <1>1, <2>1, Runner, AboveNow
<1>3. /\ Only(g, task, i) /\ g[i].state = "Running" /\ g[i].requested = FALSE
      /\ g[i].checker = [state |-> "NotReady", hasExecutor |-> TRUE]
      /\ g[i].result = task[i].result
  BY <1>1, ReadiedDoes
<1> HIDE DEF g
<1>4. c \in Checkers /\ c.state = "Done"
  BY <1>3, CheckerThrows
<1> DEFINE p == g[i]
           r == [p EXCEPT !.onResume = "doResumeAfterCancel", !.checker = c]
<1>5. g \in Chains /\ p \in Promises /\ thrown = [g EXCEPT ![i] = r]
  BY <1>3 DEF Only, Chains
<1> HIDE DEF p, c
<1>6. Has(r, p.state, p.requested, "doResumeAfterCancel", c, p.result)
  BY Zenon, <1>4, <1>5 DEF Has, Promises, Trampolines
<1> HIDE DEF r
<1>7. Only(thrown, g, i) /\ Has(thrown[i], p.state, p.requested, "doResumeAfterCancel", c, p.result)
  BY Zenon, <1>5, <1>6, OneChanges
<1> HIDE DEF thrown
<1>8. /\ Only(thrown, task, i) /\ thrown[i].state = "Running" /\ thrown[i].requested = FALSE
      /\ thrown[i].checker.state = "Done" /\ thrown[i].result = task[i].result
  BY <1>3, <1>4, <1>7 DEF Only, Has, p
<1>9. ASSUME NEW j \in Levels, j < i
      PROVE  /\ task'[j] \in Promises /\ task'[j].state = "Task" /\ Awaiting(task'[j], TRUE)
             /\ task'[j].checker.state # "Bad"
  <2>1. j \in 1..(i - 1)
    BY <1>2, <1>9 DEF Levels
  <2>2. task[j].state = "Task" /\ Awaiting(task[j], FALSE)
    BY <1>2, <2>1 DEF Above, Awaiting
  <2>3. task'[j] = Intercept(j)
    BY <1>1, <1>9
  <2>4. task'[j] \in Promises /\ task'[j].state = "Task" /\ Awaiting(task'[j], TRUE)
    BY <1>2, <2>2, <2>3, InterceptDoes
  <2>5. QED
    BY <2>4 DEF Awaiting
<1>10. ASSUME NEW j \in Levels, ~(j < i)
       PROVE  task'[j] \in Promises /\ task'[j].checker.state # "Bad"
  <2>1. task'[j] = thrown[j]
    BY <1>1, <1>10
  <2>2. QED
    BY <1>2, <1>8, <2>1 DEF Only, Chains, Above
<1>11. task' \in Chains
  <2>1. \A j \in Levels : task'[j] \in Promises
    BY <1>9, <1>10
  <2>2. QED
    BY <1>1, <2>1 DEF Chains
<1>12. task'[i] = thrown[i]
  BY <1>1, <1>2
<1>13. Reached' = {j \in Levels : j < i} /\ DeafIn(depth)'
  BY <1>1, <1>2 DEF Reached, DeafIn
<1>14. Above(task', i, Reached')
  <2>1. \A j \in 1..(i - 1) : j \in Levels \ {i} /\ j < i /\ j \in Reached'
    BY <1>2, <1>13, MaxDepthAssumption DEF Levels
  <2>2. \A j \in 1..(i - 1) : task'[j].state = "Task" /\ Awaiting(task'[j], j \in Reached')
    BY <1>9, <2>1 DEF Awaiting
  <2>3. QED
    BY <1>9, <1>10, <1>11, <2>1, <2>2 DEF Above
<1> HIDE DEF told
<1>15. Innermost(task[depth])'
  BY <1>1, <1>2, <1>8, <1>12, <1>13 DEF Innermost
<1>16. Only(task', task', i) /\ task'[i].checker.state # "Bad"
  BY <1>8, <1>11, <1>12 DEF Only
<1>17. IInv'
  BY <1>1, <1>2, <1>13, <1>14, <1>15, <1>16, InnerStepFrom
<1>18. QED
  BY <1>8, <1>12, <1>17
-----------------------------------------------------------------------------
(***************************************************************************)
(* The theorems.                                                           *)
(***************************************************************************)
LEMMA StartsRight == Init => IInv
<1> SUFFICES ASSUME Init
             PROVE  IInv
  OBVIOUS
<1>1. 1 \in Levels /\ 0 \in 0..MaxDepth /\ 1 \in 0..MaxDepth /\ <<1>> \in Seq(Levels)
  BY MaxDepthAssumption DEF Levels
<1>2. Promise(FALSE) \in Promises
  BY CheckerResets DEF Promise, Promises, States, Trampolines, Results
<1>3. /\ Promise(FALSE).checker = NewChecker /\ Promise(FALSE).requested = FALSE
      /\ Promise(FALSE).state = "Ready" /\ NewChecker.state # "Bad"
  BY CheckerResets DEF Promise
<1>4. \A i \in Levels : task[i] = Promise(FALSE)
  BY DEF Init
<1>5. TypeOK
  <2>1. Nobody \in 1..Nobody
    BY MaxDepthAssumption DEF Nobody
  <2>2. QED
    BY Zenon, <1>1, <1>2, <2>1 DEF Init, TypeOK, Promises, States, Trampolines, Results, Aborts
<1>6. CheckersSilent
  BY Zenon, <1>3, <1>4 DEF CheckersSilent
<1>7. Innermost(task[depth]) /\ DeafIn(depth)
  <2>1. ~(depth \in Reached)
    BY DEF Init, Reached
  <2>2. QED
    BY Zenon, <1>1, <1>3, <1>4, <2>1 DEF Init, Innermost, DeafIn
<1>8. depth = 1 /\ 1..(1 - 1) = {}
  BY DEF Init
<1>9. QED
  BY <1>5, <1>6, <1>7, <1>8 DEF IInv

LEMMA StepKeeps == IInv /\ [Next]_vars => IInv'
<1> SUFFICES ASSUME IInv, [Next]_vars
             PROVE  IInv'
  OBVIOUS
<1>1. CASE Run
  BY <1>1, StepRun
<1>2. CASE LeafCompletes
  BY <1>2, StepLeafCompletes
<1>3. CASE cancel
  BY <1>3, StepCancel
<1>4. CASE Over \/ UNCHANGED vars
  BY <1>4 DEF Over, vars, IInv, TypeOK, CheckersSilent, Innermost, Reached, DeafIn
<1>5. CASE \E i \in Levels : AwaitTask(i)
  BY <1>5, StepAwaitTask
<1>6. CASE \E i \in Levels : AwaitLeaf(i)
  BY <1>6, StepAwaitLeaf
<1>7. CASE \E i \in Levels : SkipLeaf(i) \/ ShieldedLeaf(i)
  BY <1>7, StepSkipLeaf, StepShieldedLeaf
<1>8. CASE \E i \in Levels : Finish(i)
  BY <1>8, StepFinish
<1>9. CASE \E i \in Levels : ThrowsCancelled(i)
  BY <1>9, StepThrowsCancelled
<1>10. QED
  BY <1>1, <1>2, <1>3, <1>4, <1>5, <1>6, <1>7, <1>8, <1>9 DEF Next

LEMMA IInvAlways == Spec => []IInv
BY StartsRight, StepKeeps, PTL DEF Spec

\* For chains of every length, promises drive their leaves and each other through the awaiter
\* protocol in its order: no assertion of an AwaiterStateChecker ever fails.
THEOREM CheckersStaySilent == Spec => []CheckersSilent
<1>1. IInv => CheckersSilent
  BY DEF IInv
<1>2. QED
  BY <1>1, IInvAlways, PTL

\* For chains of every length, and whenever cancel() comes, every task of the chain finds the
\* request: at its next co_await, when it is resumed, or when its child ends.  The one
\* exception is a task whose awaiter was asked by a cancel() made inside its await_suspend(),
\* and threw: until that task has ended, it and the tasks that it awaits do not.
THEOREM NoRequestLost == Spec => []RequestNotLost
<1>1. IInv => RequestNotLost
  <2> SUFFICES ASSUME IInv, asked, NEW i \in 1..depth, i < deaf
               PROVE  IF hasAwaiter(i) THEN task[i].onResume = "doResumeAfterCancel"
                      ELSE task[i].requested
    BY DEF RequestNotLost
  <2>1. /\ depth \in Nat /\ depth > 0 /\ (i = depth \/ i \in 1..(depth - 1))
        /\ i \in Reached
    BY Innards, MaxDepthAssumption DEF Reached, Levels, IInv, TypeOK
  <2>2. CASE i = depth
    BY <2>1, <2>2 DEF IInv, Innermost, Awaiting, hasAwaiter
  <2>3. CASE i \in 1..(depth - 1)
    BY <2>1, <2>3 DEF IInv, Awaiting, hasAwaiter
  <2>4. QED
    BY <2>1, <2>2, <2>3
<1>2. QED
  BY <1>1, IInvAlways, PTL

\* For chains of every length: when a task returns or throws, its parent is what runs next,
\* even a parent that was asked to stop meanwhile.
THEOREM EveryResultHeard == Spec => ResultsHeard
<1> DEFINE Heard == \A i \in 2..MaxDepth :
        (running = i /\ task[i].result = "none" /\ task'[i].result \in {"value", "error"})
          => depth' = i - 1
<1>1. IInv /\ [Next]_vars => [Heard]_vars
  <2> SUFFICES ASSUME IInv, Next, NEW i \in 2..MaxDepth, running = i, task[i].result = "none",
                      task'[i].result \in {"value", "error"}
               PROVE  depth' = i - 1
    BY DEF Heard
  <2>1. i \in Levels /\ i \in Nat /\ i # 0 /\ i > 0
    BY DEF Levels
  <2>2. CASE Run \/ LeafCompletes
    BY <2>1, <2>2 DEF Run, LeafCompletes
  <2>3. CASE cancel
    BY <2>1, <2>3, StepCancel
  <2>4. CASE Over
    BY <2>4 DEF Over, vars
  <2>5. CASE \E k \in Levels : AwaitTask(k)
    <3>1. AwaitTask(i)
      BY <2>5 DEF AwaitTask
    <3>2. QED
      BY <2>1, <3>1, StepAwaitTask
  <2>6. CASE \E k \in Levels : AwaitLeaf(k)
    <3>1. AwaitLeaf(i)
      BY Zenon, <2>6 DEF AwaitLeaf
    <3>2. QED
      BY <2>1, <3>1, StepAwaitLeaf
  <2>7. CASE \E k \in Levels : SkipLeaf(k)
    <3>1. SkipLeaf(i)
      BY <2>7 DEF SkipLeaf
    <3>2. QED
      BY <2>1, <3>1, StepSkipLeaf
  <2>8. CASE \E k \in Levels : ShieldedLeaf(k)
    <3>1. ShieldedLeaf(i)
      BY Zenon, <2>8 DEF ShieldedLeaf
    <3>2. QED
      BY <2>1, <3>1, StepShieldedLeaf
  <2>9. CASE \E k \in Levels : Finish(k)
    <3>1. Finish(i)
      BY Zenon, <2>9 DEF Finish
    <3>2. QED
      BY <2>1, <3>1, StepFinish
  <2>10. CASE \E k \in Levels : ThrowsCancelled(k)
    <3>1. ThrowsCancelled(i)
      BY Zenon, <2>10 DEF ThrowsCancelled
    <3>2. QED
      BY <2>1, <3>1, StepThrowsCancelled
  <2>11. QED
    BY <2>2, <2>3, <2>4, <2>5, <2>6, <2>7, <2>8, <2>9, <2>10 DEF Next
<1>2. QED
  BY <1>1, IInvAlways, PTL DEF Spec, ResultsHeard
=============================================================================
