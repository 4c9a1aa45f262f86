----------------------------- MODULE WaitQueues -----------------------------
(***************************************************************************)
(* ParkingLot, Event and Value: a wait queue, and a walk over those who    *)
(* wait in it.                                                             *)
(*                                                                         *)
(* Called by a task, unparkAll() and modify() schedule whom they wake.     *)
(* Called from outside the executor, they run each task they wake, and all *)
(* that it wakes in turn, before they go on to the next: tasks run, and    *)
(* call the same objects, in the middle of the walk.                       *)
(*                                                                         *)
(* Awaiters are constructed where they are awaited.  Cancelling a task     *)
(* that is not suspended on one of the objects does not touch them, and is *)
(* left out.                                                               *)
(***************************************************************************)
EXTENDS Naturals, Sequences, FiniteSets, SequencesExt

CONSTANTS
  Tasks,
  Values,    \* what the Value holds; 0 at first
  NoTask

ASSUME WaitQueuesAssumption ==
  IsFiniteSet(Tasks) /\ NoTask \notin Tasks /\ 0 \in Values

Objects == {"lot", "event", "value"}

\* A predicate of a Value is the set of transitions that satisfy it.
Transitions == Values \X Values
untilMatches(v) == Values \X {v}
untilChanged == {t \in Transitions : t[1] # t[2]}

VARIABLES
  parked,     \* parked_ of each object
  value,      \* Value::value_
  triggered,  \* Event::triggered_
  pred,       \* pred[t]: fn_ of the awaiter on which t waits for the Value
  result,     \* result[t]: result_ of that awaiter
  walk,       \* a walk called from outside: the object, the transition, those
              \* in the local list parked, and (history) those it has woken and
              \* those who waited when it was called and have not left since
  ready,      \* tasks scheduled on the executor
  running,    \* the task whose step is on the CPU
  seen,       \* history: the transitions that the Value has made
  missed      \* history: tasks that waited in the local list of a walk while
              \* another task modified the Value

vars == <<parked, value, triggered, pred, result, walk, ready, running, seen, missed>>

NoWalk == [obj |-> "none", trans |-> <<0, 0>>, rest |-> <<>>, woke |-> {}, waited |-> {}]

TypeOK ==
  /\ parked \in [Objects -> Seq(Tasks)] /\ value \in Values /\ triggered \in BOOLEAN
  /\ pred \in [Tasks -> SUBSET Transitions] /\ result \in [Tasks -> Transitions \cup {<<>>}]
  /\ walk \in [obj: Objects \cup {"none"}, trans: Transitions, rest: Seq(Tasks),
              woke: SUBSET Tasks, waited: SUBSET Tasks]
  /\ ready \in Seq(Tasks) /\ running \in Tasks \cup {NoTask}
  /\ seen \subseteq Transitions /\ missed \subseteq Tasks

Init ==
  /\ parked = [o \in Objects |-> <<>>] /\ value = 0 /\ triggered = FALSE
  /\ pred = [t \in Tasks |-> {}] /\ result = [t \in Tasks |-> <<>>]
  /\ walk = NoWalk /\ ready = <<>> /\ running = NoTask
  /\ seen = {} /\ missed = {}

Inside == running # NoTask
Quiet == ~Inside /\ ready = <<>>

\* Either a task or the event loop calls, the latter when nothing else is going on.
MayCall == Inside \/ (Quiet /\ walk = NoWalk)

\* Tasks that have not been scheduled and wait for nothing.
Idle(t) ==
  /\ t # running /\ ~Contains(ready, t) /\ ~Contains(walk.rest, t)
  /\ \A o \in Objects : ~Contains(parked[o], t)

(***************************************************************************)
(* Waking.                                                                 *)
(***************************************************************************)

\* Does t, which waits for o, wake up?  AwaiterBase::matches()
Matches(o, t, trans) == o # "value" \/ trans \in pred[t]

\* FAULT: the transition up to the value as it is by then.
ObservedNow(trans) == <<trans[1], value>>
\* What onChanged() is passed.
Observed(trans) == trans

Results(o, woken, trans) ==
  [t \in Tasks |-> IF o = "value" /\ t \in woken THEN trans ELSE result[t]]

\* Wakes those who wait for o and match: a task schedules them, the event loop
\* begins a walk.
Wake(o, trans) ==
  IF Inside
    THEN \E woken \in {SelectSeq(parked[o], LAMBDA t : Matches(o, t, trans))} :
           /\ ready' = ready \o woken
           /\ parked' = [parked EXCEPT ![o] = SelectSeq(@, LAMBDA t : ~Matches(o, t, trans))]
           /\ result' = Results(o, ToSet(woken), trans)
           /\ UNCHANGED walk
    ELSE /\ walk' = [obj |-> o, trans |-> trans, rest |-> parked[o], woke |-> {},
                   waited |-> ToSet(parked[o])]
         /\ parked' = [parked EXCEPT ![o] = <<>>]
         /\ UNCHANGED <<ready, result>>

\* One turn of the loop of such a walk.
Walk ==
  /\ Quiet /\ walk.rest # <<>>
  /\ \E t \in {Head(walk.rest)}, trans \in {Observed(walk.trans)} :
       IF Matches(walk.obj, t, trans)
         THEN /\ ready' = <<t>> /\ result' = Results(walk.obj, {t}, trans)
              /\ walk' = [walk EXCEPT !.rest = Tail(@), !.woke = @ \cup {t}]
              /\ UNCHANGED parked
         ELSE /\ parked' = [parked EXCEPT ![walk.obj] = Append(@, t)]
              /\ walk' = [walk EXCEPT !.rest = Tail(@)]
              /\ UNCHANGED <<ready, result>>
  /\ UNCHANGED <<value, triggered, pred, running, seen, missed>>

\* Back to the event loop.
WalkEnds ==
  /\ Quiet /\ walk # NoWalk /\ walk.rest = <<>> /\ walk' = NoWalk
  /\ UNCHANGED <<parked, value, triggered, pred, result, ready, running, seen, missed>>

(***************************************************************************)
(* Calls that wake.                                                        *)
(***************************************************************************)

unparkOne ==
  /\ MayCall /\ parked["lot"] # <<>>
  /\ ready' = Append(ready, Head(parked["lot"]))
  /\ parked' = [parked EXCEPT !["lot"] = Tail(@)]
  /\ UNCHANGED <<value, triggered, pred, result, walk, running, seen, missed>>

unparkAll ==
  /\ MayCall /\ parked["lot"] # <<>> /\ Wake("lot", <<value, value>>)
  /\ UNCHANGED <<value, triggered, pred, running, seen, missed>>

trigger ==
  /\ MayCall /\ triggered' = TRUE /\ Wake("event", <<value, value>>)
  /\ UNCHANGED <<value, pred, running, seen, missed>>

\* Value::modify() and all that is built on it.
modify(v) ==
  /\ MayCall /\ value' = v /\ Wake("value", <<value, v>>)
  /\ seen' = seen \cup {<<value, v>>}
  /\ missed' = (missed \ ToSet(parked["value"]))
               \cup IF walk.obj = "value" THEN ToSet(walk.rest) ELSE {}
  /\ UNCHANGED <<triggered, pred, running>>

(***************************************************************************)
(* Tasks.                                                                  *)
(***************************************************************************)

\* The event loop starts a task.
Start(t) ==
  /\ Quiet /\ walk = NoWalk /\ Idle(t) /\ ready' = <<t>>
  /\ UNCHANGED <<parked, value, triggered, pred, result, walk, running, seen, missed>>

\* The executor runs a step of the next task, which takes its result.
Run ==
  /\ ~Inside /\ ready # <<>>
  /\ running' = Head(ready) /\ ready' = Tail(ready)
  /\ pred' = [pred EXCEPT ![Head(ready)] = {}] /\ result' = [result EXCEPT ![Head(ready)] = <<>>]
  /\ missed' = missed \ {Head(ready)}
  /\ UNCHANGED <<parked, value, triggered, walk, seen>>

Park(o) ==
  /\ parked' = [parked EXCEPT ![o] = Append(@, running)] /\ running' = NoTask
  /\ UNCHANGED <<value, triggered, result, walk, ready, seen, missed>>

AwaitLot == Inside /\ Park("lot") /\ UNCHANGED pred

EventReady == triggered

\* Awaiting an event that is ready does nothing.
AwaitEvent == Inside /\ ~EventReady /\ Park("event") /\ UNCHANGED pred

\* FAULT: untilMatches() waits for the next assignment.
MatchesLater(v) == FALSE
MatchesNow(v) == value = v

AwaitMatch(v) ==
  /\ Inside /\ ~MatchesNow(v) /\ Park("value")
  /\ pred' = [pred EXCEPT ![running] = untilMatches(v)]

AwaitChange(p) ==
  Inside /\ Park("value") /\ pred' = [pred EXCEPT ![running] = p]

\* The task awaits something else, or ends.
Leave ==
  /\ Inside /\ running' = NoTask
  /\ UNCHANGED <<parked, value, triggered, pred, result, walk, ready, seen, missed>>

\* FAULT: only the list of the object is looked through.
StaysInWalk(t) == walk.rest

\* unlink() takes a task off whichever list it is in, that of a walk included.
OutOfWalk(t) == SelectSeq(walk.rest, LAMBDA u : u # t)

\* Cancellation of a task that waits: await_cancel() takes it off its list.
Cancel(t) ==
  /\ MayCall /\ \E o \in Objects : Contains(parked[o] \o walk.rest, t)
  /\ parked' = [o \in Objects |-> SelectSeq(parked[o], LAMBDA u : u # t)]
  /\ walk' = IF Contains(walk.rest, t)
              THEN [walk EXCEPT !.rest = OutOfWalk(t), !.waited = @ \ {t}] ELSE walk
  /\ pred' = [pred EXCEPT ![t] = {}] /\ missed' = missed \ {t}
  /\ UNCHANGED <<value, triggered, result, ready, running, seen>>

Next ==
  \/ Walk \/ WalkEnds \/ unparkOne \/ unparkAll \/ trigger
  \/ \E v \in Values : modify(v) \/ AwaitMatch(v)
  \/ \E p \in {untilChanged} \cup {{t} : t \in Transitions} : AwaitChange(p)
  \/ Run \/ AwaitLot \/ AwaitEvent \/ Leave
  \/ \E t \in Tasks : Start(t) \/ Cancel(t)

Spec == Init /\ [][Next]_vars

(***************************************************************************)
(* Properties.                                                             *)
(***************************************************************************)

\* "Wake all tasks that were waiting when the call to unparkAll() began", and no others:
\* whatever tasks do in the middle of the walk, each of those that waited and did not
\* leave is in the local list still or has been woken, not both, and none that parked
\* since is.  No task is left to wait for an event that has been triggered.
\* None sleeps in untilMatches() beside a value that matches: modify() has offered
\* the value to each, except to those in the local list of a modify() further out,
\* which offers them its own.
WokenOnce ==
  /\ walk.obj # "value" =>
       /\ walk.waited = walk.woke \cup ToSet(walk.rest)
       /\ walk.woke \cap ToSet(walk.rest) = {} /\ IsInjective(walk.rest)
  /\ triggered \/ walk.obj = "event" => parked["event"] = <<>>
  /\ \A t \in ToSet(parked["value"]) : pred[t] = untilMatches(value) => t \in missed

\* A task is given a transition that the Value really made and that satisfies
\* its predicate, even if the Value has changed again since, be it in the
\* middle of modify().
YieldsTransition ==
  \A t \in Tasks : result[t] # <<>> => result[t] \in seen \cap pred[t]
=============================================================================
