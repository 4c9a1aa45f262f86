------------------------------ MODULE CBPortal ------------------------------
(***************************************************************************)
(* corral::CBPortal and untilCBCalled(): a task, the portals it waits on,  *)
(* and the foreign code that was given their bridge callbacks.             *)
(*                                                                         *)
(* The initiate function runs inside await_suspend(), a bridge callback    *)
(* runs a step of the task before it returns, and that step may call       *)
(* untilCBCalled() again: the two sides run on one stack.                  *)
(*                                                                         *)
(* Several portals are awaited through anyOf(): the portal whose callback  *)
(* is called wins, the others are cancelled at once.  The task lives in a  *)
(* nursery, and it is the nursery that is cancelled: the frame of a        *)
(* cancelled task is destroyed before NurseryBase::cancel() returns.       *)
(***************************************************************************)
EXTENDS Naturals, Sequences, FiniteSets, Functions

CONSTANTS
  Counts,    \* how many portals there may be
  Modes,     \* subset of {"external", "cancelFn", "plain"}: the overloads
  MaxUses,   \* bound: calls of untilCBCalled()
  MaxCalls   \* bound: calls of bridge callbacks

ASSUME CBPortalAssumption ==
  /\ Counts \subseteq Nat \ {0} /\ MaxUses \in Nat /\ MaxCalls \in Nat
  /\ Modes \subseteq {"external", "cancelFn", "plain"}

VARIABLES
  mode, n,    \* the overload, the number of portals
  full,       \* portals with a value_
  waiting,    \* portals with a parent_
  status,     \* CBPortalProxyStatus
  uses,       \* how many proxies there have been; the last one may be alive
  completed,  \* those whose await_suspend() will find completed set
  stack,      \* what runs, the innermost first: 0 is a step of the task, k the
              \* k-th initiate function
  cst,        \* the task: "running", "proxy" and "portals" (suspended on one of
              \* those), "busy" (on something else), "done", "cancelled"
  cxl,        \* its cancellation was requested
  requested,  \* cancelRequested in hookAwaitSuspend(): whether it was before the task suspended
  armed,      \* the foreign code holds callbacks that it may call
  calls, got  \* history: calls of callbacks, results given to the task

vars == <<mode, n, full, waiting, status, uses, completed, stack, cst, cxl, requested, armed,
          calls, got>>

Portals == 1..n

TypeOK ==
  /\ mode \in Modes /\ n \in Counts
  /\ full \subseteq Portals /\ waiting \subseteq Portals
  /\ status \in {"NotStarted", "Scheduled", "CancelPending", "Initiated"}
  /\ uses \in 0..MaxUses /\ completed \subseteq 1..uses
  /\ stack \in Seq(0..uses)
  /\ cst \in {"running", "proxy", "portals", "busy", "done", "cancelled"}
  /\ cxl \in BOOLEAN /\ requested \in BOOLEAN /\ armed \in BOOLEAN
  /\ calls \in 0..MaxCalls /\ got \in 0..MaxCalls

Init ==
  /\ mode \in Modes /\ n \in Counts
  /\ full = {} /\ waiting = {} /\ status = "NotStarted"
  /\ uses = 0 /\ completed = {} /\ stack = <<0>>
  /\ cst = "running" /\ cxl = FALSE /\ requested = FALSE /\ armed = FALSE
  /\ calls = 0 /\ got = 0

Running == stack # <<>> /\ Head(stack) = 0

\* The foreign code runs: called by the event loop, or as an initiate function.
ForeignCode == ~Running

(***************************************************************************)
(* The task is resumed with the portals in f holding a value, or ends.     *)
(***************************************************************************)

\* FAULT: a value that arrives after a cancellation request is not looked at.
NeverMustResume(f) == FALSE
MustResume(f) == f # {}

First(f) == CHOOSE p \in f : \A q \in f : p =< q

\* FAULT: await_resume() does not tell await_suspend(), which is still running.
CompletedUntold == completed
Completed ==
  IF cst = "proxy" /\ uses \in Range(stack) THEN completed \cup {uses} ELSE completed

\* await_resume() of the proxy or of the portals, in a step of the task.
Resumed(f) ==
  /\ got' = got + 1 /\ full' = f \ {First(f)}
  /\ completed' = Completed
  /\ waiting' = {} /\ cst' = "running"

\* BasePromise::propagateCancel()
Cancelled ==
  cst' = "cancelled" /\ waiting' = {} /\ UNCHANGED <<full, got, completed>>

\* FAULT: the task is left to the executor instead of being run at once.
WakeUpLater(f, s) ==
  waiting' = {} /\ full' = f /\ stack' = s /\ UNCHANGED <<got, completed, cst>>
\* CBPortal::wakeUp(), with s on the stack below the task.
WakeUp(f, s) ==
  IF cxl' /\ ~MustResume(f)
    THEN Cancelled /\ stack' = s
    ELSE Resumed(f) /\ stack' = <<0>> \o s

\* A task that waits on portals of its own has a guard in its frame that stops
\* the foreign code; the frame is gone when the task has ended.
Guarded(a) == a /\ ~(mode = "external" /\ cst' \in {"done", "cancelled"})

(***************************************************************************)
(* The foreign code.  It must not call a callback again before the         *)
(* previous value was consumed; portals inside the proxy get one call.     *)
(***************************************************************************)
MayCall(p) ==
  /\ armed /\ p \notin full
  /\ mode # "external" /\ stack # <<>> => Head(stack) = uses

Callback(p) ==
  /\ ForeignCode /\ MayCall(p) /\ calls < MaxCalls
  /\ calls' = calls + 1 /\ cxl' = cxl
  /\ IF p \in waiting
       THEN WakeUp(full \cup {p}, stack)
       ELSE full' = full \cup {p} /\ UNCHANGED <<waiting, completed, stack, cst, got>>
  /\ armed' = Guarded(armed /\ mode = "external")
  /\ UNCHANGED <<mode, n, status, uses, requested>>

\* CBPortalProxy::await_cancel() when the initiate function has returned.
CancelInitiated(s) ==
  IF mode = "plain"
    THEN stack' = s /\ UNCHANGED <<full, waiting, completed, cst, armed, got>>
    ELSE WakeUp(full, s) /\ armed' = Guarded(armed /\ mode # "cancelFn")

\* FAULT: a cancellation requested meanwhile is not acted upon.
NeverCancelPending == FALSE
WasCancelled == status = "CancelPending" /\ 1 \in waiting

\* The rest of CBPortalProxy::await_suspend().
InitiateReturns ==
  /\ stack # <<>> /\ Head(stack) > 0
  /\ IF Head(stack) \in completed
       THEN UNCHANGED status
       ELSE status' = "Initiated"
  /\ cxl' = cxl
  /\ IF Head(stack) \notin completed /\ WasCancelled
       THEN CancelInitiated(Tail(stack))
       ELSE stack' = Tail(stack) /\ UNCHANGED <<full, waiting, completed, cst, armed, got>>
  /\ UNCHANGED <<mode, n, uses, requested, calls>>

\* The initiate function throws: so does co_await, in the task.  Portals of the task's own
\* keep their parent_, and of a request made meanwhile nothing is left.  A function that
\* throws has called no callback, and leaves none to be called.
InitiateThrows ==
  /\ stack # <<>> /\ Head(stack) > 0 /\ Head(stack) \notin completed
  /\ stack' = <<0>> \o Tail(stack) /\ cst' = "running"
  /\ cxl' = requested /\ armed' = FALSE
  /\ waiting' = IF mode = "external" THEN waiting ELSE {}
  /\ UNCHANGED <<mode, n, full, status, uses, completed, requested, calls, got>>

(***************************************************************************)
(* Steps of the task.                                                      *)
(***************************************************************************)

\* co_await untilCBCalled(...), of portals without a value: the constructor,
\* await_early_cancel() and the first half of await_suspend().
UntilCBCalled ==
  /\ Running /\ uses < MaxUses /\ full = {}
  /\ IF cxl /\ mode # "external"
       THEN /\ Cancelled /\ stack' = Tail(stack)
            /\ UNCHANGED <<status, uses, armed>>
       ELSE /\ waiting' = Portals /\ cst' = "proxy" /\ armed' = TRUE
            /\ status' = IF cxl THEN "CancelPending" ELSE "Scheduled"
            /\ uses' = uses + 1 /\ stack' = <<uses + 1>> \o Tail(stack)
            /\ UNCHANGED <<full, completed, got>>
  /\ requested' = cxl
  /\ UNCHANGED <<mode, n, cxl, calls>>

\* co_await portal, or anyOf() of the portals.
AwaitPortals ==
  /\ Running /\ mode = "external" /\ uses > 0
  /\ IF cxl THEN Cancelled /\ stack' = Tail(stack)
     ELSE IF full # {} THEN Resumed(full) /\ UNCHANGED stack
     ELSE /\ waiting' = Portals /\ cst' = "portals" /\ stack' = Tail(stack)
          /\ UNCHANGED <<full, completed, got>>
  /\ armed' = Guarded(armed)
  /\ UNCHANGED <<mode, n, status, uses, cxl, requested, calls>>

\* co_await of something else, which may be cancellable.
AwaitOther ==
  /\ Running /\ stack' = Tail(stack)
  /\ \/ cst' = "busy" /\ UNCHANGED <<full, waiting, completed, got>>
     \/ cxl /\ Cancelled
  /\ armed' = Guarded(armed)
  /\ UNCHANGED <<mode, n, status, uses, cxl, requested, calls>>

\* The executor runs the task when that is over.
Run ==
  /\ stack = <<>> /\ cst = "busy"
  /\ stack' = <<0>> /\ cst' = "running"
  /\ UNCHANGED <<mode, n, full, waiting, status, uses, completed, cxl, requested, armed, calls, got>>

Return ==
  /\ Running /\ stack' = Tail(stack) /\ cst' = "done"
  /\ armed' = Guarded(armed)
  /\ UNCHANGED <<mode, n, full, waiting, status, uses, completed, cxl, requested, calls, got>>

\* BasePromise::cancel(), by whoever runs, unless a request is pending.
Cancel ==
  /\ ~cxl /\ cst \notin {"done", "cancelled"} /\ cxl' = TRUE
  /\ \/ /\ cst \in {"running", "busy"}
        /\ UNCHANGED <<full, waiting, status, completed, stack, cst, armed, got>>
     \/ /\ cst = "busy" /\ Cancelled
        /\ armed' = Guarded(armed) /\ UNCHANGED <<stack, status>>
     \/ /\ cst = "proxy" /\ status # "Initiated" /\ status' = "CancelPending"
        /\ UNCHANGED <<full, waiting, completed, stack, cst, armed, got>>
     \/ cst = "proxy" /\ status = "Initiated" /\ CancelInitiated(stack) /\ UNCHANGED status
     \/ /\ cst = "portals" /\ WakeUp(full, stack)
        /\ armed' = Guarded(armed) /\ UNCHANGED status
  /\ UNCHANGED <<mode, n, uses, requested, calls>>

Next ==
  \/ \E p \in Portals : Callback(p)
  \/ InitiateReturns \/ InitiateThrows
  \/ UntilCBCalled \/ AwaitPortals \/ AwaitOther \/ Run \/ Return
  \/ Cancel

Spec == Init /\ [][Next]_vars

(***************************************************************************)
(* Properties.                                                             *)
(***************************************************************************)

\* When the initiate function returns, await_suspend() goes on to use the proxy
\* unless completed is set: only if the task is still suspended on that proxy,
\* and has not destroyed it in a step that ran inside the initiate function.
ProxyOutlivesUse ==
  \A k \in Range(stack) \ {0} : k \notin completed => cst = "proxy" /\ k = uses

\* A callback runs the waiting task before it returns: a value is left in a
\* portal only while its task is busy with something else, and every call has
\* produced one result or is that value.
KeepsUp ==
  /\ full # {} => cst \notin {"proxy", "portals"}
  /\ calls = got + Cardinality(full)

\* A call of a callback that the task waits for is never answered by cancelling
\* the task, whatever requests were pending: await_must_resume() sees the value.
CallBeatsCancellation ==
  [][calls' # calls => cst' # "cancelled"]_vars

\* No cancellation request is forgotten, not even one made while the initiate
\* function runs: once it has returned, only the overload that has no way to
\* stop the callbacks goes on waiting.  (If the function throws, the request is
\* lost: hookAwaitSuspend() restores only one that was pending before.)  And when
\* the task has ended, and its portals with it, the foreign code has no callback
\* left to call: it has called it, or cancelFn has told it not to.
CancelHonoured ==
  /\ cxl => /\ cst # "portals"
            /\ cst = "proxy" /\ uses \notin Range(stack) => mode = "plain"
  /\ cst \in {"done", "cancelled"} => ~armed
=============================================================================
