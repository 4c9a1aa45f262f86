--------------------------- MODULE AwaiterChecker ---------------------------
(***************************************************************************)
(* AwaiterStateChecker: the protocol between an awaiter and whoever awaits *)
(* it, as the automaton that debug builds wrap around every awaiter.       *)
(*                                                                         *)
(* An operator is a call that is reported to the checker, from the state   *)
(* of the checker to the next one: "Bad" if an assertion fails, and then   *)
(* for ever.                                                               *)
(***************************************************************************)

NewChecker == [state |-> "Initial", hasExecutor |-> FALSE]

CheckerStates ==
  {"Initial", "NotReady", "InitialCxlPend", "CancelPending", "ReadyImmediately", "Running",
   "Cancelling", "ReadyAfterCancel", "Ready", "Cancelled", "Done", "Bad"}

Checkers == [state: CheckerStates, hasExecutor: BOOLEAN]

\* The state that table gives for the present one.
Moved(c, table) ==
  [c EXCEPT !.state = IF c.state \in DOMAIN table THEN table[c.state] ELSE "Bad"]

readyReturned(c, val) ==
  Moved(c, IF val
    THEN [Initial |-> "ReadyImmediately", NotReady |-> "ReadyImmediately",
          InitialCxlPend |-> "ReadyAfterCancel", CancelPending |-> "ReadyAfterCancel",
          ReadyImmediately |-> "ReadyImmediately", ReadyAfterCancel |-> "ReadyAfterCancel"]
    ELSE [Initial |-> "NotReady", NotReady |-> "NotReady",
          InitialCxlPend |-> "CancelPending", CancelPending |-> "CancelPending"])

earlyCancelReturned(c, val) ==
  Moved(c, IF val
    THEN [Initial |-> "Cancelled", NotReady |-> "Cancelled", ReadyImmediately |-> "Cancelled"]
    ELSE [Initial |-> "InitialCxlPend", NotReady |-> "CancelPending",
          ReadyImmediately |-> "ReadyAfterCancel"])

aboutToSetExecutor(c) ==
  IF c.state \in {"NotReady", "CancelPending", "ReadyImmediately", "Initial", "InitialCxlPend"}
    THEN [c EXCEPT !.hasExecutor = TRUE]
    ELSE [c EXCEPT !.state = "Bad"]

aboutToSuspend(c) ==
  IF c.hasExecutor
    THEN Moved(c, [NotReady |-> "Running", CancelPending |-> "Cancelling"])
    ELSE [c EXCEPT !.state = "Bad"]

suspendThrew(c) == Moved(c, [Running |-> "Done", Cancelling |-> "Done"])

\* The handle passed to await_suspend() is resumed.
resumed(c) == Moved(c, [Running |-> "Ready", Cancelling |-> "ReadyAfterCancel"])

aboutToCancel(c) == Moved(c, [Running |-> "Cancelling"])

cancelReturned(c, val) ==
  IF val THEN Moved(c, [Cancelling |-> "Cancelled"]) ELSE c

mustResumeReturned(c, val) ==
  Moved(c, [ReadyAfterCancel |-> IF val THEN "Ready" ELSE "Cancelled"])

aboutToResume(c) == Moved(c, [ReadyImmediately |-> "Done", Ready |-> "Done"])

\* The awaiter is destroyed, or the checker used for another one.
reset(c) ==
  IF c.state \in {"Cancelled", "Done", "Initial"} THEN NewChecker ELSE [c EXCEPT !.state = "Bad"]
=============================================================================
