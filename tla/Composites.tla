----------------------------- MODULE Composites -----------------------------
(***************************************************************************)
(* The awaiters that are made of others (Sequence, With, TryBlock and the  *)
(* adapters), each between a client that awaits it and awaiters below that *)
(* it awaits.  Client and awaiters below do anything the awaiter protocol  *)
(* allows, in any order; the composite does what its code does.            *)
(***************************************************************************)
EXTENDS With, TryBlock, Adapters

VARIABLE s

Init == s \in Sequences \cup Withs \cup TryBlocks \cup Adapted

Below == DOMAIN s.leaf

\* Somebody below the composite has yet to complete.
Busy(t) ==
  \/ \E i \in DOMAIN t.leaf : t.chk[i].state \in {"Running", "Cancelling"}
  \/ t.kind = "try" /\ t.task

\* No assertion has failed, neither of the composite nor of a checker; the program would be
\* at its end.
Intact ==
  /\ s.sound /\ s.outer.state # "Bad"
  /\ \A i \in Below : s.chk[i].state # "Bad"

\* What a Sequence and a With do not cope with.
Strained(t) ==
  \/ t.kind = "sequence" /\ t.leaf[2].throws
  \/ t.kind = "with" /\ WithStrained(t)

-----------------------------------------------------------------------------
(* The calls of the client.                                                *)

Told(t) == [t EXCEPT !.ret = FALSE]    \* what was returned is not remembered

await_early_cancel ==
  /\ Intact
  /\ s.outer.state \in {"Initial", "NotReady", "ReadyImmediately"}
  /\ LET r == CASE s.kind = "sequence" -> SeqEarlyCancel(s)
                [] s.kind = "with" -> doCancel(s)
                [] s.kind = "try" -> TryEarlyCancel(s)
                [] OTHER -> AdEarlyCancel(s)
     IN s' = Told([r EXCEPT !.outer = earlyCancelReturned(@, r.ret)])

await_ready ==
  /\ Intact
  /\ s.outer.state \in {"Initial", "InitialCxlPend"}
  /\ LET r == CASE s.kind \in {"sequence", "try"} -> [s EXCEPT !.ret = FALSE]
                [] s.kind = "with" -> WithReady(s)
                [] OTHER -> AdReady(s)
     IN s' = Told([r EXCEPT !.outer = readyReturned(@, r.ret)])

await_set_executor ==
  /\ Intact
  /\ s.outer.state \in {"Initial", "NotReady", "InitialCxlPend", "CancelPending"}
  /\ ~s.outer.hasExecutor
  /\ LET r == CASE s.kind \in {"sequence", "with"} -> SetExecutors(s)
                [] s.kind = "try" -> s
                [] OTHER -> AdSetExecutor(s)
     IN s' = Told([r EXCEPT !.outer = aboutToSetExecutor(@)])

await_suspend ==
  /\ Intact
  /\ s.outer.state \in {"NotReady", "CancelPending"} /\ s.outer.hasExecutor
  /\ LET t == [s EXCEPT !.outer = aboutToSuspend(@)]
         r == CASE s.kind = "sequence" -> SeqSuspend(t)
                [] s.kind = "with" -> [WithSuspend(t) EXCEPT !.ret = TRUE]
                [] s.kind = "try" -> TrySuspend(t)
                [] OTHER -> AdSuspend(t)
     IN s' = Told(IF r.ret THEN r
                  ELSE [r EXCEPT !.outer = suspendThrew(@), !.thrown = TRUE])

await_cancel ==
  /\ Intact
  /\ s.outer.state = "Running"
  /\ LET t == [s EXCEPT !.outer = aboutToCancel(@)]
     IN \E sync \in IF s.kind = "try" /\ s.task /\ ~s.asked /\ s.stage # "FINALLY"
                     THEN BOOLEAN ELSE {FALSE} :
          LET r == CASE s.kind = "sequence" -> SeqCancel(t)
                     [] s.kind = "with" -> doCancel(t)
                     [] s.kind = "try" -> TryCancel(t, sync)
                     [] OTHER -> AdCancel(t)
          IN s' = Told([r EXCEPT !.outer = cancelReturned(@, r.ret)])

await_must_resume ==
  /\ Intact
  /\ s.outer.state = "ReadyAfterCancel"
  /\ s' = Told(Answered(CASE s.kind = "sequence" -> SeqMustResume(s)
                          [] s.kind = "with" -> WithMustResume(s)
                          [] s.kind = "try" -> TryMustResume(s)
                          [] OTHER -> AdMustResume(s)))

await_resume ==
  /\ Intact
  /\ s.outer.state \in {"Ready", "ReadyImmediately"}
  /\ LET r == CASE s.kind = "sequence" -> SeqResume(s)
                [] s.kind = "with" -> WithResume(s)
                [] s.kind = "try" -> TryResume(s)
                [] OTHER -> AdResume(s)
     IN s' = Told([r EXCEPT !.outer = aboutToResume(@)])

\* The composite is destroyed, and the awaiters below with it.  (Only those that have a
\* checker: noncancellable() and disposable() have none.)
destroy ==
  /\ Intact
  /\ s.outer = NewChecker \/ s.outer.state \in {"Cancelled", "Done"}
  /\ LET first == IF s.kind \in {"sequence", "with", "lambda", "runOnCancel"}
                    THEN Destroy(s, 1) ELSE s
         second == IF s.kind \in {"sequence", "with"} THEN Destroy(first, 2) ELSE first
     IN s' = Asserted([second EXCEPT !.outer = Gone], ~Busy(s))

-----------------------------------------------------------------------------
(* What the awaiters below do.                                             *)

Complete(i) ==
  /\ Intact
  /\ i \in Below /\ s.chk[i].state \in {"Running", "Cancelling"}
  /\ s.kind = "with" => MayComplete(s, i)
  /\ s' = Told(CASE s.kind = "sequence" -> SeqCompletes(s, i)
                 [] s.kind = "with" -> WithCompletes(s, i)
                 [] OTHER -> AdCompletes(s))

\* The first stage of a With calls its TaskStarted.
Report ==
  /\ Intact
  /\ s.kind = "with" /\ s.chk[1].state \in {"Running", "Cancelling"} /\ ~s.reported
  /\ s' = Told(markStarted(s))

\* The task of the present block of a TryBlock ends.
BlockEnds ==
  /\ Intact
  /\ s.kind = "try" /\ s.task
  /\ \E outcome \in {"value", "error"} \cup IF s.asked THEN {"cancelled"} ELSE {} :
       s' = Told(TryEnds(s, outcome))

Over == (s.outer.state \notin CheckerStates \/ ~Intact) /\ UNCHANGED s

Next ==
  \/ await_early_cancel \/ await_ready \/ await_set_executor \/ await_suspend
  \/ await_cancel \/ await_must_resume \/ await_resume \/ destroy
  \/ Report \/ BlockEnds \/ Over
  \/ \E i \in 1..2 : Complete(i)

Spec == Init /\ [][Next]_s

-----------------------------------------------------------------------------

\* A composite awaiter keeps to the awaiter protocol on both sides: it drives the awaiters
\* below in the order AwaiterStateChecker demands, destroys none that is not at rest, uses
\* none that is not constructed or already destroyed, resumes its parent only while that is
\* suspended on it, and none of its own assertions fails.  There are exceptions, and these
\* are all: a second stage of a Sequence that throws from await_suspend() ends the program,
\* as kickOffSecond() is noexcept, and With fails as WithStrained says.
ProtocolKept == Intact \/ Strained(s)

\* While a task is suspended on a composite awaiter, somebody below has yet to complete:
\* the task is never forgotten.  (untilCancelledAnd() waits for nobody until it is cancelled.)
\* A program that has failed an assertion is at its end, and no longer counts.
NeverStranded ==
  Intact =>
    /\ s.outer.state = "Running" /\ s.kind # "runOnCancel" => Busy(s)
    /\ s.outer.state = "Cancelling" => Busy(s)

\* An exception thrown by a stage reaches the task that awaits the composite: the composite
\* does not end as cancelled, nor returns a value, after somebody below has thrown.
ErrorsHeard ==
  /\ s.failed => s.outer.state # "Cancelled"
  /\ s.outer.state = "Done" => (s.failed => s.thrown)

\* A request to cancel reaches whoever is running below: under a composite that has been
\* asked, every stage that runs has been asked as well, one that began after the request
\* included.  A With asks its background stage after the other is over; a TryBlock leaves its
\* finally block alone, and the catch block, which begins when the request is spent.
CancelPassedOn ==
  s.outer.state = "Cancelling" =>
    CASE s.kind \in {"sequence", "disposable", "lambda"} ->
           \A i \in Below : s.chk[i].state # "Running"
      [] s.kind = "with" ->
           /\ s.chk[2].state # "Running"
           /\ s.chk[1].state = "Running" => s.chk[2].state = "Cancelling"
      [] s.kind = "try" -> s.stage = "TRY" /\ s.task => s.asked
      [] OTHER -> TRUE

\* The finally block runs whatever happens to the others: a TryBlock that was entered is not
\* over before its finally block is.  When that begins, the tasks of the other blocks, with
\* their local variables, are destroyed; and it is never asked to cancel.
FinallyRuns ==
  s.kind = "try" =>
    /\ s.entered # {} /\ s.outer.state \notin {"Running", "Cancelling", "Terminated"}
         => "FINALLY" \in s.left
    /\ "FINALLY" \in s.entered => s.entered \subseteq s.left \cup {"FINALLY"}
    /\ s.stage = "FINALLY" /\ s.task => ~s.asked

\* The background stage of a With is usable as long as the other stage runs: once With is
\* awaited, it is asked to cancel only when the second stage is over and destroyed, or
\* cancelled on the spot (when it is not destroyed first, against the comment in
\* onStageDone()).
BackgroundStays ==
  [][s.kind = "with" /\ s.outer.state \in {"Running", "Cancelling"}
       /\ 1 \in s'.stageCancelling \ s.stageCancelling
     => s'.chk[2] = Gone \/ s'.chk[2].state = "Cancelled"]_s
=============================================================================
